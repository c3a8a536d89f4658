--------------------------- MODULE ThreadPoolProofs -------------------------
(***************************************************************************)
(* Safety of the thread pool for any number of tasks and threads; and of   *)
(* the linked list that its queue is, for any number of pushing and        *)
(* popping threads.                                                        *)
(*                                                                         *)
(* Inv holds until a join returns, or a delete frees, a task still in use  *)
(* (`wild'): Aftermath is what remains true then.                          *)
(***************************************************************************)
EXTENDS ThreadPool, TaskQueue, SequenceTheorems, FiniteSetTheorems, TLAPS

WorkerStep(w) == Worker(w) \/ WakeUnsignalled(w)
CallStep == InCall \/ JoinWakeUnsignalled

(* A worker has a task exactly while it is between taking it and letting go  *)
(* of it, and exists exactly when its slot is below threads_count.           *)
WorkerInv ==
  \A w \in Workers :
    /\ wtask[w] \in Tasks <=> wpc[w] \in Holding
    /\ wpc[w] = "none" <=> w > threads

StatusFits(w) ==
  /\ wpc[w] = "start" => status[wtask[w]] = "pushed"
  /\ wpc[w] \in {"count", "exec", "settle"} => status[wtask[w]] = "running"
  /\ wpc[w] = "publish" => status[wtask[w]] = "finished"
  /\ wpc[w] = "reap" => status[wtask[w]] = "free" /\ detached[wtask[w]]

(* A task is in one place at most, and its status says how far it has come.  *)
PlaceInv ==
  /\ \A i, j \in 1..Len(queue) : queue[i] = queue[j] => i = j
  /\ \A w \in Workers, t \in Tasks : Holds(w, t) => ~InQueue(t)
  /\ \A w, v \in Workers, t \in Tasks : Holds(w, t) /\ Holds(v, t) => w = v
  /\ \A t \in Tasks : InQueue(t) => status[t] = "pushed"
  /\ \A w \in Workers : StatusFits(w)

InHand(t) == InQueue(t) \/ \E w \in Workers : Holds(w, t)

(* What the client may do with a task fits where the task is. *)
HandleInv ==
  \A t \in Tasks :
    /\ InHand(t) => handle[t] = "pushed" \/ (handle[t] = "none" /\ detached[t])
    /\ detached[t] => handle[t] = "none"
    /\ handle[t] = "pushed" => status[t] # "free"
    /\ handle[t] = "idle" =>
         \/ status[t] \in {"free", "finished"}
         \/ status[t] = "pushed" /\ At("push", "enqueue") /\ call.task = t

(* What the client's call has established about the task it is about. *)
CallInv ==
  \A t \in Tasks : call.task = t =>
    /\ At("push", "enqueue") => handle[t] = "idle" /\ status[t] = "pushed"
    /\ call.op = "push" => handle[t] # "none"
    /\ call.op \in Joins => handle[t] # "none" /\ status[t] # "free"
    /\ call.op \in Joins /\ call.at \in {"woken", "store"} =>
         status[t] = "finished" /\ ~InHand(t)
    /\ call.op = "task_delete" => handle[t] # "none"
    /\ At("detach", "lock") => handle[t] # "none"
    /\ At("detach", "free") =>
         handle[t] = "none" /\ status[t] = "free" /\ ~InHand(t) /\ ~detached[t]

AliveInv ==
  \A t \in Tasks : handle[t] # "none" \/ InHand(t) \/ call.task = t => alive[t]

CountInv ==
  \A t \in Tasks : pushes[t] = runs[t] + (IF Pending(t) THEN 1 ELSE 0)

PoolInv ==
  /\ call.op \in {"push", "delete"} => poolAlive
  /\ deleting => queue = <<>>
  /\ call.op = "delete" => queue = <<>>
  /\ call.op = "delete" /\ call.at \in {"broadcast", "reap"} => deleting
  /\ deleting => ~poolAlive \/ (call.op = "delete" /\ call.at \in {"broadcast", "reap"})
  /\ ~poolAlive => deleting /\ \A w \in Workers : wpc[w] \in {"none", "exited"}

(* The counter of running tasks counts the workers between its two changes.  *)
CountedWorkers == {w \in Workers : wpc[w] \in Counted}
RunningInv == running = Cardinality(CountedWorkers)

Inv ==
  /\ TypeOK /\ WorkerInv /\ PlaceInv /\ HandleInv /\ CallInv
  /\ AliveInv /\ CountInv /\ PoolInv /\ RunningInv

-----------------------------------------------------------------------------
(* Facts about the pieces.                                                   *)

(* The shapes a call can have, for the provers. *)
LEMMA CallShape ==
  ASSUME TypeOK
  PROVE  /\ call.task \in Tasks \cup {NoTask}
         /\ call.op \in {"push", "join", "timed_join", "detach", "task_delete"} => call.task \in Tasks
         /\ call.op \in {"none", "delete"} => call.task = NoTask
         /\ call.op = "none" => call = Idle
         /\ \A at : call.op = "push" /\ at \in {"enqueue", "spawn"}
              => [call EXCEPT !.at = at] \in Calls
         /\ \A at : call.op \in Joins /\ at \in {"lock", "wait", "woken", "early", "store"}
              => [call EXCEPT !.at = at] \in Calls
         /\ \A at : call.op = "detach" /\ at \in {"lock", "free"}
              => [call EXCEPT !.at = at] \in Calls
         /\ \A at : call.op = "delete" /\ at \in {"running", "close", "broadcast", "reap"}
              => [call EXCEPT !.at = at] \in Calls
  BY DEF TypeOK, Calls, Joins, Idle

(* Init is well-typed. *)
LEMMA InitType == Init => TypeOK
<1> SUFFICES ASSUME Init PROVE TypeOK
  OBVIOUS
<1> USE ConstantsAssumption, ObjectsAssumption DEF Init
<1>1. call \in Calls /\ ret \in Codes
  BY DEF Calls, Codes, Idle
<1>2. queue \in Seq(Tasks) /\ running \in Nat /\ threads \in 0..MaxThreads
  OBVIOUS
<1> QED
  BY <1>1, <1>2 DEF TypeOK, Workers, Statuses, Handles, WorkerPcs

(* Sets of workers are finite. *)
LEMMA WorkersFinite ==
  /\ IsFiniteSet(Workers)
  /\ \A S \in SUBSET Workers : IsFiniteSet(S) /\ Cardinality(S) \in Nat
<1>1. IsFiniteSet(Workers)
  BY ConstantsAssumption, ObjectsAssumption, FS_Interval DEF Workers
<1>2. ASSUME NEW S \in SUBSET Workers
      PROVE  IsFiniteSet(S) /\ Cardinality(S) \in Nat
  BY <1>1, FS_Subset, FS_CardinalityType
<1> QED
  BY <1>1, <1>2

(* A step of a worker keeps the types. *)
LEMMA WorkerType ==
  ASSUME TypeOK, WorkerInv, RunningInv, NEW w \in Workers, WorkerStep(w)
  PROVE  TypeOK'
<1> USE DEF TypeOK, WorkerPcs, Statuses, Goto, poolVars, taskVars, clientVars
<1>h. wpc[w] \in Holding => wtask[w] \in Tasks
  BY DEF WorkerInv
<1>1. CASE Pop(w)
  BY <1>1, HeadTailProperties, EmptySeq DEF Pop, PopTask, PopRest
<1>2. CASE PopNothing(w)
  BY <1>2 DEF PopNothing
<1>3. CASE CheckDeleting(w)
  BY <1>3 DEF CheckDeleting
<1>4. CASE WaitForTask(w)
  BY <1>4 DEF WaitForTask
<1>5. CASE WakeUp(w) \/ WakeUnsignalled(w)
  BY <1>5 DEF WakeUp, WakeUnsignalled
<1>6. CASE Start(w)
  BY <1>6 DEF Start
<1>7. CASE CountIn(w)
  BY <1>7 DEF CountIn
<1>8. CASE Execute(w)
  <2>1. wtask[w] \in Tasks /\ runs[wtask[w]] + 1 \in Nat
    BY <1>8, <1>h DEF Execute, Holding
  <2>2. runs' \in [Tasks -> Nat]
    BY <1>8, <2>1 DEF Execute
  <2> QED
    BY <1>8, <2>2 DEF Execute
<1>9. CASE Settle(w)
  BY <1>9 DEF Settle, SettledPc
<1>10. CASE Publish(w)
  <2>1. call' \in Calls
    BY <1>10, CallShape DEF Publish, WakeJoiner
  <2> QED
    BY <1>10, <2>1 DEF Publish
<1>11. CASE Reap(w)
  BY <1>11 DEF Reap
<1>12. CASE CountOut(w)
  <2>1. w \in CountedWorkers
    BY <1>12 DEF CountOut, CountedWorkers, Counted
  <2>2. running \in Nat \ {0}
    BY <2>1, WorkersFinite, FS_EmptySet DEF RunningInv, CountedWorkers
  <2> QED
    BY <1>12, <2>2 DEF CountOut
<1> QED
  BY <1>1, <1>2, <1>3, <1>4, <1>5, <1>6, <1>7, <1>8, <1>9, <1>10, <1>11, <1>12 DEF WorkerStep, Worker

(* So does a step inside a call of the client. *)
LEMMA InCallType ==
  ASSUME TypeOK, CallStep
  PROVE  TypeOK'
<1> USE CallShape DEF TypeOK, At, Return, End, GoOn, Goto, Codes,
                      poolVars, taskVars, workerVars
<1>0. Idle \in Calls
  BY DEF Idle, Calls
<1>1. CASE Enqueue
  <2>1. call.task \in Tasks /\ queue' \in Seq(Tasks)
    BY <1>1, AppendProperties DEF Enqueue
  <2>2. call' \in Calls
    BY <1>1 DEF Enqueue
  <2>3. pushes' \in [Tasks -> Nat]
    <3>1. pushes[call.task] + 1 \in Nat
      BY <2>1
    <3> QED
      BY <1>1, <2>1, <3>1 DEF Enqueue
  <2>4. wpc' \in [Workers -> WorkerPcs]
    BY <1>1 DEF Enqueue, WakeWorkers, WorkerPcs
  <2>5. handle' \in [Tasks -> Handles]
    BY <1>1, <2>1 DEF Enqueue, Handles
  <2> QED
    BY <1>1, <2>1, <2>2, <2>3, <2>4, <2>5 DEF Enqueue
<1>2. CASE Spawn
  <2>1. CASE SpawnNeeded
    <3>1. threads + 1 \in Workers /\ threads + 1 \in 0..MaxThreads
      BY SMTT(30), <2>1, ConstantsAssumption, ObjectsAssumption DEF SpawnNeeded, Workers
    <3> QED
      BY <1>0, <1>2, <2>1, <3>1 DEF Spawn, WorkerPcs
  <2>2. CASE ~SpawnNeeded
    BY <1>0, <1>2, <2>2 DEF Spawn
  <2> QED BY <2>1, <2>2
<1>3. CASE JoinLock
  <2>1. call' \in Calls
    BY <1>3 DEF JoinLock
  <2> QED BY <1>3, <2>1 DEF JoinLock
<1>4. CASE JoinWake \/ JoinWakeUnsignalled
  <2>1. call' \in Calls
    BY <1>4 DEF JoinWake, JoinWakeUnsignalled
  <2> QED BY <1>4, <2>1 DEF JoinWake, JoinWakeUnsignalled
<1>5. CASE Expire
  BY <1>0, <1>5 DEF Expire
<1>6. CASE JoinStore
  BY <1>0, <1>6 DEF JoinStore, Joins, Statuses, Handles
<1>7. CASE Detach
  <2>1. call' \in Calls
    <3>1. call.op = "detach" /\ [call EXCEPT !.at = "free"] \in Calls
      BY <1>7, CallShape DEF Detach
    <3> QED
      BY <1>0, <1>7, <3>1 DEF Detach
  <2> QED BY <1>7, <2>1 DEF Detach, Statuses, Handles
<1>8. CASE DetachFree
  BY <1>0, <1>8 DEF DetachFree
<1>9. CASE PoolDeleteRunning
  <2>1. call' \in Calls
    BY <1>0, <1>9 DEF PoolDeleteRunning
  <2> QED BY <1>9, <2>1 DEF PoolDeleteRunning
<1>10. CASE PoolDeleteClose
  <2>1. call' \in Calls
    BY <1>10 DEF PoolDeleteClose
  <2> QED BY <1>10, <2>1 DEF PoolDeleteClose
<1>11. CASE PoolDeleteBroadcast
  <2>1. call' \in Calls
    BY <1>11 DEF PoolDeleteBroadcast
  <2> QED BY <1>11, <2>1 DEF PoolDeleteBroadcast, WakeWorkers, WorkerPcs
<1>12. CASE PoolDeleteReap
  BY <1>0, <1>12 DEF PoolDeleteReap
<1>13. CASE TaskDeleteSecond
  <2>1. wild' \in BOOLEAN
    BY <1>13 DEF TaskDeleteSecond, InUse
  <2> QED
    BY <1>0, <1>13, <2>1 DEF TaskDeleteSecond, Handles
<1> QED
  BY <1>1, <1>2, <1>3, <1>4, <1>5, <1>6, <1>7, <1>8, <1>9, <1>10, <1>11, <1>12, <1>13
  DEF CallStep, InCall

(* And the first step of a call. *)
LEMMA BeginCallType ==
  ASSUME TypeOK, BeginCall
  PROVE  TypeOK'
<1> USE DEF TypeOK, Begin, Return, End, Codes, poolVars, taskVars, workerVars
<1>0. /\ Idle \in Calls
      /\ [op |-> "delete", at |-> "running", task |-> NoTask] \in Calls
      /\ \A t \in Tasks :
           /\ [op |-> "push", at |-> "enqueue", task |-> t] \in Calls
           /\ [op |-> "detach", at |-> "lock", task |-> t] \in Calls
           /\ [op |-> "task_delete", at |-> "second", task |-> t] \in Calls
           /\ \A op \in Joins : [op |-> op, at |-> "lock", task |-> t] \in Calls
  BY DEF Idle, Calls
<1>1. ASSUME NEW t \in Tasks, TaskNew(t) PROVE TypeOK'
  BY <1>0, <1>1 DEF TaskNew, Statuses, Handles
<1>2. ASSUME NEW t \in Tasks, TaskDelete(t) PROVE TypeOK'
  BY <1>0, <1>2 DEF TaskDelete, Handles
<1>3. ASSUME NEW t \in Tasks, PushBegin(t) PROVE TypeOK'
  BY <1>0, <1>3 DEF PushBegin, Statuses
<1>4. ASSUME NEW t \in Tasks, TimedJoinNegative(t) PROVE TypeOK'
  BY <1>0, <1>4 DEF TimedJoinNegative
<1>5. ASSUME NEW t \in Tasks, DetachBegin(t) PROVE TypeOK'
  BY <1>0, <1>5 DEF DetachBegin
<1>6. ASSUME NEW op \in Joins, NEW t \in Tasks, JoinBegin(op, t) PROVE TypeOK'
  BY <1>0, <1>6 DEF JoinBegin
<1>7. CASE PoolDeleteBegin
  BY <1>0, <1>7 DEF PoolDeleteBegin
<1> QED
  BY <1>1, <1>2, <1>3, <1>4, <1>5, <1>6, <1>7 DEF BeginCall

(* Every step keeps the types. *)
LEMMA NextType ==
  ASSUME TypeOK, WorkerInv, RunningInv, [Next]_vars
  PROVE  TypeOK'
<1>1. CASE UNCHANGED vars
  BY <1>1 DEF TypeOK, vars, poolVars, taskVars, workerVars, clientVars
<1> QED
  BY <1>1, WorkerType, InCallType, BeginCallType DEF Next, WorkerStep, CallStep

-----------------------------------------------------------------------------
(* Workers and their counter.                                                *)

(* Beginning a call moves no worker and changes nothing in the pool. *)
LEMMA BeginCallFrame == BeginCall => UNCHANGED <<poolVars, workerVars, runs, pushes>>
  BY DEF BeginCall, TaskNew, TaskDelete, PushBegin, TimedJoinNegative, DetachBegin,
         JoinBegin, PoolDeleteBegin, poolVars, taskVars, workerVars

(* Nor do most steps inside a call. *)
LEMMA InCallFrame ==
  CallStep => \/ Enqueue \/ Spawn \/ PoolDeleteBroadcast
            \/ UNCHANGED <<workerVars, queue, running, threads, runs, pushes>>
  BY DEF CallStep, InCall, TaskDeleteSecond, JoinLock, JoinWake, JoinWakeUnsignalled, Expire,
         JoinStore, Detach, DetachFree, PoolDeleteRunning, PoolDeleteClose, PoolDeleteReap,
         poolVars, taskVars, workerVars

(* Waking workers up changes only where they wait. *)
LEMMA WakeWorkersFacts ==
  ASSUME TypeOK, wpc' = WakeWorkers, NEW w \in Workers
  PROVE  /\ wpc[w] # "waiting" => wpc'[w] = wpc[w]
         /\ wpc[w] = "waiting" => wpc'[w] = "woken"
  BY DEF WakeWorkers, TypeOK

(* A worker has a task exactly between taking and releasing it. *)
LEMMA NextWorkerInv ==
  ASSUME TypeOK, WorkerInv, [Next]_vars
  PROVE  WorkerInv'
<1> USE ConstantsAssumption, ObjectsAssumption DEF TypeOK, Holding, WorkerInv
<1>1. ASSUME NEW w \in Workers, WorkerStep(w) PROVE WorkerInv'
  <2>1. threads' = threads
    BY <1>1 DEF WorkerStep, Worker, Pop, PopNothing, CheckDeleting, WaitForTask, WakeUp, WakeUnsignalled, Start, CountIn,
                Execute, Settle, Publish, Reap, CountOut, poolVars
  <2>2. \A v \in Workers \ {w} : wpc'[v] = wpc[v] /\ wtask'[v] = wtask[v]
    BY <1>1 DEF WorkerStep, Worker, Pop, PopNothing, CheckDeleting, WaitForTask, WakeUp, WakeUnsignalled, Start, CountIn,
                Execute, Settle, Publish, Reap, CountOut, Goto
  <2>3. /\ wtask'[w] \in Tasks <=> wpc'[w] \in Holding
        /\ wpc[w] # "none" /\ wpc'[w] # "none"
    <3>1. CASE Pop(w)
      <4>1. queue[1] \in Tasks /\ Head(queue) \in Tasks
        BY <3>1, EmptySeq, HeadTailProperties DEF Pop
      <4> QED BY <3>1, <4>1 DEF Pop, PopTask, Goto
    <3>2. CASE Settle(w)
      BY <3>2 DEF Settle, SettledPc, Goto
    <3>3. CASE PopNothing(w) \/ CheckDeleting(w) \/ WaitForTask(w) \/ WakeUp(w) \/ WakeUnsignalled(w)
      BY ZenonT(30), <3>3 DEF PopNothing, CheckDeleting, WaitForTask, WakeUp, WakeUnsignalled, Goto
    <3>4. CASE Start(w) \/ CountIn(w) \/ Execute(w)
      BY <3>4 DEF Start, CountIn, Execute, Goto
    <3>5. CASE Publish(w) \/ Reap(w) \/ CountOut(w)
      BY <3>5 DEF Publish, Reap, CountOut, Goto
    <3> QED
      BY <1>1, <3>1, <3>2, <3>3, <3>4, <3>5 DEF WorkerStep, Worker
  <2> QED
    BY <2>1, <2>2, <2>3
<1>2. CASE Enqueue
  <2>1. UNCHANGED <<wtask, threads>> /\ wpc' = WakeWorkers
    BY <1>2 DEF Enqueue
  <2> QED
    BY <2>1, WakeWorkersFacts
<1>3. CASE PoolDeleteBroadcast
  <2>1. UNCHANGED <<wtask, threads>> /\ wpc' = WakeWorkers
    BY <1>3 DEF PoolDeleteBroadcast, poolVars
  <2> QED
    BY <2>1, WakeWorkersFacts
<1>4. CASE Spawn
  <2>1. CASE SpawnNeeded
    <3>1. threads + 1 \in Workers /\ wpc[threads + 1] = "none"
      BY <2>1 DEF SpawnNeeded, Workers
    <3>2. threads' = threads + 1 /\ wpc' = [wpc EXCEPT ![threads + 1] = "pop"]
          /\ wtask' = wtask
      BY <1>4, <2>1 DEF Spawn, Goto
    <3>3. \A w \in Workers : w # threads + 1 => wpc'[w] = wpc[w]
      BY <3>2
    <3>4. wpc'[threads + 1] = "pop"
      BY <3>1, <3>2
    <3> QED
      BY <3>1, <3>2, <3>3, <3>4 DEF Workers
  <2>2. CASE ~SpawnNeeded
    BY <1>4, <2>2 DEF Spawn
  <2> QED BY <2>1, <2>2
<1>5. CASE UNCHANGED <<workerVars, threads>>
  BY <1>5 DEF workerVars
<1> QED
  BY <1>1, <1>2, <1>3, <1>4, <1>5, BeginCallFrame, InCallFrame
  DEF Next, WorkerStep, CallStep, vars, poolVars

(* The counter moves with the workers that enter and leave the counted part. *)
LEMMA NextRunningInv ==
  ASSUME TypeOK, WorkerInv, RunningInv, [Next]_vars
  PROVE  RunningInv'
<1> USE DEF TypeOK, Counted
<1>0. IsFiniteSet(CountedWorkers)
  BY WorkersFinite DEF CountedWorkers
<1>1. ASSUME NEW w \in Workers, CountIn(w) PROVE RunningInv'
  <2>1. w \notin CountedWorkers /\ CountedWorkers' = CountedWorkers \cup {w}
    BY <1>1 DEF CountIn, Goto, CountedWorkers
  <2> QED
    BY <1>0, <1>1, <2>1, FS_AddElement DEF CountIn, RunningInv
<1>2. ASSUME NEW w \in Workers, CountOut(w) PROVE RunningInv'
  <2>1. w \in CountedWorkers /\ CountedWorkers' = CountedWorkers \ {w}
    BY <1>2 DEF CountOut, Goto, CountedWorkers
  <2> QED
    BY <1>0, <1>2, <2>1, FS_RemoveElement DEF CountOut, RunningInv
<1>3. ASSUME NEW w \in Workers, WorkerStep(w), ~CountIn(w), ~CountOut(w) PROVE RunningInv'
  <2>1. running' = running
    BY <1>3 DEF WorkerStep, Worker, Pop, PopNothing, CheckDeleting, WaitForTask, WakeUp, WakeUnsignalled, Start,
                Execute, Settle, Publish, Reap, poolVars
  <2>2. /\ \A v \in Workers \ {w} : wpc'[v] = wpc[v]
        /\ wpc'[w] \in Counted <=> wpc[w] \in Counted
    BY <1>3 DEF WorkerStep, Worker, Pop, PopNothing, CheckDeleting, WaitForTask, WakeUp, WakeUnsignalled, Start,
                Execute, Settle, SettledPc, Publish, Reap, Goto
  <2>3. CountedWorkers' = CountedWorkers
    BY <2>2 DEF CountedWorkers
  <2> QED
    BY <2>1, <2>3 DEF RunningInv
<1>4. CASE Enqueue \/ PoolDeleteBroadcast
  <2>1. running' = running /\ wpc' = WakeWorkers
    BY <1>4 DEF Enqueue, PoolDeleteBroadcast, poolVars
  <2>2. CountedWorkers' = CountedWorkers
    BY <2>1, WakeWorkersFacts DEF CountedWorkers
  <2> QED
    BY <2>1, <2>2 DEF RunningInv
<1>5. CASE Spawn
  <2>1. running' = running
    BY <1>5 DEF Spawn
  <2>2. CASE SpawnNeeded
    <3>1. threads + 1 \in Workers /\ wpc[threads + 1] = "none"
      BY <2>2, ConstantsAssumption, ObjectsAssumption DEF SpawnNeeded, Workers, WorkerInv
    <3>2. wpc' = [wpc EXCEPT ![threads + 1] = "pop"]
      BY <1>5, <2>2 DEF Spawn, Goto
    <3>3. CountedWorkers' = CountedWorkers
      BY <3>1, <3>2 DEF CountedWorkers
    <3> QED
      BY <2>1, <3>3 DEF RunningInv
  <2>3. CASE ~SpawnNeeded
    BY <1>5, <2>1, <2>3 DEF Spawn, RunningInv, CountedWorkers
  <2> QED BY <2>2, <2>3
<1>6. CASE UNCHANGED <<workerVars, running>>
  BY <1>6 DEF workerVars, RunningInv, CountedWorkers
<1> QED
  BY <1>1, <1>2, <1>3, <1>4, <1>5, <1>6, BeginCallFrame, InCallFrame
  DEF Next, WorkerStep, CallStep, vars, poolVars

-----------------------------------------------------------------------------
(* Where the tasks are.                                                      *)

(* An element occurs in an extended sequence where it did, or at its end. *)
LEMMA AppendOccurs ==
  ASSUME NEW S, NEW s \in Seq(S), NEW e \in S, NEW t
  PROVE  (\E i \in 1..Len(Append(s, e)) : Append(s, e)[i] = t)
           <=> (\E i \in 1..Len(s) : s[i] = t) \/ t = e
<1> DEFINE n == Len(s)
           r == Append(s, e)
<1>1. /\ n \in Nat /\ Len(r) = n + 1 /\ r[n + 1] = e
      /\ \A i \in 1..n : r[i] = s[i]
  BY AppendProperties, LenProperties
<1> HIDE DEF n, r
<1>2. \A i \in 1..(n + 1) : i = n + 1 \/ i \in 1..n
  BY <1>1
<1>3. n + 1 \in 1..(n + 1) /\ \A i \in 1..n : i \in 1..(n + 1)
  BY <1>1
<1>4. (\E i \in 1..(n + 1) : r[i] = t) <=> (\E i \in 1..n : s[i] = t) \/ t = e
  BY <1>1, <1>2, <1>3
<1> QED
  BY <1>1, <1>4 DEF n, r

(* A pop moves the head of the queue into one worker's hands. *)
LEMMA PopMoves ==
  ASSUME TypeOK, WorkerInv, PlaceInv, NEW w \in Workers, Pop(w)
  PROVE  LET h == Head(queue) IN
         /\ h \in Tasks /\ InQueue(h) /\ h # NoTask /\ wtask'[w] = h
         /\ \A t \in Tasks : InQueue(t)' <=> InQueue(t) /\ t # h
         /\ \A i, j \in 1..Len(queue') : queue'[i] = queue'[j] => i = j
         /\ \A v \in Workers, t \in Tasks : Holds(v, t)' <=> Holds(v, t) \/ (v = w /\ t = h)
         /\ \A t \in Tasks : InHand(t)' <=> InHand(t)
         /\ \A v \in Workers \ {w} : wpc'[v] = wpc[v] /\ wtask'[v] = wtask[v]
<1> DEFINE h == Head(queue)
<1> USE ConstantsAssumption, ObjectsAssumption DEF TypeOK
<1>1. /\ Len(queue) \in Nat \ {0} /\ h = queue[1] /\ h \in Tasks
      /\ queue' = Tail(queue) /\ Len(queue') = Len(queue) - 1
      /\ \A i \in 1..(Len(queue) - 1) : queue'[i] = queue[i + 1]
  BY EmptySeq, HeadTailProperties DEF Pop, PopRest
<1>2. \A t \in Tasks : InQueue(t)' => InQueue(t) /\ t # h
  <2> SUFFICES ASSUME NEW t \in Tasks, InQueue(t)' PROVE InQueue(t) /\ t # h
    OBVIOUS
  <2>1. PICK i \in 1..Len(queue') : queue'[i] = t
    BY DEF InQueue
  <2>2. i \in 1..(Len(queue) - 1)
    BY <1>1, <2>1
  <2>3. queue[i + 1] = t
    BY <1>1, <2>1, <2>2
  <2>4. 1 \in 1..Len(queue) /\ i + 1 \in 1..Len(queue) /\ i + 1 # 1
    BY <1>1, <2>2
  <2> QED
    BY <1>1, <2>3, <2>4 DEF InQueue, PlaceInv
<1>3. \A t \in Tasks : InQueue(t) /\ t # h => InQueue(t)'
  <2> SUFFICES ASSUME NEW t \in Tasks, InQueue(t), t # h PROVE InQueue(t)'
    OBVIOUS
  <2>1. PICK i \in 1..Len(queue) : queue[i] = t
    BY DEF InQueue
  <2>2. i - 1 \in 1..(Len(queue) - 1) /\ queue'[i - 1] = t
    <3>1. i # 1
      BY <1>1, <2>1
    <3> QED
      BY <1>1, <2>1, <3>1
  <2> QED
    BY <1>1, <2>2 DEF InQueue
<1>4. \A i, j \in 1..Len(queue') : queue'[i] = queue'[j] => i = j
  BY <1>1 DEF PlaceInv
<1>5. InQueue(h)
  BY <1>1 DEF InQueue
<1>6. wpc[w] = "pop" /\ wpc'[w] = "start" /\ wtask'[w] = h
  BY DEF Pop, PopTask, Goto
<1>7. \A v \in Workers \ {w} : wpc'[v] = wpc[v] /\ wtask'[v] = wtask[v]
  BY DEF Pop, Goto
<1>8. \A v \in Workers, t \in Tasks : Holds(v, t)' <=> Holds(v, t) \/ (v = w /\ t = h)
  BY <1>6, <1>7 DEF Holds, Holding
<1>9. \A t \in Tasks : InHand(t)' <=> InHand(t)
  BY <1>2, <1>3, <1>5, <1>8 DEF InHand
<1> QED
  BY <1>1, <1>2, <1>3, <1>4, <1>5, <1>6, <1>7, <1>8, <1>9

(* A push puts its task at the end. *)
LEMMA EnqueueMoves ==
  ASSUME TypeOK, Enqueue
  PROVE  /\ call.task \in Tasks
         /\ queue' \in Seq(Tasks) /\ Len(queue') = Len(queue) + 1
         /\ \A i \in 1..Len(queue) : queue'[i] = queue[i]
         /\ queue'[Len(queue) + 1] = call.task
         /\ \A t \in Tasks : InQueue(t)' <=> InQueue(t) \/ t = call.task
         /\ \A v \in Workers, t \in Tasks : Holds(v, t)' <=> Holds(v, t)
         /\ \A t \in Tasks : InHand(t)' <=> InHand(t) \/ t = call.task
         /\ \A v \in Workers : (wpc'[v] = wpc[v] \/ (wpc[v] = "waiting" /\ wpc'[v] = "woken"))
                               /\ wtask'[v] = wtask[v]
<1> USE DEF TypeOK
<1>1. /\ call.task \in Tasks /\ queue' = Append(queue, call.task)
      /\ wpc' = WakeWorkers /\ wtask' = wtask
  BY CallShape DEF Enqueue, At
<1>2. /\ queue' \in Seq(Tasks) /\ Len(queue') = Len(queue) + 1
      /\ \A i \in 1..Len(queue) : queue'[i] = queue[i]
      /\ queue'[Len(queue) + 1] = call.task
  BY <1>1, AppendProperties
<1>3. Len(queue) \in Nat
  BY LenProperties
<1>4. \A t \in Tasks : InQueue(t)' <=> InQueue(t) \/ t = call.task
  <2>1. queue \in Seq(Tasks)
    OBVIOUS
  <2>2. \A t : (\E i \in 1..Len(queue') : queue'[i] = t)
                <=> (\E i \in 1..Len(queue) : queue[i] = t) \/ t = call.task
    BY ONLY <1>1, <2>1, AppendOccurs
  <2> QED
    BY <2>2 DEF InQueue
<1>5. \A v \in Workers : wpc'[v] = wpc[v] \/ (wpc[v] = "waiting" /\ wpc'[v] = "woken")
  BY <1>1, WakeWorkersFacts
<1>6. \A v \in Workers, t \in Tasks : Holds(v, t)' <=> Holds(v, t)
  BY <1>1, <1>5 DEF Holds, Holding
<1> QED
  BY <1>1, <1>2, <1>4, <1>5, <1>6 DEF InHand

(* Publishing or reaping, the worker lets its task go. *)
LEMMA ReleaseMoves ==
  ASSUME TypeOK, WorkerInv, PlaceInv, NEW w \in Workers, Publish(w) \/ Reap(w)
  PROVE  /\ wtask[w] \in Tasks /\ Holds(w, wtask[w]) /\ InHand(wtask[w])
         /\ queue' = queue /\ \A t \in Tasks : InQueue(t)' <=> InQueue(t)
         /\ \A v \in Workers, t \in Tasks : Holds(v, t)' <=> Holds(v, t) /\ v # w
         /\ \A t \in Tasks : InHand(t)' <=> InHand(t) /\ t # wtask[w]
         /\ wpc'[w] = "uncount"
         /\ \A v \in Workers \ {w} : wpc'[v] = wpc[v] /\ wtask'[v] = wtask[v]
<1> USE ConstantsAssumption, ObjectsAssumption DEF TypeOK
<1>1. wtask[w] \in Tasks /\ Holds(w, wtask[w])
  BY DEF Publish, Reap, WorkerInv, Holds, Holding
<1>2. queue' = queue
  BY DEF Publish, Reap, poolVars
<1>3. wpc'[w] = "uncount" /\ \A v \in Workers \ {w} : wpc'[v] = wpc[v] /\ wtask'[v] = wtask[v]
  BY DEF Publish, Reap, Goto
<1>4. \A v \in Workers, t \in Tasks : Holds(v, t)' <=> Holds(v, t) /\ v # w
  BY <1>3 DEF Holds, Holding
<1>5. \A t \in Tasks : InQueue(t)' <=> InQueue(t)
  BY <1>2 DEF InQueue
<1>6. \A t \in Tasks : InHand(t)' <=> InHand(t) /\ t # wtask[w]
  BY <1>1, <1>4, <1>5 DEF InHand, PlaceInv, Holds
<1> QED
  BY <1>1, <1>2, <1>3, <1>4, <1>5, <1>6 DEF InHand

Mover(w) == Pop(w) \/ Publish(w) \/ Reap(w)

(* A step that keeps the queue, and who has which task, moves no task. *)
LEMMA Still ==
  ASSUME queue' = queue, wtask' = wtask,
         \A v \in Workers : wpc'[v] \in Holding <=> wpc[v] \in Holding
  PROVE  /\ \A t \in Tasks : InQueue(t)' <=> InQueue(t)
         /\ \A v \in Workers, t \in Tasks : Holds(v, t)' <=> Holds(v, t)
         /\ \A t \in Tasks : InHand(t)' <=> InHand(t)
  BY DEF InQueue, Holds, InHand

(* So are all other steps of a worker ... *)
LEMMA StillWorker ==
  ASSUME TypeOK, NEW w \in Workers, WorkerStep(w), ~Mover(w)
  PROVE  /\ queue' = queue /\ wtask' = wtask
         /\ \A v \in Workers : wpc'[v] \in Holding <=> wpc[v] \in Holding
<1>1. queue' = queue /\ wtask' = wtask
  BY DEF WorkerStep, Worker, Mover, PopNothing, CheckDeleting, WaitForTask, WakeUp, WakeUnsignalled, Start, CountIn,
         Execute, Settle, CountOut, poolVars
<1>2. \A v \in Workers : wpc'[v] \in Holding <=> wpc[v] \in Holding
  BY DEF WorkerStep, Worker, Mover, PopNothing, CheckDeleting, WaitForTask, WakeUp, WakeUnsignalled, Start,
         CountIn, Execute, Settle, SettledPc, CountOut, Goto, TypeOK, Holding
<1> QED
  BY <1>1, <1>2

(* ... and of the client. *)
LEMMA StillClient ==
  ASSUME TypeOK, WorkerInv, BeginCall \/ (CallStep /\ ~Enqueue) \/ UNCHANGED vars
  PROVE  /\ queue' = queue /\ wtask' = wtask
         /\ \A v \in Workers :
              wpc'[v] = wpc[v] \/ (wpc[v] \notin Holding /\ wpc'[v] \notin Holding)
<1> USE DEF TypeOK
<1>1. CASE Spawn
  <2>1. CASE SpawnNeeded
    <3>1. threads + 1 \in Workers /\ wpc[threads + 1] = "none"
      BY <2>1, ConstantsAssumption, ObjectsAssumption DEF SpawnNeeded, Workers, WorkerInv
    <3> QED
      BY <1>1, <2>1, <3>1 DEF Spawn, Goto, Holding
  <2>2. CASE ~SpawnNeeded
    BY <1>1, <2>2 DEF Spawn
  <2> QED BY <2>1, <2>2
<1>2. CASE PoolDeleteBroadcast
  BY <1>2, WakeWorkersFacts DEF PoolDeleteBroadcast, poolVars, Holding
<1>3. CASE UNCHANGED <<workerVars, queue>>
  BY <1>3 DEF workerVars
<1> QED
  BY <1>1, <1>2, <1>3, BeginCallFrame, InCallFrame DEF vars, poolVars

-----------------------------------------------------------------------------
(* The status of each task fits where it is.                                 *)

(* A task that nobody has taken or queued is not in hand; one whose status is *)
(* finished and whose mutex is free is not in hand either.                    *)
LEMMA LooseTasks ==
  ASSUME Inv, NEW t \in Tasks
  PROVE  /\ ~alive[t] => ~InHand(t)
         /\ handle[t] = "idle" => ~InHand(t)
         /\ status[t] = "finished" /\ TaskMutexFree(t) => ~InHand(t)
<1>1. handle[t] = "idle" => ~InHand(t)
  BY DEF Inv, HandleInv
<1>2. ASSUME status[t] = "finished", TaskMutexFree(t) PROVE ~InHand(t)
  BY <1>2 DEF TaskMutexFree, Inv, PlaceInv, StatusFits, InHand, Holds, Holding
<1> QED
  BY <1>1, <1>2 DEF Inv, AliveInv

(* A join that returns what is no longer in use returns what nobody has. *)
LEMMA JoinStoreLoose ==
  ASSUME Inv, JoinStore, ~wild'
  PROVE  /\ call.task \in Tasks /\ status[call.task] = "finished" /\ ~InHand(call.task)
         /\ handle[call.task] # "none" /\ call.op \in Joins
<1>1. call.task \in Tasks /\ call.op \in Joins /\ handle[call.task] # "none"
  BY CallShape DEF JoinStore, Joins, Inv, CallInv
<1>2. CASE call.at = "store"
  BY <1>1, <1>2 DEF Inv, CallInv
<1>3. CASE call.at = "early"
  BY <1>1, <1>3, LooseTasks DEF JoinStore, InUse
<1> QED
  BY <1>1, <1>2, <1>3 DEF JoinStore

(* A task that is finished is with a worker that has yet to publish it, if with *)
(* anyone.                                                                      *)
LEMMA FinishedTask ==
  ASSUME Inv, NEW t \in Tasks, status[t] = "finished"
  PROVE  ~InQueue(t) /\ \A w \in Workers : Holds(w, t) => wpc[w] = "publish"
  BY DEF Inv, PlaceInv, StatusFits, Holds, Holding

(* A step that moves no task and leaves alone what is in hand keeps PlaceInv. *)
LEMMA StillPlace ==
  ASSUME Inv, queue' = queue, wtask' = wtask,
         \A v \in Workers : wpc'[v] = wpc[v] \/ (wpc[v] \notin Holding /\ wpc'[v] \notin Holding),
         \A t \in Tasks : InHand(t) => status'[t] = status[t] /\ (detached[t] => detached'[t])
  PROVE  PlaceInv'
<1>1. \A v \in Workers, t \in Tasks : Holds(v, t)' <=> Holds(v, t)
  BY DEF Holds
<1>2. \A t \in Tasks : InQueue(t)' <=> InQueue(t)
  BY DEF InQueue
<1>3. ASSUME NEW v \in Workers PROVE StatusFits(v)'
  <2>1. CASE wpc[v] \in Holding
    <3>1. wtask[v] \in Tasks /\ Holds(v, wtask[v]) /\ StatusFits(v)
      BY <2>1 DEF Inv, WorkerInv, PlaceInv, Holds
    <3>2. InHand(wtask[v])
      BY <3>1 DEF InHand
    <3> QED
      BY <2>1, <3>1, <3>2 DEF StatusFits
  <2>2. CASE wpc[v] \notin Holding
    BY <2>2 DEF StatusFits, Holding
  <2> QED BY <2>1, <2>2
<1> QED
  BY <1>1, <1>2, <1>3 DEF Inv, PlaceInv, InHand

(* No worker takes a task another one has. *)
LEMMA WorkerPlace ==
  ASSUME Inv, NEW w \in Workers, WorkerStep(w)
  PROVE  PlaceInv'
<1> DEFINE t == wtask[w]
<1>0. TypeOK /\ WorkerInv /\ PlaceInv
  BY DEF Inv
<1>1. CASE Pop(w)
  <2>1. status' = status /\ detached' = detached /\ wpc'[w] = "start"
    BY <1>0, <1>1 DEF Pop, taskVars, Goto, TypeOK
  <2>2. StatusFits(w)'
    BY <1>0, <1>1, <2>1, PopMoves DEF StatusFits, PlaceInv
  <2>3. ASSUME NEW v \in Workers \ {w} PROVE StatusFits(v)'
    BY <1>0, <1>1, <2>1, PopMoves DEF StatusFits, PlaceInv
  <2>4. \A q \in Tasks : InQueue(q)' => status'[q] = "pushed"
    BY <1>0, <1>1, <2>1, PopMoves DEF PlaceInv
  <2>5. \A v \in Workers, q \in Tasks : Holds(v, q)' => ~InQueue(q)'
    BY <1>0, <1>1, PopMoves DEF PlaceInv
  <2>6. \A v, u \in Workers, q \in Tasks : Holds(v, q)' /\ Holds(u, q)' => v = u
    BY <1>0, <1>1, PopMoves DEF PlaceInv
  <2> QED
    BY <1>0, <1>1, PopMoves, <2>2, <2>3, <2>4, <2>5, <2>6 DEF PlaceInv
<1>2. CASE Publish(w) \/ Reap(w)
  <2>1. status' = status /\ detached' = detached
    BY <1>2 DEF Publish, Reap, taskVars
  <2>2. ASSUME NEW v \in Workers PROVE StatusFits(v)'
    BY <1>0, <1>2, <2>1, ReleaseMoves DEF StatusFits, PlaceInv
  <2> QED
    BY <1>0, <1>2, <2>1, <2>2, ReleaseMoves DEF PlaceInv
<1>3. CASE PopNothing(w) \/ CheckDeleting(w) \/ WaitForTask(w) \/ WakeUp(w) \/ WakeUnsignalled(w) \/ CountOut(w)
  <2>1. queue' = queue /\ wtask' = wtask /\ status' = status /\ detached' = detached
    BY <1>3 DEF PopNothing, CheckDeleting, WaitForTask, WakeUp, WakeUnsignalled, CountOut, poolVars, taskVars
  <2>2. \A v \in Workers : wpc'[v] = wpc[v] \/ (wpc[v] \notin Holding /\ wpc'[v] \notin Holding)
    BY <1>0, <1>3 DEF PopNothing, CheckDeleting, WaitForTask, WakeUp, WakeUnsignalled, CountOut, Goto,
                      Holding, TypeOK
  <2> QED
    BY <2>1, <2>2, StillPlace
<1>4. CASE Start(w) \/ CountIn(w) \/ Execute(w) \/ Settle(w)
  <2>0. t \in Tasks /\ Holds(w, t) /\ StatusFits(w)
    BY <1>0, <1>4 DEF Start, CountIn, Execute, Settle, WorkerInv, PlaceInv, Holds, Holding
  <2>1. queue' = queue /\ wtask' = wtask /\ detached' = detached
    BY <1>4 DEF Start, CountIn, Execute, Settle, poolVars, taskVars
  <2>2. /\ wpc'[w] \in Holding /\ wpc[w] \in Holding
        /\ \A v \in Workers \ {w} : wpc'[v] = wpc[v]
    BY <1>0, <1>4 DEF Start, CountIn, Execute, Settle, SettledPc, Goto, Holding, TypeOK
  <2>3. \A q \in Tasks : q # t => status'[q] = status[q]
    BY <1>0, <1>4 DEF Start, CountIn, Execute, Settle, taskVars, TypeOK
  <2>4. \A v \in Workers, q \in Tasks : Holds(v, q)' <=> Holds(v, q)
    BY <2>1, <2>2 DEF Holds
  <2>5. \A q \in Tasks : InQueue(q)' <=> InQueue(q) /\ q # t
    BY <1>0, <2>0, <2>1 DEF InQueue, PlaceInv
  <2>6. StatusFits(w)'
    <3>1. CASE Start(w)
      BY <1>0, <2>0, <3>1 DEF Start, Goto, TypeOK, StatusFits
    <3>2. CASE CountIn(w)
      BY <1>0, <2>0, <3>2 DEF CountIn, Goto, TypeOK, taskVars, StatusFits
    <3>3. CASE Execute(w)
      BY <1>0, <2>0, <3>3 DEF Execute, Goto, TypeOK, StatusFits
    <3>4. CASE Settle(w)
      BY <1>0, <2>0, <3>4 DEF Settle, SettledPc, Goto, TypeOK, StatusFits
    <3> QED BY <1>4, <3>1, <3>2, <3>3, <3>4
  <2>7. ASSUME NEW v \in Workers \ {w} PROVE StatusFits(v)'
    <3>1. wpc[v] \in Holding => wtask[v] \in Tasks /\ wtask[v] # t
      BY <1>0, <2>0 DEF WorkerInv, PlaceInv, Holds
    <3> QED
      BY <1>0, <2>1, <2>2, <2>3, <3>1 DEF PlaceInv, StatusFits, Holding
  <2>8. \A q \in Tasks : InQueue(q)' => status'[q] = "pushed"
    BY <1>0, <2>3, <2>5 DEF PlaceInv
  <2> QED
    BY <1>0, <2>1, <2>4, <2>5, <2>6, <2>7, <2>8 DEF PlaceInv
<1> QED
  BY <1>1, <1>2, <1>3, <1>4 DEF WorkerStep, Worker

(* A push puts a task in the queue that nobody has. *)
LEMMA InCallPlace ==
  ASSUME Inv, CallStep, ~wild'
  PROVE  PlaceInv'
<1>0. TypeOK /\ WorkerInv /\ PlaceInv
  BY DEF Inv
<1>1. CASE Enqueue
  <2>0. status' = status /\ detached' = detached
    BY <1>1 DEF Enqueue
  <2>1. ~InHand(call.task) /\ status[call.task] = "pushed"
    BY <1>0, <1>1, EnqueueMoves, LooseTasks DEF Enqueue, Inv, CallInv
  <2>2. \A i, j \in 1..Len(queue') : queue'[i] = queue'[j] => i = j
    <3>1. Len(queue) \in Nat
      BY <1>0, LenProperties DEF TypeOK
    <3>2. \A i \in 1..Len(queue) : queue[i] # call.task
      BY <2>1 DEF InHand, InQueue
    <3> QED
      BY <1>0, <1>1, EnqueueMoves, <3>1, <3>2 DEF PlaceInv
  <2>3. \A v \in Workers, t \in Tasks : Holds(v, t)' => ~InQueue(t)'
    BY <1>0, <1>1, EnqueueMoves, <2>1 DEF PlaceInv, InHand
  <2>4. \A v, u \in Workers, t \in Tasks : Holds(v, t)' /\ Holds(u, t)' => v = u
    BY <1>0, <1>1, EnqueueMoves DEF PlaceInv
  <2>5. \A t \in Tasks : InQueue(t)' => status'[t] = "pushed"
    BY <1>0, <1>1, EnqueueMoves, <2>0, <2>1 DEF PlaceInv
  <2>6. ASSUME NEW v \in Workers PROVE StatusFits(v)'
    BY <1>0, <1>1, EnqueueMoves, <2>0 DEF PlaceInv, StatusFits
  <2> QED
    BY <2>2, <2>3, <2>4, <2>5, <2>6 DEF PlaceInv
<1>2. CASE Spawn \/ PoolDeleteBroadcast
  <2>1. status' = status /\ detached' = detached /\ ~Enqueue
    BY <1>2 DEF Spawn, PoolDeleteBroadcast, Enqueue, At, taskVars
  <2> QED
    BY <1>0, <2>1, StillPlace, StillClient
<1>3. CASE JoinLock \/ JoinWake \/ JoinWakeUnsignalled \/ Expire \/ DetachFree
           \/ TaskDeleteSecond \/ PoolDeleteRunning \/ PoolDeleteClose \/ PoolDeleteReap
  <2>1. UNCHANGED <<queue, wtask, wpc, status, detached>>
    BY <1>3 DEF JoinLock, JoinWake, JoinWakeUnsignalled, Expire, DetachFree, TaskDeleteSecond,
                PoolDeleteRunning, PoolDeleteClose, PoolDeleteReap, poolVars, taskVars, workerVars
  <2> QED
    BY <2>1, StillPlace
<1>4. CASE JoinStore
  <2>1. ~InHand(call.task)
    BY <1>4, JoinStoreLoose
  <2>2. /\ UNCHANGED <<queue, wtask, wpc, detached>>
        /\ \A t \in Tasks : t # call.task => status'[t] = status[t]
    BY <1>0, <1>4 DEF JoinStore, poolVars, workerVars, TypeOK
  <2> QED
    BY <2>1, <2>2, StillPlace
<1>5. CASE Detach
  <2>0. call.task \in Tasks
    BY <1>0, <1>5, CallShape DEF Detach, At
  <2>1. UNCHANGED <<queue, wtask, wpc>>
    BY <1>5 DEF Detach, poolVars, workerVars
  <2>2. \A t \in Tasks : InHand(t) => status'[t] = status[t] /\ (detached[t] => detached'[t])
    <3>1. CASE DetachFrees(call.task)
      <4>1. ~InHand(call.task)
        BY <1>5, <2>0, <3>1, LooseTasks DEF Detach, DetachFrees
      <4> QED
        BY <1>0, <1>5, <3>1, <4>1 DEF Detach, TypeOK
    <3>2. CASE ~DetachFrees(call.task)
      BY <1>0, <1>5, <3>2 DEF Detach, TypeOK
    <3> QED BY <3>1, <3>2
  <2> QED
    BY <2>1, <2>2, StillPlace
<1> QED
  BY <1>1, <1>2, <1>3, <1>4, <1>5 DEF CallStep, InCall

(* Beginning a call moves no task. *)
LEMMA BeginCallPlace ==
  ASSUME Inv, BeginCall
  PROVE  PlaceInv'
<1>0. TypeOK
  BY DEF Inv
<1>1. UNCHANGED <<queue, wtask, wpc>>
  BY BeginCallFrame DEF poolVars, workerVars
<1>2. \A t \in Tasks : InHand(t) => status'[t] = status[t] /\ (detached[t] => detached'[t])
  <2>1. ASSUME NEW q \in Tasks, TaskNew(q)
        PROVE  \A t \in Tasks : InHand(t) => status'[t] = status[t] /\ (detached[t] => detached'[t])
    BY <1>0, <2>1, LooseTasks DEF TaskNew, TypeOK
  <2>2. ASSUME NEW q \in Tasks, PushBegin(q)
        PROVE  \A t \in Tasks : InHand(t) => status'[t] = status[t] /\ (detached[t] => detached'[t])
    BY <1>0, <2>2, LooseTasks DEF PushBegin, TypeOK
  <2>3. CASE UNCHANGED <<status, detached>>
    BY <2>3
  <2> QED
    BY <2>1, <2>2, <2>3 DEF BeginCall, TaskDelete, TimedJoinNegative, DetachBegin, JoinBegin,
                            PoolDeleteBegin, taskVars
<1> QED
  BY <1>1, <1>2, StillPlace

(* A task is in one place at most, after every step. *)
LEMMA NextPlaceInv ==
  ASSUME Inv, ~wild', [Next]_vars
  PROVE  PlaceInv'
<1>1. CASE UNCHANGED vars
  BY <1>1, StillPlace DEF vars, poolVars, taskVars, workerVars
<1> QED
  BY <1>1, WorkerPlace, InCallPlace, BeginCallPlace DEF Next, WorkerStep, CallStep

-----------------------------------------------------------------------------
(* What the client knows fits what the threads do.                           *)

(* A worker changes the status of the task it holds only, and no handle. *)
LEMMA WorkerStatus ==
  ASSUME Inv, NEW w \in Workers, WorkerStep(w)
  PROVE  /\ UNCHANGED <<handle, detached, pushes>>
         /\ \A t \in Tasks : InHand(t)' => InHand(t)
         /\ \A t \in Tasks : status'[t] # status[t] =>
              /\ Holds(w, t)
              /\ <<status[t], status'[t]>> \in
                   {<<"pushed", "running">>, <<"running", "finished">>, <<"running", "free">>}
              /\ status'[t] = "finished" => ~detached[t]
              /\ status'[t] = "free" => detached[t]
<1>0. TypeOK /\ WorkerInv /\ PlaceInv
  BY DEF Inv
<1>1. UNCHANGED <<handle, detached, pushes>>
  BY DEF WorkerStep, Worker, Pop, PopNothing, CheckDeleting, WaitForTask, WakeUp, WakeUnsignalled, Start, CountIn,
         Execute, Settle, Publish, Reap, CountOut, taskVars
<1>2. \A t \in Tasks : InHand(t)' => InHand(t)
  <2>1. CASE Mover(w)
    BY <1>0, <2>1, PopMoves, ReleaseMoves DEF Mover
  <2>2. CASE ~Mover(w)
    BY <1>0, <2>2, StillWorker, Still
  <2> QED BY <2>1, <2>2
<1>3. ASSUME NEW t \in Tasks, status'[t] # status[t]
      PROVE  /\ Holds(w, t)
             /\ <<status[t], status'[t]>> \in
                  {<<"pushed", "running">>, <<"running", "finished">>, <<"running", "free">>}
             /\ status'[t] = "finished" => ~detached[t]
             /\ status'[t] = "free" => detached[t]
  <2>0. StatusFits(w)
    BY <1>0 DEF PlaceInv
  <2>1. CASE Start(w)
    BY <1>0, <1>3, <2>0, <2>1 DEF Start, StatusFits, Holds, Holding, TypeOK
  <2>2. CASE Settle(w)
    BY <1>0, <1>3, <2>0, <2>2 DEF Settle, StatusFits, Holds, Holding, TypeOK
  <2>3. CASE status' = status
    BY <1>3, <2>3
  <2> QED
    BY <2>1, <2>2, <2>3 DEF WorkerStep, Worker, Pop, PopNothing, CheckDeleting, WaitForTask, WakeUp, WakeUnsignalled, CountIn,
                            Execute, Publish, Reap, CountOut, taskVars
<1> QED
  BY <1>1, <1>2, <1>3

(* A worker touches the client's call only to wake the joiner of its task. *)
LEMMA WorkerCall ==
  ASSUME TypeOK, NEW w \in Workers, WorkerStep(w)
  PROVE  \/ call' = call
         \/ /\ Publish(w) /\ call.op \in Joins /\ call.at = "wait" /\ call.task = wtask[w]
            /\ call'.op = call.op /\ call'.at = "woken" /\ call'.task = call.task
<1>1. CASE Publish(w)
  <2>1. CASE call.op \in Joins /\ call.at = "wait" /\ call.task = wtask[w]
    BY <1>1, <2>1 DEF Publish, WakeJoiner, TypeOK, Calls
  <2>2. CASE ~(call.op \in Joins /\ call.at = "wait" /\ call.task = wtask[w])
    BY <1>1, <2>2 DEF Publish, WakeJoiner
  <2> QED BY <2>1, <2>2
<1>2. CASE ~Publish(w)
  BY <1>2 DEF WorkerStep, Worker, Pop, PopNothing, CheckDeleting, WaitForTask, WakeUp, WakeUnsignalled, Start, CountIn,
              Execute, Settle, Reap, CountOut, clientVars
<1> QED BY <1>1, <1>2

(* Inside a call only its own place in it changes, until it returns. *)
LEMMA InCallCall ==
  ASSUME TypeOK, CallStep
  PROVE  call' = Idle \/ (call'.op = call.op /\ call'.task = call.task)
<1> USE DEF Return, End, GoOn, TypeOK
<1>1. \A at : [call EXCEPT !.at = at].op = call.op /\ [call EXCEPT !.at = at].task = call.task
  BY DEF Calls
<1>2. call' = Idle \/ \E at : call' = [call EXCEPT !.at = at]
  BY DEF CallStep, InCall, TaskDeleteSecond, Enqueue, Spawn, JoinLock, JoinWake,
         JoinWakeUnsignalled, Expire, JoinStore, Detach, DetachFree,
         PoolDeleteRunning, PoolDeleteClose, PoolDeleteBroadcast, PoolDeleteReap
<1> QED
  BY <1>1, <1>2

(* The fields of the call that is none. *)
LEMMA IdleFields == Idle.op = "none" /\ Idle.at = "idle" /\ Idle.task = NoTask
  BY DEF Idle

(* The at field of a call that goes on. *)
LEMMA GoOnFields ==
  ASSUME TypeOK, NEW at, GoOn(at)
  PROVE  call'.op = call.op /\ call'.at = at /\ call'.task = call.task
  BY DEF GoOn, TypeOK, Calls

(* What the client may do with a task fits where the task is. *)
LEMMA NextHandleInv ==
  ASSUME Inv, ~wild', [Next]_vars
  PROVE  HandleInv'
<1>0. TypeOK /\ WorkerInv /\ PlaceInv /\ HandleInv /\ CallInv
  BY DEF Inv
<1> USE ConstantsAssumption, ObjectsAssumption DEF HandleInv
<1>1. ASSUME NEW w \in Workers, WorkerStep(w) PROVE HandleInv'
  <2>1. At("push", "enqueue") => At("push", "enqueue")' /\ call'.task = call.task
    BY <1>0, <1>1, WorkerCall DEF At, Joins
  <2>2. \A t \in Tasks : Holds(w, t) => InHand(t)
    BY DEF InHand
  <2> QED
    BY <1>0, <1>1, <2>1, <2>2, WorkerStatus
<1>2. CASE Enqueue
  <2>1. /\ UNCHANGED <<status, detached>> /\ call.task \in Tasks
        /\ handle' = [handle EXCEPT ![call.task] = "pushed"]
        /\ ~detached[call.task] /\ status[call.task] = "pushed"
    BY <1>0, <1>2, EnqueueMoves DEF Enqueue, CallInv
  <2>2. \A t \in Tasks : InHand(t)' <=> InHand(t) \/ t = call.task
    BY <1>0, <1>2, EnqueueMoves
  <2> QED
    BY <1>0, <1>2, <2>1, <2>2 DEF TypeOK, Enqueue, At
<1>3. ASSUME BeginCall \/ (CallStep /\ ~Enqueue) \/ UNCHANGED vars PROVE HandleInv'
  <2>0. \A t \in Tasks : InHand(t)' <=> InHand(t)
    BY <1>0, <1>3, StillClient, Still DEF Holding
  <2>1. ASSUME NEW t \in Tasks, TaskNew(t) PROVE HandleInv'
    BY <1>0, <2>0, <2>1, LooseTasks DEF TaskNew, TypeOK, Return, End, Idle, At
  <2>2. ASSUME NEW t \in Tasks, TaskDelete(t) PROVE HandleInv'
    <3>1. CASE status[t] = "free"
      <4>1. /\ handle[t] = "idle" /\ handle' = [handle EXCEPT ![t] = "none"] /\ call = Idle
            /\ UNCHANGED <<status, detached>>
        BY <1>0, <2>2, <3>1 DEF TaskDelete, TypeOK, Handles
      <4> QED
        BY <1>0, <2>0, <4>1, LooseTasks, IdleFields DEF TypeOK, At
    <3>2. CASE status[t] # "free"
      <4>1. UNCHANGED <<status, detached, handle>> /\ call = Idle
        BY <2>2, <3>2 DEF TaskDelete
      <4> QED
        BY <1>0, <2>0, <4>1, IdleFields DEF At
    <3> QED BY <3>1, <3>2
  <2>3. ASSUME NEW t \in Tasks, PushBegin(t) PROVE HandleInv'
    <3>1. CASE Len(queue) = MaxTasks
      BY <1>0, <2>0, <2>3, <3>1 DEF PushBegin, Return, End, Idle, At
    <3>2. CASE Len(queue) # MaxTasks
      <4>1. /\ status' = [status EXCEPT ![t] = "pushed"] /\ UNCHANGED <<detached, handle>>
            /\ handle[t] = "idle" /\ At("push", "enqueue")' /\ call'.task = t /\ call = Idle
        <5>1. /\ status' = [status EXCEPT ![t] = "pushed"] /\ UNCHANGED <<detached, handle>>
              /\ handle[t] = "idle" /\ call = Idle
              /\ call' = [op |-> "push", at |-> "enqueue", task |-> t]
          BY <2>3, <3>2 DEF PushBegin, Begin
        <5> QED
          BY <5>1 DEF At
      <4> QED
        BY <1>0, <2>0, <4>1, LooseTasks, IdleFields DEF TypeOK, At
    <3> QED BY <3>1, <3>2
  <2>4. CASE JoinStore
    <3>1. /\ status[call.task] = "finished" /\ ~InHand(call.task) /\ call.task \in Tasks
          /\ status' = [status EXCEPT ![call.task] = "finished"]
          /\ handle' = [handle EXCEPT ![call.task] = "idle"] /\ detached' = detached
          /\ handle[call.task] # "none" /\ ~At("push", "enqueue")
      BY <2>4, JoinStoreLoose DEF JoinStore, Joins, At
    <3> QED
      BY <1>0, <2>0, <3>1 DEF TypeOK
  <2>5. CASE Detach
    <3>1. call.task \in Tasks /\ handle' = [handle EXCEPT ![call.task] = "none"]
          /\ ~At("push", "enqueue")
      BY <1>0, <2>5, CallShape DEF Detach, At
    <3>2. CASE DetachFrees(call.task)
      <4>1. ~InHand(call.task) /\ detached' = detached
            /\ status' = [status EXCEPT ![call.task] = "free"]
        BY <2>5, <3>1, <3>2, LooseTasks DEF Detach, DetachFrees
      <4> QED
        BY <1>0, <2>0, <3>1, <4>1 DEF TypeOK
    <3>3. CASE ~DetachFrees(call.task)
      BY <1>0, <2>0, <2>5, <3>1, <3>3 DEF Detach, TypeOK
    <3> QED BY <3>2, <3>3
  <2>6. ASSUME UNCHANGED <<status, detached, handle>>, ~At("push", "enqueue") \/ call' = call
        PROVE  HandleInv'
    BY <1>0, <2>0, <2>6 DEF At
  <2>7. CASE UNCHANGED vars
    BY <2>6, <2>7 DEF vars, taskVars, clientVars
  <2>10. CASE TaskDeleteSecond
    <3>1. call.task \in Tasks /\ ~At("push", "enqueue")
      BY <1>0, <2>10, CallShape DEF TaskDeleteSecond, At
    <3>2. CASE status[call.task] = "finished"
      <4>1. ~InHand(call.task)
        BY <2>10, <3>1, <3>2, LooseTasks DEF TaskDeleteSecond, InUse
      <4>2. UNCHANGED <<status, detached>> /\ handle' = [handle EXCEPT ![call.task] = "none"]
        BY <2>10, <3>2 DEF TaskDeleteSecond
      <4> QED
        BY <1>0, <2>0, <3>1, <4>1, <4>2 DEF TypeOK
    <3>3. CASE status[call.task] # "finished"
      BY <2>6, <2>10, <3>1, <3>3 DEF TaskDeleteSecond
    <3> QED BY <3>2, <3>3
  <2>8. CASE /\ CallStep /\ ~Enqueue /\ ~JoinStore /\ ~Detach /\ ~TaskDeleteSecond
    BY <2>6, <2>8
    DEF CallStep, InCall, Spawn, JoinLock, JoinWake, JoinWakeUnsignalled, Expire, DetachFree, Joins, At,
        PoolDeleteRunning, PoolDeleteClose, PoolDeleteBroadcast, PoolDeleteReap, taskVars
  <2>9. CASE \/ \E t \in Tasks : TimedJoinNegative(t) \/ DetachBegin(t)
             \/ \E op \in Joins, t \in Tasks : JoinBegin(op, t)
             \/ PoolDeleteBegin
    BY <2>6, <2>9, IdleFields
    DEF TimedJoinNegative, DetachBegin, JoinBegin, PoolDeleteBegin, At, taskVars
  <2> QED
    BY <1>3, <2>1, <2>2, <2>3, <2>4, <2>5, <2>7, <2>8, <2>9, <2>10 DEF BeginCall
<1> QED
  BY <1>1, <1>2, <1>3 DEF Next, WorkerStep, CallStep

(* A worker takes nothing away from what the call relies on. *)
LEMMA WorkerCallInv ==
  ASSUME Inv, NEW w \in Workers, WorkerStep(w)
  PROVE  CallInv'
<1>0. TypeOK /\ WorkerInv /\ PlaceInv /\ HandleInv /\ CallInv
  BY DEF Inv
<1>1. \A t \in Tasks : Holds(w, t) => InHand(t)
  BY DEF InHand
<1>2. CASE call' = call
  BY <1>0, <1>1, <1>2, LooseTasks, WorkerStatus DEF CallInv, HandleInv, At
<1>3. CASE /\ Publish(w) /\ call.op \in Joins /\ call.at = "wait" /\ call.task = wtask[w]
           /\ call'.op = call.op /\ call'.at = "woken" /\ call'.task = call.task
  <2>1. wtask[w] \in Tasks /\ \A t \in Tasks : t = wtask[w] => ~InHand(t)'
    BY <1>0, <1>3, ReleaseMoves
  <2>2. status' = status /\ handle' = handle /\ status[wtask[w]] = "finished"
    BY <1>0, <1>3 DEF Publish, taskVars, PlaceInv, StatusFits
  <2> QED
    BY <1>0, <1>3, <2>1, <2>2 DEF CallInv, At, Joins
<1> QED
  BY <1>0, <1>2, <1>3, WorkerCall

(* A call begins with a task the client may call it on, and learns about it   *)
(* under the task's mutex.                                                    *)
LEMMA NextCallInv ==
  ASSUME Inv, ~wild', [Next]_vars
  PROVE  CallInv'
<1>0. TypeOK /\ WorkerInv /\ PlaceInv /\ HandleInv /\ CallInv
  BY DEF Inv
<1> USE ConstantsAssumption, ObjectsAssumption
<1>1. CASE call' = Idle
  BY <1>1, IdleFields DEF CallInv
<1>2. CASE Enqueue
  BY <1>0, <1>2, GoOnFields DEF Enqueue, CallInv, At, Joins
<1>3. CASE TaskDeleteSecond \/ Spawn \/ Expire \/ JoinStore \/ DetachFree \/ PoolDeleteReap
  BY <1>1, <1>3
  DEF TaskDeleteSecond, Spawn, Expire, JoinStore, DetachFree, PoolDeleteReap, Return, End
<1>4. ASSUME ~Enqueue, BeginCall \/ CallStep \/ UNCHANGED vars
      PROVE  \A t \in Tasks : InHand(t)' <=> InHand(t)
  BY <1>0, <1>4, StillClient, Still DEF Holding
<1>5. CASE JoinLock
  <2>1. /\ call'.op = call.op /\ call'.task = call.task
        /\ call'.at = IF JoinMustWait(call.task) THEN "wait" ELSE "store"
        /\ call.op \in Joins /\ TaskMutexFree(call.task) /\ UNCHANGED <<status, handle, detached>>
    BY <1>0, <1>5, GoOnFields DEF JoinLock, taskVars
  <2>2. ~Enqueue /\ CallStep
    BY <1>5 DEF JoinLock, Enqueue, At, Joins, CallStep, InCall
  <2>3. \A t \in Tasks : call.task = t /\ call'.at = "store" => status[t] = "finished" /\ ~InHand(t)
    BY <2>1, LooseTasks DEF JoinMustWait
  <2> QED
    BY <1>0, <1>4, <2>1, <2>2, <2>3 DEF CallInv, At, Joins
<1>15. CASE JoinWakeUnsignalled
  <2>1. /\ call'.op = call.op /\ call'.task = call.task /\ call'.at = "early"
        /\ call.op \in Joins /\ UNCHANGED <<status, handle>>
    BY <1>0, <1>15, GoOnFields DEF JoinWakeUnsignalled, taskVars
  <2> QED
    BY <1>0, <2>1 DEF CallInv, At, Joins
<1>6. CASE JoinWake
  <2>1. /\ call'.op = call.op /\ call'.task = call.task /\ call'.at = "store"
        /\ call.op \in Joins /\ call.at = "woken" /\ UNCHANGED <<status, handle, detached>>
    BY <1>0, <1>6, GoOnFields DEF JoinWake, taskVars
  <2>2. ~Enqueue /\ CallStep
    BY <1>6 DEF JoinWake, Enqueue, At, Joins, CallStep, InCall
  <2> QED
    BY <1>0, <1>4, <2>1, <2>2 DEF CallInv, At, Joins
<1>7. CASE Detach
  <2>1. CASE DetachFrees(call.task)
    <3>1. /\ call'.op = "detach" /\ call'.task = call.task /\ call'.at = "free"
          /\ call.task \in Tasks /\ TaskMutexFree(call.task)
          /\ status' = [status EXCEPT ![call.task] = "free"] /\ detached' = detached
          /\ handle' = [handle EXCEPT ![call.task] = "none"] /\ At("detach", "lock")
      BY <1>0, <1>7, <2>1, GoOnFields, CallShape DEF Detach, At
    <3>2. ~Enqueue /\ CallStep
      BY <1>7 DEF Detach, Enqueue, At, CallStep, InCall
    <3>3. ~InHand(call.task)
      BY <2>1, <3>1, LooseTasks DEF DetachFrees
    <3>4. ~detached[call.task]
      BY <1>0, <3>1 DEF CallInv, HandleInv, TypeOK
    <3> QED
      BY <1>0, <1>4, <3>1, <3>2, <3>3, <3>4 DEF CallInv, At, Joins, TypeOK
  <2>2. CASE ~DetachFrees(call.task)
    BY <1>1, <1>7, <2>2 DEF Detach, Return, End
  <2> QED BY <2>1, <2>2
<1>8. CASE call'.op = "delete"
  BY <1>8 DEF CallInv, At, Joins
<1>9. CASE PoolDeleteRunning \/ PoolDeleteClose \/ PoolDeleteBroadcast
  BY <1>0, <1>1, <1>8, <1>9, GoOnFields
  DEF PoolDeleteRunning, PoolDeleteClose, PoolDeleteBroadcast, At, Return, End
<1>10. ASSUME NEW t \in Tasks, PushBegin(t) PROVE CallInv'
  <2>1. CASE Len(queue) = MaxTasks
    BY <1>1, <1>10, <2>1 DEF PushBegin, Return, End
  <2>2. CASE Len(queue) # MaxTasks
    <3>1. /\ call' = [op |-> "push", at |-> "enqueue", task |-> t]
          /\ status' = [status EXCEPT ![t] = "pushed"] /\ handle' = handle /\ handle[t] = "idle"
      BY <1>10, <2>2 DEF PushBegin, Begin
    <3> QED
      BY <1>0, <3>1 DEF CallInv, At, Joins, TypeOK
  <2> QED BY <2>1, <2>2
<1>11. ASSUME NEW op \in Joins, NEW t \in Tasks, JoinBegin(op, t) PROVE CallInv'
  <2>1. CASE status[t] = "free"
    BY <1>1, <1>11, <2>1 DEF JoinBegin, Return, End
  <2>2. CASE status[t] # "free"
    <3>1. /\ call' = [op |-> op, at |-> "lock", task |-> t] /\ UNCHANGED <<status, handle>>
          /\ handle[t] # "none"
      BY <1>11, <2>2 DEF JoinBegin, Begin, taskVars
    <3> QED
      BY <2>2, <3>1 DEF CallInv, At, Joins
  <2> QED BY <2>1, <2>2
<1>12. ASSUME NEW t \in Tasks, DetachBegin(t) PROVE CallInv'
  <2>1. CASE status[t] = "free"
    BY <1>1, <1>12, <2>1 DEF DetachBegin, Return, End
  <2>2. CASE status[t] # "free"
    <3>1. call' = [op |-> "detach", at |-> "lock", task |-> t] /\ handle' = handle
          /\ handle[t] # "none"
      BY <1>12, <2>2 DEF DetachBegin, Begin, taskVars
    <3> QED
      BY <3>1 DEF CallInv, At, Joins
  <2> QED BY <2>1, <2>2
<1>16. ASSUME NEW t \in Tasks, TaskDelete(t) PROVE CallInv'
  <2>1. CASE status[t] = "free"
    BY <1>1, <1>16, <2>1 DEF TaskDelete, Return, End
  <2>2. CASE status[t] # "free"
    <3>1. call' = [op |-> "task_delete", at |-> "second", task |-> t] /\ handle' = handle
          /\ handle[t] # "none"
      BY <1>16, <2>2 DEF TaskDelete, Begin
    <3> QED
      BY <3>1 DEF CallInv, At, Joins
  <2> QED BY <2>1, <2>2
<1>13. CASE PoolDeleteBegin \/ \E t \in Tasks : TaskNew(t) \/ TimedJoinNegative(t)
  BY <1>1, <1>8, <1>13
  DEF PoolDeleteBegin, TaskNew, TimedJoinNegative, Begin, Return, End
<1>14. CASE UNCHANGED vars
  BY <1>0, <1>4, <1>14 DEF CallInv, At, vars, taskVars, clientVars, Enqueue
<1> QED
  BY <1>2, <1>3, <1>5, <1>6, <1>7, <1>9, <1>10, <1>11, <1>12, <1>13, <1>14, <1>15, <1>16,
     WorkerCallInv
  DEF Next, WorkerStep, InCall, BeginCall

-----------------------------------------------------------------------------
(* No freed object is referred to.                                           *)

(* What anyone refers to is allocated. *)
LEMMA NextAliveInv ==
  ASSUME Inv, ~wild', [Next]_vars
  PROVE  AliveInv'
<1>0. TypeOK /\ WorkerInv /\ PlaceInv /\ HandleInv /\ CallInv /\ AliveInv
  BY DEF Inv
<1> USE ConstantsAssumption, ObjectsAssumption DEF AliveInv
<1>1. ASSUME NEW w \in Workers, WorkerStep(w) PROVE AliveInv'
  <2>1. CASE Reap(w)
    <3>1. /\ wtask[w] \in Tasks /\ InHand(wtask[w])
          /\ \A t \in Tasks : InHand(t)' <=> InHand(t) /\ t # wtask[w]
      BY <1>0, <2>1, ReleaseMoves
    <3>2. handle[wtask[w]] = "none"
      BY <1>0, <2>1, <3>1 DEF Reap, PlaceInv, StatusFits, HandleInv
    <3>3. call.task # wtask[w]
      BY <1>0, <3>1, <3>2, LooseTasks DEF CallInv, At, TypeOK, Calls, Joins
    <3> QED
      BY <1>0, <2>1, <3>1, <3>2, <3>3 DEF Reap, TypeOK, clientVars
  <2>2. CASE ~Reap(w)
    <3>1. alive' = alive /\ call'.task = call.task
      BY <1>0, <1>1, <2>2, WorkerCall
      DEF WorkerStep, Worker, Pop, PopNothing, CheckDeleting, WaitForTask, WakeUp, WakeUnsignalled, Start, CountIn,
          Execute, Settle, Publish, CountOut, taskVars
    <3> QED
      BY <1>0, <1>1, <3>1, WorkerStatus
  <2> QED BY <2>1, <2>2
<1>2. CASE Enqueue
  <2>1. call'.task = call.task /\ alive' = alive
    BY <1>0, <1>2, GoOnFields DEF Enqueue
  <2>2. \A t \in Tasks : t # call.task => handle'[t] = handle[t]
    BY <1>0, <1>2 DEF Enqueue, TypeOK
  <2> QED
    BY <1>0, <1>2, <2>1, <2>2, EnqueueMoves
<1>3. ASSUME BeginCall \/ (CallStep /\ ~Enqueue) \/ UNCHANGED vars PROVE AliveInv'
  <2>0. \A t \in Tasks : InHand(t)' <=> InHand(t)
    BY <1>0, <1>3, StillClient, Still DEF Holding
  <2>1. ASSUME NEW t \in Tasks, TaskNew(t) PROVE AliveInv'
    BY <1>0, <2>0, <2>1, IdleFields DEF TaskNew, TypeOK, Return, End
  <2>2. ASSUME NEW t \in Tasks, TaskDelete(t) PROVE AliveInv'
    <3>1. CASE status[t] = "free"
      <4>1. handle[t] = "idle"
        BY <1>0, <2>2, <3>1 DEF TaskDelete, HandleInv, TypeOK, Handles
      <4>2. ~InHand(t)
        BY <4>1, LooseTasks
      <4> QED
        BY ZenonT(30), <1>0, <2>0, <2>2, <3>1, <4>2, IdleFields DEF TaskDelete, TypeOK, Return, End
    <3>2. CASE status[t] # "free"
      <4>1. UNCHANGED <<alive, handle>> /\ call'.task = t /\ handle[t] # "none"
        BY <2>2, <3>2 DEF TaskDelete, Begin
      <4> QED
        BY <1>0, <2>0, <4>1
    <3> QED BY <3>1, <3>2
  <2>8. CASE TaskDeleteSecond
    <3>1. call.task \in Tasks /\ call' = Idle
      BY <1>0, <2>8, CallShape DEF TaskDeleteSecond, At, Return, End
    <3>2. CASE status[call.task] = "finished"
      <4>1. ~InHand(call.task)
        BY <2>8, <3>1, <3>2, LooseTasks DEF TaskDeleteSecond, InUse
      <4> QED
        BY <1>0, <2>0, <2>8, <3>1, <3>2, <4>1, IdleFields DEF TaskDeleteSecond, TypeOK
    <3>3. CASE status[call.task] # "finished"
      BY <1>0, <2>0, <2>8, <3>1, <3>3, IdleFields DEF TaskDeleteSecond
    <3> QED BY <3>2, <3>3
  <2>3. CASE DetachFree
    <3>1. call.task \in Tasks /\ ~InHand(call.task) /\ handle[call.task] = "none"
      BY <1>0, <2>3, CallShape DEF DetachFree, CallInv, At
    <3> QED
      BY <1>0, <2>0, <2>3, <3>1, IdleFields DEF DetachFree, TypeOK, Return, End
  <2>4. ASSUME alive' = alive, call'.task \in {call.task, NoTask},
               \A t \in Tasks : handle'[t] # "none" => handle[t] # "none"
        PROVE  AliveInv'
    BY <1>0, <2>0, <2>4
  <2>5. CASE UNCHANGED vars
    BY <2>4, <2>5 DEF vars, taskVars, clientVars
  <2>6. CASE CallStep /\ ~Enqueue /\ ~DetachFree /\ ~TaskDeleteSecond
    <3>1. alive' = alive
      BY <2>6 DEF CallStep, InCall, Spawn, JoinLock, JoinWake, JoinWakeUnsignalled, Expire, JoinStore, Detach, PoolDeleteRunning,
                  PoolDeleteClose, PoolDeleteBroadcast, PoolDeleteReap, taskVars
    <3>2. \A t \in Tasks : handle'[t] # "none" => handle[t] # "none"
      <4>1. CASE JoinStore
        <5>1. call.task \in Tasks /\ handle[call.task] # "none"
          BY <4>1, JoinStoreLoose
        <5> QED
          BY <1>0, <4>1, <5>1 DEF JoinStore, TypeOK
      <4>2. CASE Detach
        BY <1>0, <4>2 DEF Detach, TypeOK
      <4>3. CASE handle' = handle
        BY <4>3
      <4> QED
        BY <2>6, <4>1, <4>2, <4>3
        DEF CallStep, InCall, Spawn, JoinLock, JoinWake, JoinWakeUnsignalled, Expire, PoolDeleteRunning,
            PoolDeleteClose, PoolDeleteBroadcast, PoolDeleteReap, taskVars
    <3> QED
      BY <1>0, <2>4, <2>6, <3>1, <3>2, InCallCall, IdleFields
  <2>7. CASE \/ \E t \in Tasks : PushBegin(t) \/ TimedJoinNegative(t) \/ DetachBegin(t)
             \/ \E op \in Joins, t \in Tasks : JoinBegin(op, t)
             \/ PoolDeleteBegin
    <3>1. UNCHANGED <<alive, handle>>
      BY <2>7 DEF PushBegin, TimedJoinNegative, DetachBegin, JoinBegin, PoolDeleteBegin, taskVars
    <3>2. ASSUME NEW op, NEW at, NEW t \in Tasks \cup {NoTask}, t = NoTask \/ handle[t] # "none",
                 Begin(op, at, t) \/ call' = Idle
          PROVE  AliveInv'
      BY <1>0, <2>0, <3>1, <3>2, IdleFields DEF Begin
    <3>3. ASSUME NEW t \in Tasks, PushBegin(t) PROVE AliveInv'
      BY <3>2, <3>3 DEF PushBegin, Return, End
    <3>4. ASSUME NEW t \in Tasks, TimedJoinNegative(t) \/ DetachBegin(t) PROVE AliveInv'
      BY <3>2, <3>4 DEF TimedJoinNegative, DetachBegin, Return, End
    <3>5. ASSUME NEW op \in Joins, NEW t \in Tasks, JoinBegin(op, t) PROVE AliveInv'
      BY <3>2, <3>5 DEF JoinBegin, Return, End
    <3>6. CASE PoolDeleteBegin
      BY <3>2, <3>6 DEF PoolDeleteBegin, Return, End
    <3> QED
      BY <2>7, <3>3, <3>4, <3>5, <3>6
  <2> QED
    BY <1>3, <2>1, <2>2, <2>3, <2>5, <2>6, <2>7, <2>8 DEF BeginCall
<1> QED
  BY <1>1, <1>2, <1>3 DEF Next, WorkerStep, CallStep

-----------------------------------------------------------------------------
(* Every push is run once.                                                   *)

(* What is pending is in hand. *)
LEMMA PendingInHand == \A t \in Tasks : Pending(t) => InHand(t)
  BY DEF Pending, InHand, Holds, NotRunYet, Holding

(* Runs keep up with pushes. *)
LEMMA NextCountInv ==
  ASSUME Inv, [Next]_vars
  PROVE  CountInv'
<1>0. TypeOK /\ WorkerInv /\ PlaceInv /\ CallInv /\ CountInv
  BY DEF Inv
<1> USE ConstantsAssumption, ObjectsAssumption
<1>1. ASSUME UNCHANGED <<runs, pushes>>, \A t \in Tasks : Pending(t)' <=> Pending(t)
      PROVE  CountInv'
  BY <1>0, <1>1 DEF CountInv
<1>2. ASSUME UNCHANGED <<runs, pushes, queue, wtask>>,
             \A v \in Workers : wpc'[v] \in NotRunYet <=> wpc[v] \in NotRunYet
      PROVE  CountInv'
  BY <1>1, <1>2 DEF Pending, InQueue
<1>3. ASSUME NEW w \in Workers, Execute(w) PROVE CountInv'
  <2>1. /\ wtask[w] \in Tasks /\ Holds(w, wtask[w]) /\ wpc[w] = "exec"
        /\ runs' = [runs EXCEPT ![wtask[w]] = @ + 1] /\ pushes' = pushes
        /\ queue' = queue /\ wtask' = wtask /\ wpc' = [wpc EXCEPT ![w] = "settle"]
    BY <1>0, <1>3 DEF Execute, WorkerInv, Holds, Holding, Goto, poolVars
  <2>2. ASSUME NEW t \in Tasks, t # wtask[w] PROVE (Pending(t)' <=> Pending(t)) /\ runs'[t] = runs[t]
    BY <1>0, <2>1, <2>2 DEF Pending, InQueue, TypeOK
  <2>3. ASSUME NEW t \in Tasks, t = wtask[w]
        PROVE  Pending(t) /\ ~Pending(t)' /\ runs'[t] = runs[t] + 1
    <3>1. ~InQueue(t) /\ \A v \in Workers : Holds(v, t) => v = w
      BY <1>0, <2>1, <2>3 DEF PlaceInv
    <3>2. \A v \in Workers : wpc'[v] \in NotRunYet => v # w /\ wpc[v] \in NotRunYet
      BY <1>0, <2>1 DEF TypeOK, NotRunYet
    <3> QED
      BY <1>0, <2>1, <2>3, <3>1, <3>2 DEF Pending, InQueue, Holds, NotRunYet, Holding, TypeOK
  <2>4. \A t \in Tasks : runs[t] \in Nat /\ pushes[t] \in Nat
    BY <1>0 DEF TypeOK
  <2> QED
    BY <1>0, <2>1, <2>2, <2>3, <2>4 DEF CountInv
<1>4. ASSUME NEW w \in Workers, Pop(w) PROVE CountInv'
  <2>1. UNCHANGED <<runs, pushes>>
    BY <1>4 DEF Pop, taskVars
  <2>2. wpc[w] = "pop" /\ wpc'[w] = "start"
    BY <1>0, <1>4 DEF Pop, Goto, TypeOK
  <2>3. \A t \in Tasks : Pending(t)' <=> Pending(t)
    BY <1>0, <1>4, <2>2, PopMoves DEF Pending, NotRunYet
  <2> QED
    BY <1>1, <2>1, <2>3
<1>5. ASSUME NEW w \in Workers, Publish(w) \/ Reap(w) PROVE CountInv'
  <2>1. UNCHANGED <<runs, pushes>> /\ wpc[w] \notin NotRunYet
    BY <1>5 DEF Publish, Reap, taskVars, NotRunYet
  <2>2. \A t \in Tasks : Pending(t)' <=> Pending(t)
    BY <1>0, <1>5, <2>1, ReleaseMoves DEF Pending, NotRunYet
  <2> QED
    BY <1>1, <2>1, <2>2
<1>6. ASSUME NEW w \in Workers, WorkerStep(w), ~Execute(w), ~Mover(w) PROVE CountInv'
  <2>1. UNCHANGED <<runs, pushes, queue, wtask>>
    BY <1>6 DEF WorkerStep, Worker, Mover, PopNothing, CheckDeleting, WaitForTask, WakeUp, WakeUnsignalled, Start, CountIn,
                Settle, CountOut, poolVars, taskVars
  <2>2. \A v \in Workers : wpc'[v] \in NotRunYet <=> wpc[v] \in NotRunYet
    BY <1>0, <1>6 DEF WorkerStep, Worker, Mover, PopNothing, CheckDeleting, WaitForTask, WakeUp, WakeUnsignalled,
                Start, CountIn, Settle, SettledPc, CountOut, Goto, NotRunYet, TypeOK
  <2> QED
    BY <1>2, <2>1, <2>2
<1>7. CASE Enqueue
  <2>1. /\ call.task \in Tasks /\ ~InHand(call.task) /\ runs' = runs
        /\ pushes' = [pushes EXCEPT ![call.task] = @ + 1]
    BY <1>0, <1>7, EnqueueMoves, LooseTasks DEF Enqueue, CallInv
  <2>2. \A t \in Tasks : Pending(t)' <=> Pending(t) \/ t = call.task
    BY <1>0, <1>7, EnqueueMoves DEF Pending, NotRunYet
  <2>3. ~Pending(call.task)
    BY <2>1, PendingInHand
  <2>4. \A t \in Tasks : runs[t] \in Nat /\ pushes[t] \in Nat
    BY <1>0 DEF TypeOK
  <2>5. \A t \in Tasks : pushes'[t] = IF t = call.task THEN pushes[t] + 1 ELSE pushes[t]
    BY <1>0, <2>1 DEF TypeOK
  <2>6. ASSUME NEW t \in Tasks
        PROVE  pushes'[t] = runs'[t] + (IF Pending(t)' THEN 1 ELSE 0)
    <3>1. CASE t = call.task
      BY <1>0, <2>1, <2>2, <2>3, <2>4, <2>5, <3>1 DEF CountInv
    <3>2. CASE t # call.task
      BY <1>0, <2>1, <2>2, <2>4, <2>5, <3>2 DEF CountInv
    <3> QED BY <3>1, <3>2
  <2> QED
    BY <2>6 DEF CountInv
<1>8. ASSUME BeginCall \/ (CallStep /\ ~Enqueue) \/ UNCHANGED vars PROVE CountInv'
  <2>1. UNCHANGED <<runs, pushes>>
    BY <1>8, BeginCallFrame, InCallFrame DEF Spawn, PoolDeleteBroadcast, vars, taskVars
  <2>2. queue' = queue /\ wtask' = wtask
    BY <1>0, <1>8, StillClient
  <2>3. \A v \in Workers : wpc'[v] \in NotRunYet <=> wpc[v] \in NotRunYet
    BY <1>0, <1>8, StillClient DEF NotRunYet, Holding
  <2> QED
    BY <1>2, <2>1, <2>2, <2>3
<1> QED
  BY <1>3, <1>4, <1>5, <1>6, <1>7, <1>8 DEF Next, Mover, WorkerStep, CallStep

-----------------------------------------------------------------------------
(* The pool is freed last.                                                   *)

(* The pool goes away after its threads. *)
LEMMA NextPoolInv ==
  ASSUME Inv, [Next]_vars
  PROVE  PoolInv'
<1>0. TypeOK /\ WorkerInv /\ PoolInv
  BY DEF Inv
<1> USE DEF PoolInv
<1>1. ASSUME NEW w \in Workers, WorkerStep(w) PROVE PoolInv'
  <2>1. poolAlive
    BY <1>0, <1>1 DEF WorkerStep, Worker, Pop, PopNothing, CheckDeleting, WaitForTask, WakeUp, WakeUnsignalled, Start,
                CountIn, Execute, Settle, Publish, Reap, CountOut
  <2>2. UNCHANGED <<poolAlive, deleting>> /\ (queue # <<>> \/ queue' = queue)
    BY <1>1 DEF WorkerStep, Worker, Pop, PopNothing, CheckDeleting, WaitForTask, WakeUp, WakeUnsignalled, Start, CountIn,
                Execute, Settle, Publish, Reap, CountOut, poolVars
  <2>3. call'.op = call.op /\ (call.op = "delete" => call' = call)
    BY <1>0, <1>1, WorkerCall DEF Joins
  <2> QED
    BY <1>0, <2>1, <2>2, <2>3
<1>2. CASE Enqueue \/ Spawn
  <2>1. poolAlive /\ ~deleting /\ UNCHANGED <<poolAlive, deleting>>
    BY <1>0, <1>2 DEF Enqueue, Spawn, At
  <2>2. call'.op # "delete"
    BY <1>0, <1>2, GoOnFields, IdleFields DEF Enqueue, Spawn, At, Return, End
  <2> QED
    BY <2>1, <2>2
<1>3. CASE PoolDeleteRunning
  <2>1. call' = Idle \/ (call'.op = "delete" /\ call'.at = "close")
    BY <1>0, <1>3, GoOnFields DEF PoolDeleteRunning, At, Return, End
  <2>2. UNCHANGED <<poolVars, wpc>>
    BY <1>3 DEF PoolDeleteRunning, workerVars
  <2>3. call.op = "delete" /\ call.at = "running"
    BY <1>3 DEF PoolDeleteRunning, At
  <2> QED
    BY <1>0, <2>1, <2>2, <2>3, IdleFields DEF poolVars
<1>4. CASE PoolDeleteClose
  <2>1. call'.op = "delete" /\ call'.at = "broadcast" /\ call.op = "delete"
        /\ deleting' = TRUE /\ UNCHANGED <<queue, poolAlive>>
    BY <1>0, <1>4, GoOnFields DEF PoolDeleteClose, At
  <2> QED
    BY <1>0, <2>1
<1>5. CASE PoolDeleteBroadcast
  <2>1. call'.op = "delete" /\ call'.at = "reap" /\ call.op = "delete" /\ call.at = "broadcast"
        /\ UNCHANGED <<queue, poolAlive, deleting>>
    BY <1>0, <1>5, GoOnFields DEF PoolDeleteBroadcast, At, poolVars
  <2> QED
    BY <1>0, <2>1
<1>6. CASE PoolDeleteReap
  <2>1. /\ call' = Idle /\ call.op = "delete" /\ call.at = "reap" /\ poolAlive' = FALSE
        /\ UNCHANGED <<queue, deleting, wpc>>
    BY <1>6 DEF PoolDeleteReap, At, Return, End, workerVars
  <2>2. \A w \in Workers : wpc[w] \in {"none", "exited"}
    BY <1>0, <1>6, ConstantsAssumption, ObjectsAssumption DEF PoolDeleteReap, ThreadsJoined, WorkerInv, Workers, TypeOK
  <2> QED
    BY <1>0, <2>1, <2>2, IdleFields
<1>7. CASE \/ JoinLock \/ JoinWake \/ JoinWakeUnsignalled \/ Expire \/ JoinStore
           \/ Detach \/ DetachFree \/ TaskDeleteSecond
  <2>1. UNCHANGED <<poolVars, wpc>> /\ call.op \in Joins \cup {"detach", "task_delete"}
    <3>1. CASE JoinLock \/ JoinWake \/ JoinWakeUnsignalled \/ JoinStore
      BY <3>1 DEF JoinLock, JoinWake, JoinWakeUnsignalled, JoinStore, workerVars
    <3>2. CASE Expire
      BY <3>2 DEF Expire, Expirable, workerVars, Joins
    <3>3. CASE Detach \/ DetachFree \/ TaskDeleteSecond
      BY <3>3 DEF Detach, DetachFree, TaskDeleteSecond, At, workerVars
    <3> QED BY <1>7, <3>1, <3>2, <3>3
  <2>2. call'.op \notin {"push", "delete"}
    BY <1>0, <1>7, <2>1, InCallCall, IdleFields DEF CallStep, InCall, Joins
  <2> QED
    BY <1>0, <2>1, <2>2 DEF poolVars, Joins
<1>8. CASE BeginCall
  <2>1. UNCHANGED <<poolVars, wpc>> /\ call = Idle
    BY <1>8, BeginCallFrame DEF workerVars, BeginCall, TaskNew, TaskDelete, PushBegin,
       TimedJoinNegative, DetachBegin, JoinBegin, PoolDeleteBegin
  <2>2. CASE PoolDeleteBegin
    BY <1>0, <2>1, <2>2, IdleFields DEF PoolDeleteBegin, Begin, Return, End, poolVars
  <2>3. ASSUME NEW t \in Tasks, PushBegin(t) PROVE PoolInv'
    <3>1. poolAlive /\ (call' = Idle \/ call' = [op |-> "push", at |-> "enqueue", task |-> t])
      BY <2>3 DEF PushBegin, Begin, Return, End
    <3> QED
      BY <1>0, <2>1, <3>1, IdleFields DEF poolVars
  <2>4. CASE call'.op \notin {"push", "delete"}
    BY <1>0, <2>1, <2>4, IdleFields DEF poolVars
  <2>5. ASSUME NEW t \in Tasks, TaskNew(t) \/ TaskDelete(t) \/ TimedJoinNegative(t) \/ DetachBegin(t)
        PROVE  PoolInv'
    BY <2>4, <2>5, IdleFields DEF TaskNew, TaskDelete, TimedJoinNegative, DetachBegin, Begin, Return, End
  <2>6. ASSUME NEW op \in Joins, NEW t \in Tasks, JoinBegin(op, t) PROVE PoolInv'
    BY <2>4, <2>6, IdleFields DEF JoinBegin, Begin, Return, End, Joins
  <2> QED
    BY <1>8, <2>2, <2>3, <2>5, <2>6 DEF BeginCall
<1>9. CASE UNCHANGED vars
  BY <1>0, <1>9 DEF vars, poolVars, workerVars, clientVars
<1> QED
  BY <1>1, <1>2, <1>3, <1>4, <1>5, <1>6, <1>7, <1>8, <1>9 DEF Next, WorkerStep, InCall

-----------------------------------------------------------------------------
(* The theorems.                                                             *)

(* The invariant holds in the initial states. *)
LEMMA InitInv == Init => Inv
<1> SUFFICES ASSUME Init PROVE Inv
  OBVIOUS
<1> USE ConstantsAssumption, ObjectsAssumption
<1>1. TypeOK
  BY InitType
<1>2. /\ Len(queue) = 0 /\ \A w \in Workers : wpc[w] = "none" /\ wtask[w] = NoTask
      /\ \A t \in Tasks : ~InQueue(t) /\ ~InHand(t) /\ ~Pending(t)
  BY DEF Init, InQueue, InHand, Pending, Holds, Holding, NotRunYet
<1>3. WorkerInv /\ PlaceInv
  BY <1>2 DEF Init, WorkerInv, PlaceInv, StatusFits, Holding, Workers, Holds
<1>4. HandleInv /\ CallInv /\ AliveInv /\ PoolInv
  BY <1>2, IdleFields DEF Init, HandleInv, CallInv, AliveInv, PoolInv, At, Joins
<1>5. CountInv
  <2>1. \A t \in Tasks : pushes[t] = 0 /\ runs[t] = 0
    BY DEF Init
  <2> SUFFICES ASSUME NEW t \in Tasks
               PROVE  pushes[t] = runs[t] + (IF Pending(t) THEN 1 ELSE 0)
    BY DEF CountInv
  <2>2. ~Pending(t)
    BY <1>2
  <2> QED
    BY <2>1, <2>2
<1>6. RunningInv
  <2>1. CountedWorkers = {}
    BY <1>2 DEF CountedWorkers, Counted
  <2> QED
    BY <2>1, FS_EmptySet DEF Init, RunningInv
<1> QED
  BY <1>1, <1>3, <1>4, <1>5, <1>6 DEF Inv

(* Every step keeps the invariant, unless it returns or frees a task in use. *)
LEMMA NextInv == Inv /\ ~wild' /\ [Next]_vars => Inv'
<1> SUFFICES ASSUME Inv, ~wild', [Next]_vars PROVE Inv'
  OBVIOUS
<1>1. TypeOK' /\ WorkerInv' /\ RunningInv'
  BY NextType, NextWorkerInv, NextRunningInv DEF Inv
<1> QED
  BY <1>1, NextPlaceInv, NextHandleInv, NextCallInv, NextAliveInv, NextCountInv, NextPoolInv
  DEF Inv

(* A task that nobody has is free or finished, unless it is being pushed. *)
AtRest(t) ==
  \/ status[t] \in {"free", "finished"}
  \/ status[t] = "pushed" /\ At("push", "enqueue") /\ call.task = t
RestInv == \A t \in Tasks : ~InHand(t) => AtRest(t)

(* Only pushing passes through the place before the queue. *)
LEMMA NotPushing ==
  /\ CallStep /\ ~Enqueue => ~At("push", "enqueue")
  /\ BeginCall => ~At("push", "enqueue")
<1>1. CallStep /\ ~Enqueue => ~At("push", "enqueue")
  BY DEF CallStep, InCall, TaskDeleteSecond, Spawn, JoinLock, JoinWake, JoinWakeUnsignalled, Expire, Expirable, JoinStore, Detach, DetachFree,
         PoolDeleteRunning, PoolDeleteClose, PoolDeleteBroadcast, PoolDeleteReap, At, Joins
<1>2. BeginCall => call = Idle
  BY DEF BeginCall, TaskNew, TaskDelete, PushBegin, TimedJoinNegative, DetachBegin,
         JoinBegin, PoolDeleteBegin
<1> QED
  BY <1>1, <1>2, IdleFields DEF At

(* A worker lets go of a task that is free or finished. *)
LEMMA WorkerRest ==
  ASSUME Inv, RestInv, NEW w \in Workers, WorkerStep(w)
  PROVE  RestInv'
<1>0. TypeOK /\ WorkerInv /\ PlaceInv
  BY DEF Inv
<1> SUFFICES ASSUME NEW t \in Tasks, ~InHand(t)' PROVE AtRest(t)'
  BY DEF RestInv
<1>1. CASE InHand(t)
  <2>1. Publish(w) \/ Reap(w)
    BY <1>0, <1>1, PopMoves, StillWorker, Still DEF Mover
  <2>2. t = wtask[w] /\ StatusFits(w) /\ status' = status
    BY <1>0, <1>1, <2>1, ReleaseMoves DEF PlaceInv, Publish, Reap, taskVars
  <2>3. status[t] \in {"free", "finished"}
    BY <2>1, <2>2 DEF StatusFits, Publish, Reap
  <2> QED
    BY <2>2, <2>3 DEF AtRest
<1>2. CASE ~InHand(t)
  <2>1. status'[t] = status[t]
    BY <1>2, WorkerStatus DEF InHand
  <2>2. At("push", "enqueue") => At("push", "enqueue")' /\ call'.task = call.task
    BY <1>0, WorkerCall DEF At, Joins
  <2> QED
    BY <1>2, <2>1, <2>2 DEF RestInv, AtRest
<1> QED BY <1>1, <1>2

(* So do the calls: join leaves finished, detach free what it gives up. *)
LEMMA InCallRest ==
  ASSUME Inv, RestInv, CallStep
  PROVE  RestInv'
<1>0. TypeOK /\ WorkerInv
  BY DEF Inv
<1> SUFFICES ASSUME NEW t \in Tasks, ~InHand(t)' PROVE AtRest(t)'
  BY DEF RestInv
<1>1. CASE Enqueue
  <2>1. ~InHand(t) /\ t # call.task
    BY <1>0, <1>1, EnqueueMoves
  <2>2. status' = status
    BY <1>1 DEF Enqueue
  <2> QED
    BY <2>1, <2>2 DEF RestInv, AtRest
<1>2. CASE ~Enqueue
  <2>1. ~InHand(t)
    BY <1>0, <1>2, StillClient, Still
  <2>2. status[t] \in {"free", "finished"}
    BY <1>2, <2>1, NotPushing DEF RestInv, AtRest
  <2>3. status'[t] \in {"free", "finished"}
    <3>1. CASE JoinStore
      BY <1>0, <2>2, <3>1 DEF JoinStore, TypeOK
    <3>2. CASE Detach
      BY <1>0, <2>2, <3>2 DEF Detach, TypeOK
    <3>3. CASE status' = status
      BY <2>2, <3>3
    <3> QED
      BY <1>2, <3>1, <3>2, <3>3
      DEF CallStep, InCall, TaskDeleteSecond, Spawn, JoinLock, JoinWake, JoinWakeUnsignalled, Expire, DetachFree, PoolDeleteRunning,
          PoolDeleteClose, PoolDeleteBroadcast, PoolDeleteReap, taskVars
  <2> QED
    BY <2>3 DEF AtRest
<1> QED BY <1>1, <1>2

(* A push begins with a task at rest, and is the exception until it is queued. *)
LEMMA BeginCallRest ==
  ASSUME Inv, RestInv, BeginCall
  PROVE  RestInv'
<1>0. TypeOK /\ WorkerInv
  BY DEF Inv
<1> SUFFICES ASSUME NEW t \in Tasks, ~InHand(t)' PROVE AtRest(t)'
  BY DEF RestInv
<1>1. ~InHand(t)
  BY <1>0, StillClient, Still
<1>2. status[t] \in {"free", "finished"}
  BY <1>1, NotPushing DEF RestInv, AtRest
<1>3. ASSUME NEW q \in Tasks, TaskNew(q) PROVE AtRest(t)'
  BY <1>0, <1>2, <1>3 DEF TaskNew, AtRest, TypeOK
<1>4. ASSUME NEW q \in Tasks, PushBegin(q) PROVE AtRest(t)'
  <2>1. CASE t = q /\ status' # status
    <3>1. status' = [status EXCEPT ![t] = "pushed"] /\ Begin("push", "enqueue", t)
      BY <2>1, <1>4 DEF PushBegin
    <3>2. call'.op = "push" /\ call'.at = "enqueue" /\ call'.task = t
      BY <3>1 DEF Begin
    <3>3. status'[t] = "pushed"
      BY <1>0, <3>1 DEF TypeOK
    <3> QED BY <3>2, <3>3 DEF AtRest, At
  <2>2. CASE t # q \/ status' = status
    BY <1>0, <1>2, <1>4, <2>2 DEF PushBegin, AtRest, TypeOK
  <2> QED BY <2>1, <2>2
<1>5. CASE status' = status
  BY <1>2, <1>5 DEF AtRest
<1> QED
  BY <1>3, <1>4, <1>5 DEF BeginCall, TaskDelete, TimedJoinNegative, DetachBegin, JoinBegin,
                          PoolDeleteBegin, taskVars

(* What holds once a task has been returned or freed while in use: the pool   *)
(* itself is still sound, and the client is out of its call.                  *)
Aftermath ==
  /\ wild /\ call = Idle
  /\ TypeOK /\ ExactlyOnce /\ NoUseAfterFree /\ DeletedPoolIsDrained

PoolSound == \/ ~wild /\ Inv /\ RestInv
             \/ Aftermath

(* What the invariant says of the properties while nothing has gone wrong. *)
LEMMA InvSafe ==
  ASSUME Inv
  PROVE  ExactlyOnce /\ NoUseAfterFree /\ DeletedPoolIsDrained
<1>1. ExactlyOnce
  BY DEF Inv, PlaceInv, CountInv, ExactlyOnce
<1>2. NoUseAfterFree
  BY DEF Inv, AliveInv, NoUseAfterFree, Used, InHand
<1>3. DeletedPoolIsDrained
  <2> SUFFICES ASSUME ~poolAlive
               PROVE  /\ \A w \in Workers : wpc[w] \in {"none", "exited"}
                      /\ queue = <<>> /\ running = 0
    BY DEF DeletedPoolIsDrained
  <2>1. (\A w \in Workers : wpc[w] \in {"none", "exited"}) /\ queue = <<>>
    BY DEF Inv, PoolInv
  <2>2. CountedWorkers = {}
    BY <2>1 DEF CountedWorkers, Counted
  <2> QED
    BY <2>1, <2>2, FS_EmptySet DEF Inv, RunningInv
<1> QED
  BY <1>1, <1>2, <1>3

(* Only two steps go wrong: a join that woke up without a signal, and a delete *)
(* of a task its worker has yet to publish.                                    *)
LEMMA GoingWrong ==
  ASSUME TypeOK, ~wild, wild', [Next]_vars
  PROVE  \/ JoinStore /\ call.at = "early"
         \/ TaskDeleteSecond /\ status[call.task] = "finished"
<1>1. ASSUME NEW w \in Workers, WorkerStep(w) PROVE FALSE
  BY <1>1 DEF WorkerStep, Worker, Pop, PopNothing, CheckDeleting, WaitForTask, WakeUp,
     WakeUnsignalled, Start, CountIn, Execute, Settle, Publish, Reap, CountOut, clientVars
<1>2. CASE BeginCall
  BY <1>2 DEF BeginCall, TaskNew, TaskDelete, PushBegin, TimedJoinNegative, DetachBegin,
     JoinBegin, PoolDeleteBegin, Begin, Return
<1>3. CASE CallStep /\ ~JoinStore /\ ~TaskDeleteSecond
  BY <1>3 DEF CallStep, InCall, Enqueue, Spawn, JoinLock, JoinWake, JoinWakeUnsignalled, Expire,
     Detach, DetachFree, PoolDeleteRunning, PoolDeleteClose, PoolDeleteBroadcast, PoolDeleteReap,
     GoOn, Return
<1>4. CASE JoinStore
  BY <1>4 DEF JoinStore
<1>5. CASE TaskDeleteSecond
  BY <1>5 DEF TaskDeleteSecond, Return
<1>6. CASE UNCHANGED vars
  BY <1>6 DEF vars, clientVars
<1> QED
  BY <1>1, <1>2, <1>3, <1>4, <1>5, <1>6 DEF Next, WorkerStep, CallStep

(* What they leave behind. *)
LEMMA WrongStep ==
  ASSUME Inv, ~wild, wild', [Next]_vars
  PROVE  Aftermath'
<1>0. TypeOK /\ TypeOK' /\ ExactlyOnce /\ NoUseAfterFree /\ DeletedPoolIsDrained
  BY NextType, InvSafe DEF Inv
<1>1. \/ JoinStore
      \/ TaskDeleteSecond /\ status[call.task] = "finished"
  BY <1>0, GoingWrong
<1>2. call' = Idle /\ UNCHANGED <<poolVars, workerVars, runs, pushes>>
  BY <1>1 DEF JoinStore, TaskDeleteSecond, End
<1>3. UNCHANGED <<queue, running, poolAlive, wpc, wtask>>
  BY <1>2 DEF poolVars, workerVars
<1>4. /\ \A t \in Tasks : (InQueue(t)' <=> InQueue(t)) /\ (Pending(t)' <=> Pending(t))
      /\ \A w \in Workers, t \in Tasks : Holds(w, t)' <=> Holds(w, t)
  BY <1>3 DEF InQueue, Holds, Pending
<1>5. ExactlyOnce'
  BY <1>0, <1>2, <1>3, <1>4 DEF ExactlyOnce
<1>6. DeletedPoolIsDrained'
  BY <1>0, <1>3 DEF DeletedPoolIsDrained
<1>7. NoUseAfterFree'
  <2> SUFFICES ASSUME NEW t \in Tasks, Used(t)', ~alive'[t]
               PROVE  ~InQueue(t)' /\ \A w \in Workers : Holds(w, t)' => wpc'[w] = "publish"
    BY <1>2 DEF NoUseAfterFree
  <2>1. call'.task # t
    BY <1>2, IdleFields, ObjectsAssumption
  <2>2. InHand(t) /\ alive[t]
    BY <1>4, <2>1 DEF Used, InHand, Inv, AliveInv
  <2>3. TaskDeleteSecond /\ status[call.task] = "finished"
    BY <1>1, <2>2 DEF JoinStore
  <2>4. t = call.task
    BY <1>0, <2>2, <2>3 DEF TaskDeleteSecond, TypeOK
  <2> QED
    BY <1>3, <1>4, <2>3, <2>4, FinishedTask
<1> QED
  BY <1>0, <1>2, <1>5, <1>6, <1>7 DEF Aftermath

(* After it nothing moves. *)
LEMMA AftermathStays == Aftermath /\ [Next]_vars => UNCHANGED vars
<1> SUFFICES ASSUME Aftermath, Next PROVE FALSE
  OBVIOUS
<1>1. call = Idle /\ wild
  BY DEF Aftermath
<1>2. \/ InCall \/ JoinWakeUnsignalled
  BY <1>1 DEF Next, Worker, WakeUnsignalled, BeginCall
<1> QED
  BY <1>1, <1>2, IdleFields
  DEF InCall, TaskDeleteSecond, Enqueue, Spawn, JoinLock, JoinWake, JoinWakeUnsignalled, Expire,
      Expirable, JoinStore, Detach, DetachFree, PoolDeleteRunning, PoolDeleteClose,
      PoolDeleteBroadcast, PoolDeleteReap, At, Joins

(* Frozen, it lasts. *)
LEMMA AftermathInv == Aftermath /\ [Next]_vars => Aftermath'
<1> SUFFICES ASSUME Aftermath, UNCHANGED vars PROVE Aftermath'
  BY AftermathStays
<1> USE DEF Aftermath, vars, poolVars, taskVars, workerVars, clientVars
<1>1. TypeOK' /\ DeletedPoolIsDrained'
  BY DEF TypeOK, DeletedPoolIsDrained
<1>2. ExactlyOnce' /\ NoUseAfterFree'
  BY DEF ExactlyOnce, NoUseAfterFree, Used, Pending, InQueue, Holds
<1> QED
  BY <1>1, <1>2

(* A status at rest stays at rest in every step. *)
LEMMA NextRest == Inv /\ RestInv /\ [Next]_vars => RestInv'
<1> SUFFICES ASSUME Inv, RestInv, [Next]_vars PROVE RestInv'
  OBVIOUS
<1>1. CASE UNCHANGED vars
  BY <1>1 DEF RestInv, AtRest, InHand, InQueue, Holds, At, vars, poolVars, taskVars,
              workerVars, clientVars
<1> QED
  BY <1>1, WorkerRest, InCallRest, BeginCallRest DEF Next, WorkerStep, CallStep

(* The inductive invariant holds throughout every behaviour (worker_function and
   the calls of thread_pool.c, for any number of tasks and threads). *)
THEOREM Invariance == Spec => []PoolSound
<1>1. Init => PoolSound
  <2>1. Init => ~wild /\ RestInv
    BY DEF Init, RestInv, AtRest
  <2> QED
    BY <2>1, InitInv DEF PoolSound
<1>2. PoolSound /\ [Next]_vars => PoolSound'
  BY NextInv, NextRest, WrongStep, AftermathInv DEF PoolSound
<1> QED
  BY <1>1, <1>2, PTL DEF Spec

(* The model is well-typed: the counter of running tasks never goes below 0   *)
(* and no thread slot past max_threads_count is used.                         *)
THEOREM TypeCorrect == Spec => []TypeOK
<1>1. PoolSound => TypeOK
  BY DEF PoolSound, Inv, Aftermath
<1> QED BY <1>1, Invariance, PTL

(* A push is run exactly once, by one worker. *)
THEOREM PushRunsExactlyOnce == Spec => []ExactlyOnce
<1>1. PoolSound => ExactlyOnce
  BY InvSafe DEF PoolSound, Aftermath
<1> QED BY <1>1, Invariance, PTL

(* After a join the task is the client's alone, its last push has run and its *)
(* result can be read, unless the joiner woke up without a signal before the  *)
(* task was done: the missing loop at thread_pool.c:271 is the only way for a *)
(* join to return early.                                                      *)
THEOREM JoinedTaskIsDone == Spec => []IdleTaskIsDone
<1>1. PoolSound => IdleTaskIsDone
  <2> SUFFICES ASSUME Inv, NEW t \in Tasks, handle[t] = "idle"
               PROVE  runs[t] = pushes[t] /\ ~InQueue(t) /\ \A w \in Workers : ~Holds(w, t)
    BY DEF PoolSound, Aftermath, IdleTaskIsDone
  <2>1. ~InHand(t)
    BY LooseTasks
  <2>2. runs[t] \in Nat /\ pushes[t] = runs[t]
    BY <2>1, PendingInHand DEF Inv, CountInv, TypeOK
  <2> QED
    BY <2>1, <2>2 DEF InHand
<1> QED BY <1>1, Invariance, PTL

(* Neither the queue, nor a worker, nor the client's call refers to a task    *)
(* that was freed, but for one worker and one place: thread_task_delete frees *)
(* under the worker that has stored FINISHED and not yet unlocked             *)
(* (thread_pool.c:151-153 and 285).                                           *)
THEOREM TasksOutliveTheirUse == Spec => []NoUseAfterFree
<1>1. PoolSound => NoUseAfterFree
  BY InvSafe DEF PoolSound, Aftermath
<1> QED BY <1>1, Invariance, PTL

(* The pool is freed when every thread has ended and it is empty. *)
THEOREM PoolIsFreedLast == Spec => []DeletedPoolIsDrained
<1>1. PoolSound => DeletedPoolIsDrained
  BY InvSafe DEF PoolSound, Aftermath
<1> QED BY <1>1, Invariance, PTL

-----------------------------------------------------------------------------
(* The round of a task's status.                                             *)

Round == {<<"free", "pushed">>, <<"finished", "pushed">>, <<"pushed", "running">>,
          <<"running", "finished">>, <<"running", "free">>, <<"finished", "free">>}

(* A step that changes a status goes on in the round, or is the store of a     *)
(* join that woke up without a signal.                                         *)
LEMMA StatusStep ==
  ASSUME Inv, RestInv, Next, NEW t \in Tasks, status'[t] # status[t]
  PROVE  \/ <<status[t], status'[t]>> \in Round
         \/ call.op \in Joins /\ call.at = "early" /\ call.task = t
<1>0. TypeOK
  BY DEF Inv
<1>1. ASSUME NEW w \in Workers, WorkerStep(w)
      PROVE  <<status[t], status'[t]>> \in Round
  BY <1>1, WorkerStatus DEF Round
<1>2. CASE JoinStore
  <2>1. call.at = "store" => status[call.task] = "finished"
    BY <1>0, <1>2, CallShape DEF JoinStore, Joins, Inv, CallInv
  <2> QED
    BY <1>0, <1>2, <2>1 DEF JoinStore, TypeOK
<1>3. CASE CallStep /\ ~JoinStore
  <2>1. Detach /\ t = call.task /\ status[t] = "finished" /\ status'[t] = "free"
    BY <1>0, <1>3 DEF CallStep, InCall, TaskDeleteSecond, Enqueue, Spawn, JoinLock, JoinWake,
         JoinWakeUnsignalled, Expire, Detach, DetachFrees,
         DetachFree, PoolDeleteRunning, PoolDeleteClose, PoolDeleteBroadcast, PoolDeleteReap,
         taskVars, TypeOK
  <2> QED BY <2>1 DEF Round
<1>4. CASE BeginCall
  <2>1. ASSUME ~InHand(t) PROVE status[t] \in {"free", "finished"}
    BY <1>4, <2>1, NotPushing DEF RestInv, AtRest
  <2>2. CASE TaskNew(t)
    BY <1>0, <2>1, <2>2, LooseTasks DEF TaskNew, TypeOK, Round
  <2>3. CASE PushBegin(t)
    BY <1>0, <2>1, <2>3, LooseTasks DEF PushBegin, TypeOK, Round
  <2> QED
    BY <1>0, <1>4, <2>2, <2>3 DEF BeginCall, TaskNew, PushBegin, TaskDelete, TimedJoinNegative,
         DetachBegin, JoinBegin, PoolDeleteBegin, taskVars, TypeOK
<1> QED BY <1>1, <1>2, <1>3, <1>4 DEF Next, WorkerStep, CallStep

(* For any number of tasks and threads, no store of a status overwrites a     *)
(* later one: not that of a push, a detach or thread_task_new, and the one    *)
(* that join makes without the mutex (thread_pool.c:276) only when the joiner *)
(* woke up without a signal.                                                  *)
THEOREM StatusIsNeverTakenBack == Spec => StatusGoesRound
<1>1. PoolSound /\ [Next]_vars =>
        [\A t \in Tasks : status'[t] # status[t] =>
           \/ <<status[t], status'[t]>> \in
                {<<"free", "pushed">>, <<"finished", "pushed">>, <<"pushed", "running">>,
                 <<"running", "finished">>, <<"running", "free">>, <<"finished", "free">>}
           \/ call.op \in Joins /\ call.at = "early" /\ call.task = t]_vars
  BY StatusStep, AftermathStays DEF PoolSound, Round
<1> QED
  BY <1>1, Invariance, PTL DEF Spec, StatusGoesRound

-------------------------------------------------------------------------------
(* The contract: every step of ThreadPool is a step of TaskPool or none, for  *)
(* any number of tasks and threads, with the invariant above.                 *)

Active(t) == \E w \in Workers : wpc[w] \in Unsettled /\ wtask[w] = t
Reaped(t) == \E w \in Workers : wpc[w] = "reap" /\ wtask[w] = t
Phases    == [t \in Tasks |-> Phase(t)]

(* The places of a worker that show from outside. *)
Shown == Unsettled \cup {"reap"}

(* No task is taken, settled or let go of. *)
MovesNobody ==
  /\ queue' = queue
  /\ \A v \in Workers :
       \/ wpc'[v] = wpc[v] /\ wtask'[v] = wtask[v]
       \/ wpc[v] \in Unsettled /\ wpc'[v] \in Unsettled /\ wtask'[v] = wtask[v]
       \/ wpc[v] \notin Shown /\ wpc'[v] \notin Shown

LEMMA NobodyMoves ==
  ASSUME MovesNobody, NEW t \in Tasks
  PROVE  (InQueue(t)' <=> InQueue(t)) /\ (Active(t)' <=> Active(t)) /\ (Reaped(t)' <=> Reaped(t))
<1>1. InQueue(t)' <=> InQueue(t)
  BY DEF MovesNobody, InQueue
<1>2. \A v \in Workers :
        (wpc'[v] \in Unsettled /\ wtask'[v] = t) <=> (wpc[v] \in Unsettled /\ wtask[v] = t)
  BY DEF MovesNobody, Shown
<1>3. \A v \in Workers :
        (wpc'[v] = "reap" /\ wtask'[v] = t) <=> (wpc[v] = "reap" /\ wtask[v] = t)
  BY DEF MovesNobody, Shown, Unsettled
<1> QED
  BY <1>1, <1>2, <1>3 DEF Active, Reaped

(* The phase by cases. *)
LEMMA PhaseOf ==
  ASSUME NEW t \in Tasks
  PROVE  /\ InQueue(t) => Phase(t) = "waiting"
         /\ ~InQueue(t) /\ Active(t) => Phase(t) = "active"
         /\ ~InQueue(t) /\ ~Active(t) /\ (~alive[t] \/ Reaped(t)) => Phase(t) = "absent"
         /\ ~InQueue(t) /\ ~Active(t) /\ alive[t] /\ ~Reaped(t) =>
              Phase(t) = IF status[t] = "finished" THEN "done" ELSE "ready"
  BY DEF Phase, Active, Reaped

LEMMA PhaseOfNext ==
  ASSUME NEW t \in Tasks
  PROVE  /\ InQueue(t)' => Phase(t)' = "waiting"
         /\ ~InQueue(t)' /\ Active(t)' => Phase(t)' = "active"
         /\ ~InQueue(t)' /\ ~Active(t)' /\ (~alive'[t] \/ Reaped(t)') => Phase(t)' = "absent"
         /\ ~InQueue(t)' /\ ~Active(t)' /\ alive'[t] /\ ~Reaped(t)' =>
              Phase(t)' = IF status'[t] = "finished" THEN "done" ELSE "ready"
  BY DEF Phase, Active, Reaped

(* A step that moves nobody changes no phase by itself. *)
LEMMA StillPhase ==
  ASSUME Inv, MovesNobody, NEW t \in Tasks, alive'[t] = alive[t],
         InQueue(t) \/ Active(t) \/ status'[t] = status[t]
  PROVE  Phase(t)' = Phase(t)
<1>1. alive[t] \in BOOLEAN
  BY DEF Inv, TypeOK
<1> QED
  BY <1>1, NobodyMoves, PhaseOf, PhaseOfNext

LEMMA Stutter ==
  ASSUME poolAlive' = poolAlive, queue' = queue, \A t \in Tasks : Phase(t)' = Phase(t)
  PROVE  UNCHANGED Contract!vars
  BY DEF Contract!vars

(* One task changes its phase. *)
LEMMA OnePhase ==
  ASSUME NEW q \in Tasks, NEW p, Phase(q)' = p, \A t \in Tasks \ {q} : Phase(t)' = Phase(t)
  PROVE  Phases' = [Phases EXCEPT ![q] = p]
  BY DEF Phases

(* What a task in a worker's hands, or in nobody's, looks like. *)
LEMMA HeldTask ==
  ASSUME Inv, NEW w \in Workers, wpc[w] \in Holding
  PROVE  LET t == wtask[w] IN
         /\ t \in Tasks /\ Holds(w, t) /\ ~InQueue(t) /\ alive[t]
         /\ \A v \in Workers \ {w} : ~(wpc[v] \in Holding /\ wtask[v] = t)
         /\ Active(t) <=> wpc[w] \in Unsettled
         /\ Reaped(t) <=> wpc[w] = "reap"
<1> DEFINE t == wtask[w]
<1>1. t \in Tasks /\ Holds(w, t)
  BY DEF Inv, WorkerInv, Holds
<1>2. ~InQueue(t) /\ \A v \in Workers \ {w} : ~(wpc[v] \in Holding /\ wtask[v] = t)
  BY <1>1 DEF Inv, PlaceInv, Holds
<1>3. alive[t]
  BY <1>1 DEF Inv, AliveInv, InHand
<1>4. Active(t) <=> wpc[w] \in Unsettled
  BY <1>1, <1>2 DEF Active, Unsettled, Holding
<1>5. Reaped(t) <=> wpc[w] = "reap"
  BY <1>1, <1>2 DEF Reaped, Holding
<1> QED
  BY <1>1, <1>2, <1>3, <1>4, <1>5

LEMMA LooseTask ==
  ASSUME NEW t \in Tasks, ~InHand(t)
  PROVE  ~InQueue(t) /\ ~Active(t) /\ ~Reaped(t)
  BY DEF InHand, Active, Reaped, Holds, Holding, Unsettled

-----------------------------------------------------------------------------
(* The workers.                                                              *)

(* A worker that is free to pop is not one of those with a task: there are    *)
(* fewer active tasks than threads.                                           *)
LEMMA RoomForOne ==
  ASSUME Inv, NEW w \in Workers, wpc[w] = "pop"
  PROVE  Cardinality({t \in Tasks : Phases[t] = "active"}) < MaxThreads
<1> DEFINE S == {t \in Tasks : Phases[t] = "active"}
           T == Workers \ {w}
           f == [t \in S |-> CHOOSE v \in Workers : wpc[v] \in Unsettled /\ wtask[v] = t]
<1>1. ASSUME NEW t \in S
      PROVE  f[t] \in T /\ wtask[f[t]] = t
  <2>1. Active(t)
    BY <1>1, PhaseOf DEF Phases, Phase, Active
  <2>2. f[t] \in Workers /\ wpc[f[t]] \in Unsettled /\ wtask[f[t]] = t
    BY <2>1 DEF Active
  <2> QED
    BY <2>2 DEF Unsettled
<1> HIDE DEF f
<1>2. f \in [S -> T]
  BY <1>1 DEF f
<1>3. f \in Injection(S, T)
  BY <1>1, <1>2 DEF Injection, IsInjective
<1>4. IsFiniteSet(Workers) /\ Cardinality(Workers) = MaxThreads
  BY ConstantsAssumption, ObjectsAssumption, FS_Interval DEF Workers
<1>5. IsFiniteSet(T) /\ Cardinality(T) = MaxThreads - 1
  BY <1>4, FS_RemoveElement
<1>6. IsFiniteSet(S) /\ Cardinality(S) <= Cardinality(T)
  BY <1>3, <1>5, FS_Injection
<1>7. Cardinality(S) \in Nat
  BY <1>6, FS_CardinalityType
<1> QED
  BY <1>5, <1>6, <1>7, ConstantsAssumption, ObjectsAssumption

(* A pop starts the oldest waiting task. *)
LEMMA PopStarts ==
  ASSUME Inv, NEW w \in Workers, Pop(w)
  PROVE  Contract!Start
<1> SUFFICES ASSUME NEW h, h = Head(queue)
             PROVE  Contract!Start
  OBVIOUS
<1>0. TypeOK /\ WorkerInv /\ PlaceInv /\ wpc[w] = "pop" /\ wpc'[w] = "start"
  BY DEF Inv, Pop, Goto, TypeOK
<1>1. /\ h \in Tasks /\ InQueue(h) /\ wtask'[w] = h
      /\ \A t \in Tasks : InQueue(t)' <=> InQueue(t) /\ t # h
      /\ \A v \in Workers \ {w} : wpc'[v] = wpc[v] /\ wtask'[v] = wtask[v]
  BY <1>0, PopMoves
<1>2. UNCHANGED <<status, alive, poolAlive>> /\ queue' = Tail(queue) /\ queue # <<>>
  BY DEF Pop, PopRest, taskVars
<1>3. poolAlive
  BY <1>0 DEF Inv, PoolInv
<1>4. Phase(h)' = "active"
  <2>1. ~InQueue(h)'
    BY <1>1
  <2>2. Active(h)'
    BY <1>0, <1>1 DEF Active, Unsettled
  <2> QED
    BY <1>1, <2>1, <2>2, PhaseOfNext
<1>5. ASSUME NEW t \in Tasks \ {h} PROVE Phase(t)' = Phase(t)
  <2>1. (Active(t)' <=> Active(t)) /\ (Reaped(t)' <=> Reaped(t)) /\ (InQueue(t)' <=> InQueue(t))
    BY <1>0, <1>1, <1>5 DEF Active, Reaped, Unsettled
  <2>2. alive[t] \in BOOLEAN /\ alive'[t] = alive[t] /\ status'[t] = status[t]
    BY <1>0, <1>2 DEF TypeOK
  <2> QED
    BY <2>1, <2>2, PhaseOf, PhaseOfNext
<1>6. Phases' = [Phases EXCEPT ![h] = "active"]
  BY <1>1, <1>4, <1>5, OnePhase
<1>7. Cardinality({t \in Tasks : Phases[t] = "active"}) < MaxThreads
  BY <1>0, RoomForOne
<1>8. \A S : Contract!Cardinality(S) = Cardinality(S)
  BY DEF Contract!Cardinality, Cardinality
<1> QED
  BY <1>2, <1>3, <1>6, <1>7, <1>8 DEF Contract!Start, Contract!InPhase, Phases

(* A worker that settles a task completes it: it is done, or, if it was       *)
(* detached, as good as freed.                                                *)
LEMMA SettleCompletes ==
  ASSUME Inv, NEW w \in Workers, Settle(w)
  PROVE  \E t \in Tasks : Contract!Complete(t)
<1> SUFFICES ASSUME NEW q, q = wtask[w]
             PROVE  \E t \in Tasks : Contract!Complete(t)
  OBVIOUS
<1>0. TypeOK /\ wpc[w] = "settle" /\ wpc[w] \in Holding /\ wpc[w] \in Unsettled
  BY DEF Inv, Settle, Holding, Unsettled
<1>1. /\ q \in Tasks /\ ~InQueue(q) /\ alive[q] /\ Active(q)
      /\ \A v \in Workers \ {w} : ~(wpc[v] \in Holding /\ wtask[v] = q)
  BY <1>0, HeldTask
<1>2. /\ wtask' = wtask /\ queue' = queue /\ alive' = alive /\ poolAlive' = poolAlive
      /\ wpc' = [wpc EXCEPT ![w] = SettledPc(q)]
      /\ status' = [status EXCEPT ![q] = IF detached[q] THEN "free" ELSE "finished"]
  BY DEF Settle, Goto, poolVars
<1>3. \A t \in Tasks : InQueue(t)' <=> InQueue(t)
  BY <1>2 DEF InQueue
<1>4. ~Active(q)' /\ (Reaped(q)' <=> detached[q])
  <2>1. wpc'[w] = IF detached[q] THEN "reap" ELSE "publish"
    BY <1>0, <1>2 DEF SettledPc, TypeOK
  <2>2. \A v \in Workers \ {w} : wpc'[v] = wpc[v]
    BY <1>0, <1>2 DEF TypeOK
  <2>3. \A v \in Workers \ {w} : ~(wpc'[v] \in Unsettled /\ wtask'[v] = q)
                                 /\ ~(wpc'[v] = "reap" /\ wtask'[v] = q)
    BY <1>1, <1>2, <2>2 DEF Holding, Unsettled
  <2>4. detached[q] \in BOOLEAN
    BY <1>0, <1>1 DEF TypeOK
  <2> QED
    BY <1>2, <2>1, <2>3, <2>4 DEF Active, Reaped, Unsettled
<1>5. Phase(q)' \in {"done", "absent"}
  <2>1. status'[q] = IF detached[q] THEN "free" ELSE "finished"
    BY <1>0, <1>1, <1>2 DEF TypeOK
  <2> QED
    BY <1>1, <1>2, <1>3, <1>4, <2>1, PhaseOfNext
<1>6. ASSUME NEW t \in Tasks \ {q} PROVE Phase(t)' = Phase(t)
  <2>1. \A v \in Workers : wtask'[v] = t => wpc'[v] = wpc[v]
    BY <1>0, <1>2, <1>6 DEF TypeOK
  <2>2. (Active(t)' <=> Active(t)) /\ (Reaped(t)' <=> Reaped(t))
    BY <1>2, <2>1 DEF Active, Reaped
  <2>3. alive[t] \in BOOLEAN /\ alive'[t] = alive[t] /\ status'[t] = status[t]
    BY <1>0, <1>2, <1>6 DEF TypeOK
  <2> QED
    BY <1>3, <2>2, <2>3, PhaseOf, PhaseOfNext
<1>7. Phases' = [Phases EXCEPT ![q] = Phase(q)']
  BY <1>1, <1>6, OnePhase
<1>8. Phases[q] = "active"
  BY <1>1, PhaseOf DEF Phases
<1>9. UNCHANGED <<queue, ~poolAlive>>
  BY <1>2
<1> QED
  BY <1>1, <1>5, <1>7, <1>8, <1>9 DEF Contract!Complete, Phases

(* A reaped task has been absent since it was settled. *)
LEMMA ReapStutters ==
  ASSUME Inv, NEW w \in Workers, Reap(w)
  PROVE  UNCHANGED Contract!vars
<1> SUFFICES ASSUME NEW q, q = wtask[w]
             PROVE  UNCHANGED Contract!vars
  OBVIOUS
<1>0. TypeOK /\ wpc[w] = "reap" /\ wpc[w] \in Holding /\ wpc[w] \notin Unsettled
  BY DEF Inv, Reap, Holding, Unsettled
<1>1. /\ q \in Tasks /\ ~InQueue(q) /\ ~Active(q) /\ Reaped(q)
      /\ \A v \in Workers \ {w} : ~(wpc[v] \in Holding /\ wtask[v] = q)
  BY <1>0, HeldTask
<1>2. /\ queue' = queue /\ poolAlive' = poolAlive /\ status' = status
      /\ alive' = [alive EXCEPT ![q] = FALSE]
      /\ wpc'[w] = "uncount"
      /\ \A v \in Workers \ {w} : wpc'[v] = wpc[v] /\ wtask'[v] = wtask[v]
  BY <1>0 DEF Reap, Goto, poolVars, TypeOK
<1>3. \A t \in Tasks : InQueue(t)' <=> InQueue(t)
  BY <1>2 DEF InQueue
<1>4. Phase(q)' = Phase(q)
  <2>1. ~Active(q)'
    BY <1>1, <1>2 DEF Active, Unsettled, Holding
  <2>2. ~alive'[q]
    BY <1>0, <1>1, <1>2 DEF TypeOK
  <2> QED
    BY <1>1, <1>3, <2>1, <2>2, PhaseOf, PhaseOfNext
<1>5. ASSUME NEW t \in Tasks \ {q} PROVE Phase(t)' = Phase(t)
  <2>1. Active(t)' <=> Active(t)
    BY <1>0, <1>2, <1>5 DEF Active, Unsettled
  <2>2. Reaped(t)' <=> Reaped(t)
    BY <1>0, <1>2, <1>5 DEF Reaped
  <2>3. alive[t] \in BOOLEAN /\ alive'[t] = alive[t] /\ status'[t] = status[t]
    BY <1>0, <1>2, <1>5 DEF TypeOK
  <2> QED
    BY <1>3, <2>1, <2>2, <2>3, PhaseOf, PhaseOfNext
<1> QED
  BY <1>2, <1>4, <1>5, Stutter

(* Nothing else a worker does shows from outside: a task it starts, counts or *)
(* runs stays active.                                                         *)
LEMMA WorkerStutters ==
  ASSUME Inv, NEW w \in Workers, WorkerStep(w), ~Pop(w), ~Settle(w), ~Reap(w)
  PROVE  UNCHANGED Contract!vars
<1>0. TypeOK
  BY DEF Inv
<1>1. alive' = alive /\ poolAlive' = poolAlive /\ queue' = queue
  BY DEF WorkerStep, Worker, PopNothing, CheckDeleting, WaitForTask, WakeUp, WakeUnsignalled, Start, CountIn, Execute,
         Publish, CountOut, poolVars, taskVars
<1>2. MovesNobody
  BY <1>0, <1>1 DEF WorkerStep, Worker, PopNothing, CheckDeleting, WaitForTask, WakeUp, WakeUnsignalled, Start, CountIn,
         Execute, Publish, CountOut, Goto, MovesNobody, Shown, Unsettled, TypeOK
<1>3. ASSUME NEW t \in Tasks PROVE Active(t) \/ status'[t] = status[t]
  BY <1>0 DEF WorkerStep, Worker, PopNothing, CheckDeleting, WaitForTask, WakeUp, WakeUnsignalled, Start, CountIn, Execute,
         Publish, CountOut, taskVars, Active, Unsettled, TypeOK
<1> QED
  BY <1>1, <1>2, <1>3, StillPhase, Stutter

-----------------------------------------------------------------------------
(* The client.                                                               *)

(* But for the push, its calls move no task: they change a phase only through *)
(* status and alive.                                                          *)
LEMMA ClientMovesNobody ==
  ASSUME Inv, BeginCall \/ (CallStep /\ ~Enqueue)
  PROVE  MovesNobody
<1>1. /\ queue' = queue /\ wtask' = wtask
      /\ \A v \in Workers :
           wpc'[v] = wpc[v] \/ (wpc[v] \notin Holding /\ wpc'[v] \notin Holding)
  BY StillClient DEF Inv
<1>2. Shown \subseteq Holding
  BY DEF Shown, Unsettled, Holding
<1> QED
  BY <1>1, <1>2 DEF MovesNobody

LEMMA ClientStutters ==
  ASSUME Inv, BeginCall \/ (CallStep /\ ~Enqueue), UNCHANGED <<alive, status, poolAlive>>
  PROVE  UNCHANGED Contract!vars
<1>1. MovesNobody /\ queue' = queue
  BY ClientMovesNobody DEF MovesNobody
<1> QED
  BY <1>1, StillPhase, Stutter

(* A client's step that changes one task, which is not in the pool. *)
LEMMA ClientPhase ==
  ASSUME Inv, BeginCall \/ (CallStep /\ ~Enqueue), poolAlive' = poolAlive,
         NEW q \in Tasks, ~InQueue(q), ~Active(q), ~Reaped(q),
         \A t \in Tasks \ {q} : alive'[t] = alive[t] /\ status'[t] = status[t],
         alive'[q] \in BOOLEAN
  PROVE  LET p == IF ~alive'[q] THEN "absent"
                  ELSE IF status'[q] = "finished" THEN "done" ELSE "ready"
         IN /\ Phases[q] = IF ~alive[q] THEN "absent"
                           ELSE IF status[q] = "finished" THEN "done" ELSE "ready"
            /\ Phases' = [Phases EXCEPT ![q] = p]
            /\ UNCHANGED <<queue, ~poolAlive>>
<1>1. MovesNobody /\ queue' = queue
  BY ClientMovesNobody DEF MovesNobody
<1>2. \A t \in Tasks \ {q} : Phase(t)' = Phase(t)
  BY <1>1, StillPhase
<1>3. ~InQueue(q) /\ ~Active(q) /\ ~Reaped(q) /\ ~InQueue(q)' /\ ~Active(q)' /\ ~Reaped(q)'
  BY <1>1, NobodyMoves
<1>4. alive[q] \in BOOLEAN
  BY DEF Inv, TypeOK
<1>5. Phase(q) = IF ~alive[q] THEN "absent" ELSE IF status[q] = "finished" THEN "done" ELSE "ready"
  BY <1>3, <1>4, PhaseOf
<1>6. Phase(q)' = IF ~alive'[q] THEN "absent"
                  ELSE IF status'[q] = "finished" THEN "done" ELSE "ready"
  BY <1>3, PhaseOfNext
<1>7. Phases' = [Phases EXCEPT ![q] = Phase(q)']
  BY <1>2, OnePhase
<1> QED
  BY <1>1, <1>5, <1>6, <1>7 DEF Phases

(* Creating, deleting and beginning to push a task. *)
LEMMA BeginCallRefines ==
  ASSUME Inv, BeginCall
  PROVE  Contract!Next \/ UNCHANGED Contract!vars
<1>0. TypeOK
  BY DEF Inv
<1>1. ASSUME NEW q \in Tasks, TaskNew(q) PROVE Contract!Create(q)
  <2>1. /\ ~alive[q] /\ alive' = [alive EXCEPT ![q] = TRUE] /\ poolAlive' = poolAlive
        /\ status' = [status EXCEPT ![q] = "free"]
    BY <1>1 DEF TaskNew, poolVars
  <2>2. /\ ~InHand(q) /\ alive'[q] = TRUE /\ status'[q] = "free"
        /\ \A t \in Tasks \ {q} : alive'[t] = alive[t] /\ status'[t] = status[t]
    BY <1>0, <2>1, LooseTasks DEF TypeOK
  <2>3. Phases[q] = "absent" /\ Phases' = [Phases EXCEPT ![q] = "ready"]
        /\ UNCHANGED <<queue, ~poolAlive>>
    BY <2>1, <2>2, LooseTask, ClientPhase
  <2> QED
    BY <2>3 DEF Contract!Create, Phases
<1>2. ASSUME NEW q \in Tasks, TaskDelete(q), alive' # alive PROVE Contract!Delete(q)
  <2>1. /\ handle[q] = "idle" /\ alive' = [alive EXCEPT ![q] = FALSE]
        /\ status' = status /\ poolAlive' = poolAlive
    BY <1>0, <1>2 DEF TaskDelete, poolVars, Inv, HandleInv, TypeOK, Handles
  <2>2. /\ ~InHand(q) /\ alive[q] /\ alive'[q] = FALSE
        /\ \A t \in Tasks \ {q} : alive'[t] = alive[t] /\ status'[t] = status[t]
    BY <1>0, <2>1, LooseTasks DEF TypeOK, Inv, AliveInv
  <2>3. Phases[q] \in {"ready", "done"} /\ Phases' = [Phases EXCEPT ![q] = "absent"]
        /\ UNCHANGED <<queue, ~poolAlive>>
    BY <2>1, <2>2, LooseTask, ClientPhase
  <2> QED
    BY <2>3 DEF Contract!Delete, Phases
<1>3. ASSUME NEW q \in Tasks, PushBegin(q), status' # status
      PROVE  Contract!Reset(q) \/ UNCHANGED Contract!vars
  <2>1. /\ handle[q] = "idle" /\ alive' = alive /\ poolAlive' = poolAlive
        /\ status' = [status EXCEPT ![q] = "pushed"]
    BY <1>3 DEF PushBegin, poolVars
  <2>2. /\ ~InHand(q) /\ alive[q] /\ alive'[q] \in BOOLEAN /\ alive'[q] /\ status'[q] = "pushed"
        /\ \A t \in Tasks \ {q} : alive'[t] = alive[t] /\ status'[t] = status[t]
    BY <1>0, <2>1, LooseTasks DEF TypeOK, Inv, AliveInv
  <2>3. /\ Phases[q] = IF status[q] = "finished" THEN "done" ELSE "ready"
        /\ Phases' = [Phases EXCEPT ![q] = "ready"]
        /\ UNCHANGED <<queue, ~poolAlive>>
    BY <2>1, <2>2, LooseTask, ClientPhase
  <2>4. CASE status[q] = "finished"
    BY <2>3, <2>4 DEF Contract!Reset, Phases
  <2>5. CASE status[q] # "finished"
    <3>1. Phases' = Phases
      BY <2>3, <2>5 DEF Phases
    <3> QED
      BY <2>3, <3>1 DEF Phases, Contract!vars
  <2> QED
    BY <2>4, <2>5
<1>4. CASE UNCHANGED <<alive, status, poolAlive>>
  BY <1>4, ClientStutters
<1> QED
  BY <1>1, <1>2, <1>3, <1>4, BeginCallFrame
  DEF BeginCall, TaskDelete, PushBegin, TimedJoinNegative, DetachBegin, JoinBegin,
      PoolDeleteBegin, taskVars, poolVars, Contract!Next

(* A push puts a task behind the waiting ones. *)
LEMMA EnqueuePushes ==
  ASSUME Inv, Enqueue
  PROVE  \E t \in Tasks : Contract!Push(t)
<1> SUFFICES ASSUME NEW q, q = call.task
             PROVE  \E t \in Tasks : Contract!Push(t)
  OBVIOUS
<1>0. TypeOK
  BY DEF Inv
<1>1. /\ q \in Tasks /\ handle[q] = "idle" /\ status[q] = "pushed" /\ poolAlive
      /\ alive' = alive /\ status' = status /\ poolAlive' = poolAlive
      /\ queue' = Append(queue, q)
  BY <1>0, CallShape DEF Enqueue, Inv, CallInv, PoolInv, At
<1>2. /\ \A t \in Tasks : InQueue(t)' <=> InQueue(t) \/ t = q
      /\ \A v \in Workers : (wpc'[v] = wpc[v] \/ (wpc[v] = "waiting" /\ wpc'[v] = "woken"))
                            /\ wtask'[v] = wtask[v]
  BY <1>0, EnqueueMoves
<1>3. \A t \in Tasks : (Active(t)' <=> Active(t)) /\ (Reaped(t)' <=> Reaped(t))
  BY <1>2 DEF Active, Reaped, Unsettled
<1>4. Phase(q) = "ready"
  <2>1. ~InHand(q) /\ alive[q]
    BY <1>1, LooseTasks DEF Inv, AliveInv
  <2> QED
    BY <1>1, <2>1, LooseTask, PhaseOf
<1>5. Phase(q)' = "waiting"
  BY <1>1, <1>2, PhaseOfNext
<1>6. ASSUME NEW t \in Tasks \ {q} PROVE Phase(t)' = Phase(t)
  <2>1. alive[t] \in BOOLEAN
    BY <1>0 DEF TypeOK
  <2> QED
    BY <1>1, <1>2, <1>3, <1>6, <2>1, PhaseOf, PhaseOfNext
<1>7. Phases' = [Phases EXCEPT ![q] = "waiting"]
  BY <1>1, <1>5, <1>6, OnePhase
<1> QED
  BY <1>1, <1>4, <1>7 DEF Contract!Push, Phases

(* A join waits, detach gives up a result or frees a task, and the pool goes  *)
(* away when its threads have gone.                                           *)
LEMMA InCallRefines ==
  ASSUME Inv, RestInv, CallStep, ~Enqueue
  PROVE  Contract!Next \/ UNCHANGED Contract!vars
<1>0. TypeOK
  BY DEF Inv
<1>1. CASE JoinStore
  <2>1. /\ call.task \in Tasks /\ call.op \in Joins /\ status[call.task] # "free"
        /\ ~At("push", "enqueue")
        /\ UNCHANGED <<alive, poolAlive, queue>>
        /\ \A t \in Tasks : t # call.task => status'[t] = status[t]
        /\ status'[call.task] = "finished"
    BY <1>0, <1>1, CallShape DEF JoinStore, Joins, At, Inv, CallInv, poolVars, TypeOK
  <2>2. InQueue(call.task) \/ Active(call.task) \/ status[call.task] = "finished"
    <3>1. ASSUME NEW w \in Workers, Holds(w, call.task)
          PROVE  Active(call.task) \/ status[call.task] = "finished"
      <4>1. StatusFits(w) /\ wpc[w] \in Holding /\ wtask[w] = call.task
        BY <3>1 DEF Inv, PlaceInv, Holds
      <4> QED
        BY <2>1, <4>1 DEF StatusFits, Holding, Unsettled, Active
    <3>2. CASE ~InHand(call.task)
      BY <2>1, <3>2 DEF RestInv, AtRest
    <3> QED
      BY <3>1, <3>2 DEF InHand
  <2>3. MovesNobody
    BY <1>1, ClientMovesNobody DEF JoinStore, Enqueue, At, Joins
  <2>4. ASSUME NEW t \in Tasks PROVE Phase(t)' = Phase(t)
    BY <2>1, <2>2, <2>3, StillPhase
  <2> QED
    BY <2>1, <2>4, Stutter
<1>6. CASE TaskDeleteSecond /\ status[call.task] = "finished"
  <2> SUFFICES ASSUME NEW q, q = call.task PROVE Contract!Next
    OBVIOUS
  <2>1. /\ q \in Tasks /\ alive[q] /\ status[q] = "finished"
        /\ alive' = [alive EXCEPT ![q] = FALSE] /\ poolAlive' = poolAlive /\ status' = status
    BY <1>0, <1>6, CallShape DEF TaskDeleteSecond, At, poolVars, Inv, AliveInv
  <2>2. /\ ~InQueue(q) /\ ~Active(q) /\ ~Reaped(q) /\ alive'[q] = FALSE
        /\ \A t \in Tasks \ {q} : alive'[t] = alive[t] /\ status'[t] = status[t]
    BY <1>0, <2>1, FinishedTask DEF TypeOK, Active, Reaped, Holds, Holding, Unsettled
  <2>3. Phases[q] = "done" /\ Phases' = [Phases EXCEPT ![q] = "absent"]
        /\ UNCHANGED <<queue, ~poolAlive>>
    BY <2>1, <2>2, ClientPhase
  <2>4. Contract!Delete(q)
    BY <2>3 DEF Contract!Delete, Phases
  <2> QED
    BY <2>1, <2>4 DEF Contract!Next
<1>2. CASE Detach /\ status' # status
  <2> SUFFICES ASSUME NEW q, q = call.task PROVE Contract!Next
    OBVIOUS
  <2>1. /\ q \in Tasks /\ alive[q] /\ status[q] = "finished" /\ TaskMutexFree(q)
        /\ alive' = alive /\ poolAlive' = poolAlive
        /\ status' = [status EXCEPT ![q] = "free"]
    BY <1>0, <1>2, CallShape DEF Detach, DetachFrees, At, poolVars, Inv, AliveInv
  <2>2. /\ ~InHand(q) /\ alive'[q] \in BOOLEAN /\ alive'[q] /\ status'[q] = "free"
        /\ \A t \in Tasks \ {q} : alive'[t] = alive[t] /\ status'[t] = status[t]
    BY <1>0, <2>1, LooseTasks DEF TypeOK
  <2>3. Phases[q] = "done" /\ Phases' = [Phases EXCEPT ![q] = "ready"]
        /\ UNCHANGED <<queue, ~poolAlive>>
    BY <2>1, <2>2, LooseTask, ClientPhase
  <2>4. Contract!Reset(q)
    BY <2>3 DEF Contract!Reset, Phases
  <2> QED
    BY <2>1, <2>4 DEF Contract!Next
<1>3. CASE DetachFree
  <2> SUFFICES ASSUME NEW q, q = call.task PROVE Contract!Next
    OBVIOUS
  <2>1. /\ q \in Tasks /\ alive[q] /\ status[q] = "free" /\ ~InHand(q)
        /\ alive' = [alive EXCEPT ![q] = FALSE] /\ poolAlive' = poolAlive /\ status' = status
    BY <1>0, <1>3, CallShape DEF DetachFree, At, poolVars, Inv, AliveInv, CallInv
  <2>2. /\ alive'[q] = FALSE
        /\ \A t \in Tasks \ {q} : alive'[t] = alive[t] /\ status'[t] = status[t]
    BY <1>0, <2>1 DEF TypeOK
  <2>3. Phases[q] = "ready" /\ Phases' = [Phases EXCEPT ![q] = "absent"]
        /\ UNCHANGED <<queue, ~poolAlive>>
    BY <2>1, <2>2, LooseTask, ClientPhase
  <2>4. Contract!Delete(q)
    BY <2>3 DEF Contract!Delete, Phases
  <2> QED
    BY <2>1, <2>4 DEF Contract!Next
<1>4. CASE PoolDeleteReap
  <2>1. /\ poolAlive /\ queue = <<>> /\ poolAlive' = FALSE /\ queue' = queue
        /\ UNCHANGED <<alive, status>>
    BY <1>4 DEF PoolDeleteReap, At, Inv, PoolInv, taskVars
  <2>2. \A w \in Workers : wpc[w] \notin Unsettled
    <3> SUFFICES ASSUME NEW w \in Workers PROVE wpc[w] \in {"none", "exited"}
      BY DEF Unsettled
    <3> QED
      BY <1>0, <1>4, ConstantsAssumption, ObjectsAssumption
      DEF PoolDeleteReap, ThreadsJoined, Inv, WorkerInv, Workers, TypeOK
  <2>3. \A t \in Tasks : Phases[t] \notin {"waiting", "active"}
    <3> SUFFICES ASSUME NEW t \in Tasks PROVE Phase(t) \notin {"waiting", "active"}
      BY DEF Phases
    <3>1. ~InQueue(t) /\ ~Active(t)
      BY <2>1, <2>2 DEF InQueue, Active
    <3>2. alive[t] \in BOOLEAN
      BY <1>0 DEF TypeOK
    <3> QED
      BY <3>1, <3>2, PhaseOf
  <2>4. Phases' = Phases
    <3>1. MovesNobody
      BY ClientMovesNobody
    <3> QED
      BY <2>1, <3>1, StillPhase DEF Phases
  <2>5. Contract!Close
    BY <2>1, <2>3, <2>4 DEF Contract!Close, Contract!InPhase, Phases
  <2> QED
    BY <2>5 DEF Contract!Next
<1>5. CASE UNCHANGED <<alive, status, poolAlive>>
  BY <1>5, ClientStutters
<1> QED
  BY <1>1, <1>2, <1>3, <1>4, <1>5, <1>6
  DEF CallStep, InCall, TaskDeleteSecond, Spawn, JoinLock, JoinWake, JoinWakeUnsignalled, Expire, Detach, PoolDeleteRunning, PoolDeleteClose,
      PoolDeleteBroadcast, taskVars, poolVars

-----------------------------------------------------------------------------
(* For any number of tasks, threads and pushes: tasks start in the order of   *)
(* their pushes, no more than max_threads_count at once, each push leads to   *)
(* one run at most, and the pool is freed when it holds no task               *)
(* (4/thread_pool.h).                                                         *)
THEOREM PoolKeepsItsContract == Spec => ImplementsTaskPool
<1>1. Init => Contract!Init
  BY DEF Init, Contract!Init, Phase, InQueue, Unsettled
<1>2. PoolSound /\ [Next]_vars => [Contract!Next]_(Contract!vars)
  <2> SUFFICES ASSUME PoolSound, [Next]_vars
               PROVE  Contract!Next \/ UNCHANGED Contract!vars
    OBVIOUS
  <2>1. CASE Aftermath \/ UNCHANGED vars
    <3>1. UNCHANGED vars
      BY <2>1, AftermathStays
    <3>2. UNCHANGED <<queue, alive, status, poolAlive, wpc, wtask>>
      BY <3>1 DEF vars, poolVars, taskVars, workerVars
    <3>3. \A t \in Tasks : Phase(t)' = Phase(t)
      BY <3>2 DEF Phase, InQueue
    <3> QED
      BY <3>2, <3>3, Stutter
  <2>2. CASE Inv /\ RestInv /\ Next
    <3>1. ASSUME NEW w \in Workers, WorkerStep(w)
          PROVE  Contract!Next \/ UNCHANGED Contract!vars
      BY <2>2, <3>1, PopStarts, SettleCompletes, ReapStutters, WorkerStutters DEF Contract!Next
    <3>2. CASE CallStep
      BY <2>2, <3>2, EnqueuePushes, InCallRefines DEF Contract!Next
    <3> QED
      BY <2>2, <3>1, <3>2, BeginCallRefines DEF Next, WorkerStep, CallStep
  <2> QED
    BY <2>1, <2>2 DEF PoolSound
<1> QED
  BY <1>1, <1>2, Invariance, PTL DEF Spec, ImplementsTaskPool, Contract!Spec

-----------------------------------------------------------------------------
(* The linked list behind `queue'. *)

(* What the list keeps is inductive together with the types: the order of   *)
(* the pointers needs that no task is linked in twice.                      *)
QueueInv == QueueTypeOK /\ PointersSpellQueue /\ LinkedOnce

(* The initial state is an empty, well-typed list. *)
LEMMA QueueInitInv == QueueInit => QueueInv
  BY ObjectsAssumption
  DEF QueueInit, QueueInv, QueueTypeOK, PointersSpellQueue, LinkedOnce, Queued, Pointers

(* A push links the task in behind the last one and nowhere else. *)
LEMMA PushBackInv ==
  ASSUME QueueInv, NEW p \in Pushers, PushBack(p)
  PROVE  QueueInv'
<1> USE ObjectsAssumption DEF Pointers
<1> DEFINE t == admitted[p]
<1>1. t \in Tasks
  BY DEF PushBack, QueueInv, QueueTypeOK
<1>2. /\ contents' = Append(contents, t)
      /\ contents' \in Seq(Tasks)
      /\ Len(contents') = size + 1
      /\ \A i \in 1..size : contents'[i] = contents[i]
      /\ contents'[size + 1] = t
  BY <1>1, AppendProperties DEF PushBack, QueueInv, QueueTypeOK, PointersSpellQueue
<1>3. \A i \in 1..size : contents[i] \in Tasks /\ contents[i] # t
  <2>1. ~Queued(t)
    BY DEF QueueInv, LinkedOnce, PushBack
  <2> QED
    BY <2>1 DEF QueueInv, QueueTypeOK, PointersSpellQueue, Queued
<1>4. QueueTypeOK'
  BY <1>1, <1>2 DEF PushBack, QueueInv, QueueTypeOK
<1>5. PointersSpellQueue'
  <2>1. size' = size + 1 /\ size \in Nat /\ tail' = t
    BY DEF PushBack, QueueInv, QueueTypeOK
  <2>2. head' = contents'[1]
    <3>1. CASE size = 0
      BY <3>1, <1>2 DEF PushBack, ListIsEmpty
    <3>2. CASE size # 0
      BY <3>2, <1>2, <2>1 DEF PushBack, ListIsEmpty, QueueInv, PointersSpellQueue
    <3> QED BY <3>1, <3>2
  <2>3. \A i \in 1..size : next'[contents'[i]] = contents'[i + 1]
    <3>1. CASE size = 0
      BY <3>1
    <3>2. CASE size # 0
      <4>1. tail = contents[size] /\ next' = [next EXCEPT ![tail] = t]
        BY <3>2, <2>1 DEF PushBack, ListIsEmpty, QueueInv, PointersSpellQueue
      <4> SUFFICES ASSUME NEW i \in 1..size
                   PROVE  next'[contents'[i]] = contents'[i + 1]
        OBVIOUS
      <4>2. CASE i = size
        BY <4>1, <4>2, <1>2, <1>3, <2>1 DEF QueueInv, QueueTypeOK
      <4>3. CASE i # size
        <5>1. contents[i] # contents[size]
          BY <4>3, <2>1 DEF QueueInv, LinkedOnce, PointersSpellQueue
        <5> QED
          BY <5>1, <4>1, <4>3, <1>2, <1>3, <2>1 DEF QueueInv, QueueTypeOK, PointersSpellQueue
      <4> QED BY <4>2, <4>3
    <3> QED BY <3>1, <3>2
  <2> QED
    BY <1>2, <2>1, <2>2, <2>3 DEF PointersSpellQueue
<1>6. LinkedOnce'
  <2>1. size \in Nat /\ size = Len(contents)
    BY DEF QueueInv, QueueTypeOK, PointersSpellQueue
  <2>2. \A i, j \in 1..Len(contents') : contents'[i] = contents'[j] => i = j
    BY <1>2, <1>3, <2>1 DEF QueueInv, LinkedOnce
  <2>3. \A q \in Pushers : admitted'[q] # NoTask => q # p /\ admitted'[q] = admitted[q]
    BY DEF PushBack, QueueInv, QueueTypeOK
  <2>4. \A q \in Pushers : admitted'[q] # NoTask => admitted'[q] # t
    BY <2>3, <1>1 DEF QueueInv, LinkedOnce
  <2>5. \A q \in Pushers : admitted'[q] # NoTask =>
          \A i \in 1..Len(contents') : contents'[i] # admitted'[q]
    BY <2>1, <2>3, <2>4, <1>2 DEF QueueInv, LinkedOnce, Queued
  <2>6. \A q, r \in Pushers :
          admitted'[q] = admitted'[r] /\ admitted'[q] # NoTask => q = r
    BY <2>3 DEF QueueInv, LinkedOnce
  <2> QED
    BY <2>2, <2>5, <2>6 DEF LinkedOnce, Queued
<1> QED
  BY <1>4, <1>5, <1>6 DEF QueueInv

(* A pop takes the first task out and leaves the rest linked as it was. *)
LEMMA PopFrontInv ==
  ASSUME QueueInv, NEW c \in Poppers, PopFront(c)
  PROVE  QueueInv' /\ head = Head(contents) /\ contents # <<>>
<1> USE ObjectsAssumption DEF Pointers
<1>1. /\ size \in Nat /\ size > 0 /\ size = Len(contents)
      /\ contents \in Seq(Tasks) /\ contents # <<>>
  BY EmptySeq DEF PopFront, QueueInv, QueueTypeOK, PointersSpellQueue
<1>2. head = contents[1] /\ head = Head(contents) /\ head \in Tasks
  BY <1>1 DEF QueueInv, PointersSpellQueue, QueueTypeOK
<1>3. /\ contents' = Tail(contents)
      /\ contents' \in Seq(Tasks)
      /\ Len(contents') = size - 1
      /\ \A i \in 1..(size - 1) : contents'[i] = contents[i + 1]
  BY <1>1, HeadTailProperties DEF PopFront
<1>4. QueueTypeOK'
  BY <1>1, <1>2, <1>3 DEF PopFront, HeadAfterPop, QueueInv, QueueTypeOK
<1>5. PointersSpellQueue'
  <2>1. size' = size - 1 /\ head' = next[contents[1]] /\ UNCHANGED <<tail, next>>
    BY <1>2 DEF PopFront, HeadAfterPop
  <2>2. size' > 0 => head' = contents'[1] /\ tail' = contents'[size']
    BY <1>1, <1>3, <2>1 DEF QueueInv, PointersSpellQueue
  <2>3. ASSUME NEW i \in 1..(size' - 1)
        PROVE  next'[contents'[i]] = contents'[i + 1]
    <3>1. i + 1 \in 1..(size - 1) /\ i \in 1..(size - 1)
      BY <2>1, <1>1
    <3>2. next[contents[i + 1]] = contents[(i + 1) + 1]
      BY <3>1 DEF QueueInv, PointersSpellQueue
    <3> QED
      BY <3>1, <3>2, <1>3, <2>1
  <2> QED
    BY <1>3, <2>1, <2>2, <2>3 DEF PointersSpellQueue
<1>6. LinkedOnce'
  <2>1. \A t : Queued(t)' => Queued(t)
    BY <1>1, <1>3 DEF Queued
  <2>2. \A i, j \in 1..Len(contents') : contents'[i] = contents'[j] => i = j
    BY <1>1, <1>3 DEF QueueInv, LinkedOnce
  <2> QED
    BY <2>1, <2>2 DEF PopFront, QueueInv, LinkedOnce
<1> QED
  BY <1>1, <1>2, <1>4, <1>5, <1>6 DEF QueueInv

(* The remaining steps touch no task that is linked in. *)
LEMMA OtherStepsInv ==
  ASSUME QueueInv,
         \/ \E t \in Tasks : Reallocate(t)
         \/ \E p \in Pushers, t \in Tasks : Admit(p, t)
         \/ \E c \in Poppers : PopNull(c)
         \/ UNCHANGED queueVars
  PROVE  QueueInv'
<1> USE ObjectsAssumption DEF Pointers
<1>1. ASSUME NEW t \in Tasks, Reallocate(t) PROVE QueueInv'
  <2>1. PICK q \in Pointers : next' = [next EXCEPT ![t] = q]
    BY <1>1 DEF Reallocate
  <2>2. size \in Nat /\ size = Len(contents) /\ contents \in Seq(Tasks)
    BY DEF QueueInv, QueueTypeOK, PointersSpellQueue
  <2>3. \A i \in 1..size : contents[i] \in Tasks /\ contents[i] # t
    BY <1>1, <2>2 DEF Reallocate, Loose, Queued
  <2>4. UNCHANGED <<head, tail, size, admitted, got, contents>>
    BY <1>1 DEF Reallocate
  <2>5. \A i \in 1..(size - 1) : next'[contents[i]] = next[contents[i]]
    BY <2>1, <2>2, <2>3 DEF QueueInv, QueueTypeOK
  <2> QED
    BY <2>1, <2>2, <2>4, <2>5 DEF QueueInv, QueueTypeOK, PointersSpellQueue, LinkedOnce, Queued
<1>2. ASSUME NEW p \in Pushers, NEW t \in Tasks, Admit(p, t) PROVE QueueInv'
  BY <1>2 DEF Admit, Loose, QueueInv, QueueTypeOK, PointersSpellQueue, LinkedOnce, Queued
<1>3. ASSUME NEW c \in Poppers, PopNull(c) PROVE QueueInv'
  BY <1>3 DEF PopNull, QueueInv, QueueTypeOK, PointersSpellQueue, LinkedOnce, Queued
<1>4. CASE UNCHANGED queueVars
  BY <1>4 DEF queueVars, QueueInv, QueueTypeOK, PointersSpellQueue, LinkedOnce, Queued
<1> QED
  BY <1>1, <1>2, <1>3, <1>4

(* Every step keeps the invariant. *)
LEMMA QueueNextInv == QueueInv /\ [QueueNext]_queueVars => QueueInv'
<1> SUFFICES ASSUME QueueInv, [QueueNext]_queueVars PROVE QueueInv'
  OBVIOUS
<1>1. ASSUME NEW p \in Pushers, PushBack(p) PROVE QueueInv'
  BY <1>1, PushBackInv
<1>2. ASSUME NEW c \in Poppers, PopFront(c) PROVE QueueInv'
  BY <1>2, PopFrontInv
<1> QED
  BY <1>1, <1>2, OtherStepsInv DEF QueueNext

(* The list is well-formed in every state: head, tail, size and next spell   *)
(* exactly the tasks pushed and not yet popped, each linked in once, although *)
(* no pointer is ever cleared.                                               *)
THEOREM QueueInvariant == QueueSpec => []QueueInv
  BY QueueInitInv, QueueNextInv, PTL DEF QueueSpec

(* head, tail and next spell the pushed tasks, for any number of threads pushing
   and popping (queue_push_back and queue_pop_front). *)
THEOREM PointersAreRight == QueueSpec => []PointersSpellQueue
<1>1. QueueInv => PointersSpellQueue
  BY DEF QueueInv
<1> QED
  BY <1>1, QueueInvariant, PTL

(* Every step of the list is a step of the abstract queue or none: what a pop *)
(* returns is the oldest task pushed, and null only from an empty queue.      *)
THEOREM QueueImplementsFifo == QueueSpec => ImplementsFifo
<1> USE ObjectsAssumption DEF Pointers
<1>1. QueueInit => Abstract!Init
  BY DEF QueueInit, Abstract!Init
<1>2. QueueInv /\ [QueueNext]_queueVars => [Abstract!Next]_(Abstract!vars)
  <2> SUFFICES ASSUME QueueInv, [QueueNext]_queueVars
               PROVE  Abstract!Next \/ UNCHANGED <<contents, got>>
    BY DEF Abstract!vars
  <2> USE DEF QueueInv, QueueTypeOK
  <2>1. ASSUME NEW p \in Pushers, PushBack(p)
        PROVE  Abstract!Put(admitted[p]) /\ admitted[p] \in Tasks
    <3>1. admitted[p] \in Tasks /\ ~Queued(admitted[p])
      BY <2>1 DEF PushBack, LinkedOnce
    <3> QED
      BY <2>1, <3>1 DEF PushBack, Queued, Abstract!Put
  <2>2. ASSUME NEW c \in Poppers, PopFront(c)
        PROVE  Abstract!Get(c)
    BY <2>2, PopFrontInv DEF PopFront, Abstract!Get
  <2>3. ASSUME NEW c \in Poppers, PopNull(c)
        PROVE  Abstract!GetNothing(c)
    BY <2>3, EmptySeq DEF PopNull, PointersSpellQueue, Abstract!GetNothing
  <2>4. CASE \/ \E t \in Tasks : Reallocate(t)
             \/ \E p \in Pushers, t \in Tasks : Admit(p, t)
             \/ UNCHANGED queueVars
    BY <2>4 DEF Reallocate, Admit, queueVars
  <2> QED
    BY <2>1, <2>2, <2>3, <2>4 DEF QueueNext, Abstract!Next
<1> QED
  BY <1>1, <1>2, QueueInvariant, PTL DEF QueueSpec, ImplementsFifo, Abstract!Spec

(* With one thread that pushes, nothing comes between its look at the size and *)
(* its push that could make the list longer.                                   *)
OnePusher == \A p, q \in Pushers : p = q
Room ==
  /\ size <= MaxTasks
  /\ \A p \in Pushers : admitted[p] # NoTask => size < MaxTasks

LEMMA NextRoom ==
  ASSUME OnePusher, QueueInv, Room, [QueueNext]_queueVars
  PROVE  Room'
<1> USE ObjectsAssumption DEF Room
<1>0. size \in Nat /\ admitted \in [Pushers -> Pointers]
  BY DEF QueueInv, QueueTypeOK
<1>1. ASSUME NEW p \in Pushers, PushBack(p) PROVE Room'
  <2>1. size < MaxTasks /\ size' = size + 1 /\ admitted' = [admitted EXCEPT ![p] = NoTask]
    BY <1>1 DEF PushBack
  <2>2. \A q \in Pushers : admitted'[q] = NoTask
    BY <1>0, <2>1 DEF OnePusher
  <2> QED
    BY <1>0, <2>1, <2>2
<1>2. ASSUME NEW p \in Pushers, NEW t \in Tasks, Admit(p, t) PROVE Room'
  BY <1>0, <1>2 DEF Admit, HasRoom
<1>3. ASSUME NEW c \in Poppers, PopFront(c) PROVE Room'
  BY <1>0, <1>3 DEF PopFront
<1>4. CASE \/ \E t \in Tasks : Reallocate(t)
           \/ \E c \in Poppers : PopNull(c)
           \/ UNCHANGED queueVars
  BY <1>4 DEF Reallocate, PopNull, queueVars
<1> QED
  BY <1>1, <1>2, <1>3, <1>4 DEF QueueNext

(* The limit of thread_pool.h:70 holds for one pushing thread and any number  *)
(* of popping ones, although thread_pool_push_task looks at the size without  *)
(* the mutex and refuses only when it is equal to the limit.                  *)
THEOREM OnePusherKeepsTheLimit == OnePusher /\ QueueSpec => []QueueBounded
<1>1. QueueInit => Room
  BY ObjectsAssumption DEF QueueInit, Room
<1>2. Room => QueueBounded
  BY DEF Room, QueueBounded
<1>3. OnePusher /\ QueueInv /\ Room /\ [QueueNext]_queueVars => Room'
  BY NextRoom
<1>4. CASE OnePusher
  BY <1>1, <1>2, <1>3, <1>4, QueueInvariant, PTL DEF QueueSpec
<1>5. CASE ~OnePusher
  BY <1>5
<1> QED
  BY <1>4, <1>5
===============================================================================
