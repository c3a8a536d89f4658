------------------------------ MODULE TaskPool ------------------------------
(***************************************************************************)
(* What the thread pool of 4/thread_pool.h promises, with no threads, no   *)
(* mutexes and no condition variables: pushed tasks are started in the     *)
(* order of their pushes, at most MaxThreads at a time, each push leads to *)
(* at most one run, and the pool goes away only when it holds no task.     *)
(* ThreadPool is shown to implement this specification.                    *)
(***************************************************************************)
EXTENDS Naturals, Sequences, FiniteSets

CONSTANTS Tasks,        \* places a task object can be allocated at
          MaxThreads    \* tasks that may run at once

VARIABLES phase,        \* phase[t]: where task t is in its life
          order,        \* the waiting tasks, oldest push first
          closed        \* the pool is gone

vars == <<phase, order, closed>>

Phases == {"absent", "ready", "waiting", "active", "done"}

InPhase(p) == {t \in Tasks : phase[t] = p}

TypeOK ==
  /\ phase \in [Tasks -> Phases]
  /\ order \in Seq(Tasks)
  /\ closed \in BOOLEAN

Init ==
  /\ phase = [t \in Tasks |-> "absent"]
  /\ order = <<>>
  /\ closed = FALSE

Create(t) ==
  /\ phase[t] = "absent"
  /\ phase' = [phase EXCEPT ![t] = "ready"]
  /\ UNCHANGED <<order, closed>>

\* The task gives up its old result: it is about to be pushed again or freed.
Reset(t) ==
  /\ phase[t] = "done"
  /\ phase' = [phase EXCEPT ![t] = "ready"]
  /\ UNCHANGED <<order, closed>>

Push(t) ==
  /\ ~closed
  /\ phase[t] = "ready"
  /\ phase' = [phase EXCEPT ![t] = "waiting"]
  /\ order' = Append(order, t)
  /\ UNCHANGED closed

Start ==
  /\ ~closed
  /\ order # <<>>
  /\ Cardinality(InPhase("active")) < MaxThreads
  /\ phase' = [phase EXCEPT ![Head(order)] = "active"]
  /\ order' = Tail(order)
  /\ UNCHANGED closed

\* A finished task keeps its result, a detached one disappears.
Complete(t) ==
  /\ phase[t] = "active"
  /\ \E p \in {"done", "absent"} : phase' = [phase EXCEPT ![t] = p]
  /\ UNCHANGED <<order, closed>>

Delete(t) ==
  /\ phase[t] \in {"ready", "done"}
  /\ phase' = [phase EXCEPT ![t] = "absent"]
  /\ UNCHANGED <<order, closed>>

Close ==
  /\ ~closed
  /\ InPhase("waiting") \cup InPhase("active") = {}
  /\ closed' = TRUE
  /\ UNCHANGED <<phase, order>>

Next ==
  \/ \E t \in Tasks : Create(t) \/ Reset(t) \/ Push(t) \/ Complete(t) \/ Delete(t)
  \/ Start
  \/ Close

Spec == Init /\ [][Next]_vars
=============================================================================
