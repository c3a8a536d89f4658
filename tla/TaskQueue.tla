----------------------------- MODULE TaskQueue ------------------------------
(***************************************************************************)
(* The linked list of tasks inside 4/thread_pool.c: head, tail and size    *)
(* of struct queue and the next pointer each task carries.  The pointer    *)
(* next is never initialised by thread_task_new and never cleared, head is *)
(* garbage and tail dangles while the queue is empty: only size keeps the  *)
(* list right.  Any number of threads push and pop.                        *)
(*                                                                         *)
(* A push looks at the size first, without the mutex, to refuse a task     *)
(* when the queue is full (thread_pool_push_task); the rest of it and the  *)
(* whole of a pop are critical sections, one step each.                    *)
(***************************************************************************)
EXTENDS PoolObjects, Sequences

CONSTANTS Pushers,    \* threads that push
          Poppers     \* threads that pop

Pointers == Tasks \cup {NoTask}

VARIABLES
  head, tail, next, size,   \* the fields of the code
  admitted,   \* admitted[p]: the task p is pushing, the size having been looked at
  got,        \* got[c]: what c's last queue_pop_front returned
  contents    \* history: the tasks pushed and not popped, in the order of the pushes

queueVars == <<head, tail, next, size, admitted, got, contents>>

Queued(t) == \E i \in 1..Len(contents) : contents[i] = t
Loose(t)  == ~Queued(t) /\ \A p \in Pushers : admitted[p] # t

QueueInit ==
  /\ head = NoTask /\ tail = NoTask /\ size = 0      \* calloc
  /\ next \in [Tasks -> Pointers]                    \* malloc
  /\ admitted = [p \in Pushers |-> NoTask]
  /\ got = [c \in Poppers |-> NoTask]
  /\ contents = <<>>

(* A task that is in no queue is freed and allocated again: its next pointer *)
(* is what malloc finds there.                                               *)
Reallocate(t) ==
  /\ Loose(t)
  /\ \E q \in Pointers : next' = [next EXCEPT ![t] = q]
  /\ UNCHANGED <<head, tail, size, admitted, got, contents>>

\* mutant: a full queue takes one more
RoomForOneMore == size <= MaxTasks
(* The size is compared for equality: past the limit it admits again. *)
HasRoom == size # MaxTasks

Admit(p, t) ==
  /\ admitted[p] = NoTask
  /\ Loose(t)
  /\ HasRoom
  /\ admitted' = [admitted EXCEPT ![p] = t]
  /\ UNCHANGED <<head, tail, next, size, got, contents>>

\* mutant: the list is taken for empty when its head is null
ListIsEmptyByHead == head = NoTask
ListIsEmpty == size = 0

PushBack(p) ==
  /\ admitted[p] # NoTask
  /\ IF ListIsEmpty
     THEN head' = admitted[p] /\ UNCHANGED next
     ELSE next' = [next EXCEPT ![tail] = admitted[p]] /\ UNCHANGED head
  /\ tail' = admitted[p]
  /\ size' = size + 1
  /\ contents' = Append(contents, admitted[p])
  /\ admitted' = [admitted EXCEPT ![p] = NoTask]
  /\ UNCHANGED got

\* mutant: the head stays where it is
HeadStays == head
HeadAfterPop == next[head]

PopFront(c) ==
  /\ size # 0
  /\ got' = [got EXCEPT ![c] = head]
  /\ head' = HeadAfterPop
  /\ size' = size - 1
  /\ contents' = Tail(contents)
  /\ UNCHANGED <<tail, next, admitted>>

PopNull(c) ==
  /\ size = 0
  /\ got' = [got EXCEPT ![c] = NoTask]
  /\ UNCHANGED <<head, tail, next, size, admitted, contents>>

QueueNext ==
  \/ \E t \in Tasks : Reallocate(t)
  \/ \E p \in Pushers : PushBack(p) \/ \E t \in Tasks : Admit(p, t)
  \/ \E c \in Poppers : PopFront(c) \/ PopNull(c)

QueueSpec == QueueInit /\ [][QueueNext]_queueVars

-----------------------------------------------------------------------------
QueueTypeOK ==
  /\ head \in Pointers
  /\ tail \in Pointers
  /\ next \in [Tasks -> Pointers]
  /\ size \in Nat
  /\ admitted \in [Pushers -> Pointers]
  /\ got \in [Poppers -> Pointers]
  /\ contents \in Seq(Tasks)

(* Followed from head for size steps, the next pointers spell the tasks that *)
(* were pushed and not yet popped, in order; tail is the last of them. What  *)
(* head, tail and next hold beyond that is stale and never reached.          *)
PointersSpellQueue ==
  /\ size = Len(contents)
  /\ size > 0 => head = contents[1] /\ tail = contents[size]
  /\ \A i \in 1..(size - 1) : next[contents[i]] = contents[i + 1]

(* No task is linked in twice, and none that is being pushed is linked in. *)
LinkedOnce ==
  /\ \A i, j \in 1..Len(contents) : contents[i] = contents[j] => i = j
  /\ \A p \in Pushers : admitted[p] # NoTask => ~Queued(admitted[p])
  /\ \A p, q \in Pushers : admitted[p] = admitted[q] /\ admitted[p] # NoTask => p = q

Abstract == INSTANCE Fifo WITH items <- contents

(* The list implements a queue: a pop returns the oldest task, and null only *)
(* when there is none.                                                       *)
ImplementsFifo == Abstract!Spec

(* The limit of thread_pool.h:70. One pushing thread keeps it; two that both *)
(* look at the size before either enqueues do not.                           *)
QueueBounded == size <= MaxTasks
=============================================================================
