-------------------------------- MODULE Fifo --------------------------------
(***************************************************************************)
(* A first-in first-out queue of distinct tasks: what the linked list      *)
(* behind queue_push_back and queue_pop_front of 4/thread_pool.c is for.   *)
(***************************************************************************)
EXTENDS Sequences

CONSTANTS Tasks, NoTask, Poppers

VARIABLES items,   \* the tasks in the queue, oldest first
          got      \* got[c]: what the last pop of thread c returned

vars == <<items, got>>

Init ==
  /\ items = <<>>
  /\ got = [c \in Poppers |-> NoTask]

Put(t) ==
  /\ \A i \in DOMAIN items : items[i] # t
  /\ items' = Append(items, t)
  /\ UNCHANGED got

Get(c) ==
  /\ items # <<>>
  /\ got' = [got EXCEPT ![c] = Head(items)]
  /\ items' = Tail(items)

GetNothing(c) ==
  /\ items = <<>>
  /\ got' = [got EXCEPT ![c] = NoTask]
  /\ UNCHANGED items

Next ==
  \/ \E t \in Tasks : Put(t)
  \/ \E c \in Poppers : Get(c) \/ GetNothing(c)

Spec == Init /\ [][Next]_vars
=============================================================================
