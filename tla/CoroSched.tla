------------------------------ MODULE CoroSched ------------------------------
(***************************************************************************)
(* The coroutine library of 1/reference/libcoro.c: a list of coroutines,    *)
(* each with a stack of its own, and a scheduler, which is the coroutine    *)
(* that waits for one of them to end.  A switch saves the context of the    *)
(* one that leaves and jumps to that of another.                            *)
(*                                                                          *)
(* Everything happens in one thread, so a call is a step.  The detour over  *)
(* a signal by which coro_new obtains a context on the new stack begins and  *)
(* ends in coro_new.  A deleted coroutine keeps its links, as memory does.  *)
(***************************************************************************)
EXTENDS Integers, FiniteSets

CONSTANT Coroutines    \* one for each call of coro_new
ASSUME CoroutinesAssumption ==
  Cardinality(Coroutines) \in Nat /\ Coroutines = 1..Cardinality(Coroutines)

VARIABLES coro_list,          \* the first of the list
          next, prev,         \* its links
          stacks,             \* the coroutines that are not deleted
          ctx,                \* where a jump to a coroutine leads
          is_finished,
          coro_this_ptr,
          is_sched_waiting    \* the context of the scheduler is in coro_sched_wait

coroVars == <<coro_list, next, prev, stacks, ctx, is_finished, coro_this_ptr, is_sched_waiting>>

NULL       == 0
coro_sched == -1

CoroInit ==
  /\ coro_list = NULL
  /\ next = [c \in Coroutines |-> NULL] /\ prev = [c \in Coroutines |-> NULL]
  /\ stacks = {}
  /\ ctx = [c \in Coroutines |-> "none"]
  /\ is_finished = [c \in Coroutines |-> FALSE]
  /\ coro_this_ptr = coro_sched
  /\ is_sched_waiting = FALSE

(* coro_list_add and the rest of the constructor. *)
coro_new(c) ==
  /\ c \notin stacks
  /\ stacks' = stacks \cup {c}
  /\ ctx' = [ctx EXCEPT ![c] = "coro_body"]
  /\ is_finished' = [is_finished EXCEPT ![c] = FALSE]
  /\ next' = [next EXCEPT ![c] = coro_list]
  /\ prev' = [n \in Coroutines |-> IF n = c THEN NULL
                                   ELSE IF n = coro_list THEN c ELSE prev[n]]
  /\ coro_list' = c
  /\ UNCHANGED <<coro_this_ptr, is_sched_waiting>>

(* The last of the list yields to the scheduler. *)
\* mutant: the last one yields to the first
BackToFirst(c) == IF next[c] = NULL THEN coro_list ELSE next[c]
YieldsTo(c)    == IF next[c] = NULL THEN coro_sched ELSE next[c]

coro_yield ==
  /\ coro_this_ptr # coro_sched
  /\ ctx' = [ctx EXCEPT ![coro_this_ptr] = "coro_yield"]
  /\ coro_this_ptr' = YieldsTo(coro_this_ptr)
  /\ is_sched_waiting' = (is_sched_waiting /\ coro_this_ptr' # coro_sched)
  /\ UNCHANGED <<coro_list, next, prev, stacks, is_finished>>

(* The function of a coroutine returns into coro_body, which jumps to the     *)
(* scheduler whatever place the coroutine has in the list.                    *)
coro_body_returns ==
  /\ coro_this_ptr # coro_sched /\ is_sched_waiting
  /\ is_finished' = [is_finished EXCEPT ![coro_this_ptr] = TRUE]
  /\ coro_this_ptr' = coro_sched
  /\ is_sched_waiting' = FALSE
  /\ UNCHANGED <<coro_list, next, prev, stacks, ctx>>

\* mutant: the first one stays the first
StillFirst(c)  == coro_list
ListWithout(c) == IF prev[c] = NULL THEN next[c] ELSE coro_list

coro_list_delete(c) ==
  /\ next' = [n \in Coroutines |-> IF n = prev[c] THEN next[c] ELSE next[n]]
  /\ prev' = [n \in Coroutines |-> IF n = next[c] THEN prev[c] ELSE prev[n]]
  /\ coro_list' = ListWithout(c)

(* What the scheduler meets when it walks the list. *)
Listed[k \in 1..Cardinality(stacks)] ==
  IF k = 1 THEN coro_list ELSE IF Listed[k - 1] = NULL THEN NULL ELSE next[Listed[k - 1]]

OnList(k)   == k \in DOMAIN Listed /\ Listed[k] # NULL
Finished(k) == OnList(k) /\ is_finished[Listed[k]]

(* coro_sched_wait either returns the first that has finished, which main     *)
(* deletes at once, or begins a round, or finds that nobody is left.          *)
WaitReturns(c) ==
  /\ coro_this_ptr = coro_sched
  /\ \E k \in DOMAIN Listed :
       /\ Finished(k) /\ Listed[k] = c
       /\ \A j \in 1..(k - 1) : ~Finished(j)
  /\ coro_list_delete(c)
  /\ stacks' = stacks \ {c}
  /\ UNCHANGED <<ctx, is_finished, coro_this_ptr, is_sched_waiting>>

WaitBegins ==
  /\ coro_this_ptr = coro_sched /\ coro_list # NULL
  /\ \A k \in DOMAIN Listed : ~Finished(k)
  /\ is_sched_waiting' = TRUE
  /\ coro_this_ptr' = coro_list
  /\ UNCHANGED <<coro_list, next, prev, stacks, ctx, is_finished>>

WaitIsOver ==
  /\ coro_this_ptr = coro_sched /\ coro_list = NULL
  /\ UNCHANGED coroVars
===============================================================================
