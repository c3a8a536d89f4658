------------------------------- MODULE CoroLoop -------------------------------
(***************************************************************************)
(* The coroutine library of 1/mine/libcoro.c: a ring of nodes around a      *)
(* sentinel, one for every coroutine that has not returned.  While the loop *)
(* runs, the coroutine that executes is the one of current_coro_node; the   *)
(* others stand where they left off in coro_yield.                          *)
(*                                                                          *)
(* Everything happens in one thread, so a call is a step.  A freed node     *)
(* keeps its links, as memory does, and is not in `allocated' any more.     *)
(* This module has the operations of the library; SortFiles calls them.     *)
(***************************************************************************)
EXTENDS Naturals, FiniteSets

CONSTANT Coroutines    \* one node for each
ASSUME CoroutinesAssumption ==
  Cardinality(Coroutines) \in Nat /\ Coroutines = 1..Cardinality(Coroutines)

VARIABLES next, prev,     \* the links of the nodes
          allocated,      \* the coroutines whose nodes are not freed
          current,        \* current_coro_node
          loop            \* loop_start: "new", "running", "over"

loopVars == <<next, prev, allocated, current, loop>>

Sentinel == 0
Nodes == Coroutines \cup {Sentinel}

LoopInit ==
  /\ next = [n \in Nodes |-> Sentinel]
  /\ prev = [n \in Nodes |-> Sentinel]
  /\ allocated = {}
  /\ current = Sentinel
  /\ loop = "new"

coro_create(n) ==
  /\ n \notin allocated
  /\ allocated' = allocated \cup {n}
  /\ next' = [next EXCEPT ![n] = Sentinel, ![prev[Sentinel]] = n]
  /\ prev' = [prev EXCEPT ![n] = prev[Sentinel], ![Sentinel] = n]
  /\ UNCHANGED <<current, loop>>

loop_start ==
  /\ loop = "new"
  /\ current' = next[Sentinel]
  /\ loop' = IF next[Sentinel] = Sentinel THEN "over" ELSE "running"
  /\ UNCHANGED <<next, prev, allocated>>

\* mutant: the sentinel is taken for a coroutine
JustNext(n)  == next[n]
NodeAfter(n) == IF next[n] = Sentinel THEN next[Sentinel] ELSE next[n]

(* A lone coroutine goes on at once. *)
coro_yield ==
  /\ loop = "running"
  /\ current' = IF next[next[Sentinel]] = Sentinel THEN current ELSE NodeAfter(current)
  /\ UNCHANGED <<next, prev, allocated, loop>>

\* mutant: only the links forwards are mended
StillBehind(n) == prev
Unlinked(n)    == [prev EXCEPT ![next[n]] = prev[n]]

(* The coroutine's function returns, and uc_link leads back into loop_start:  *)
(* it moves on, cuts the node out, frees it, and ends or switches again.  The *)
(* node after the last one is the last one itself, but then the loop ends.    *)
Reap ==
  /\ loop = "running"
  /\ current' = NodeAfter(current)
  /\ next' = [next EXCEPT ![prev[current]] = next[current]]
  /\ prev' = Unlinked(current)
  /\ allocated' = allocated \ {current}
  /\ loop' = IF next'[Sentinel] = Sentinel THEN "over" ELSE "running"
===============================================================================
