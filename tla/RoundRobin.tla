------------------------------ MODULE RoundRobin ------------------------------
(***************************************************************************)
(* What the coroutine loop of 1/mine/libcoro.h promises: coroutines run one *)
(* at a time, the one that has waited longest is next, the one that yields  *)
(* goes behind all others, and the loop is over when all have returned.     *)
(* There are no nodes, links or contexts.  CoroLoop implements it.          *)
(***************************************************************************)
EXTENDS Naturals, Sequences

CONSTANT Coroutines

VARIABLES order,   \* the coroutines that have not returned, the running one first
          phase    \* "new", "running", "over"

vars == <<order, phase>>

Init == order = <<>> /\ phase = "new"

Create(c) ==
  /\ phase = "new" /\ \A n \in 1..Len(order) : order[n] # c
  /\ order' = Append(order, c)
  /\ UNCHANGED phase

Start ==
  /\ phase = "new"
  /\ phase' = IF order = <<>> THEN "over" ELSE "running"
  /\ UNCHANGED order

Yield ==
  /\ phase = "running"
  /\ order' = Append(Tail(order), Head(order))
  /\ UNCHANGED phase

Return ==
  /\ phase = "running"
  /\ order' = Tail(order)
  /\ phase' = IF order' = <<>> THEN "over" ELSE "running"

Next == (\E c \in Coroutines : Create(c)) \/ Start \/ Yield \/ Return

Spec == Init /\ [][Next]_vars
===============================================================================
