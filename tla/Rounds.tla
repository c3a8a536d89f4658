-------------------------------- MODULE Rounds --------------------------------
(***************************************************************************)
(* What the scheduler of 1/reference/libcoro.h promises: a round begins     *)
(* with the newest coroutine, each runs until it yields to the next older   *)
(* one, and a coroutine that ends stops the round, so that the scheduler    *)
(* can return it.  There are no lists or contexts.  CoroSched implements it. *)
(***************************************************************************)
EXTENDS Naturals, Sequences

CONSTANT Coroutines

VARIABLES order,   \* the coroutines that have not ended, the newest first
          turn     \* the place in it of the one that runs; 0 for the scheduler

vars == <<order, turn>>

Init == order = <<>> /\ turn = 0

New(c) ==
  /\ turn = 0 /\ \A n \in 1..Len(order) : order[n] # c
  /\ order' = <<c>> \o order
  /\ UNCHANGED turn

Begin ==
  /\ turn = 0 /\ order # <<>>
  /\ turn' = 1
  /\ UNCHANGED order

Yield ==
  /\ turn > 0
  /\ turn' = IF turn = Len(order) THEN 0 ELSE turn + 1
  /\ UNCHANGED order

End ==
  /\ turn > 0
  /\ order' = SubSeq(order, 1, turn - 1) \o SubSeq(order, turn + 1, Len(order))
  /\ turn' = 0

Next == (\E c \in Coroutines : New(c)) \/ Begin \/ Yield \/ End

Spec == Init /\ [][Next]_vars
===============================================================================
