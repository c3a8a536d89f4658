---------------------------- MODULE SortedNumbers ----------------------------
(***************************************************************************)
(* What it means that a sequence of numbers has been sorted: the reference  *)
(* for the two merge sorts under 1/.                                        *)
(***************************************************************************)
EXTENDS Naturals, Sequences, FiniteSets

IsSorted(array) == \A k \in 1..(Len(array) - 1) : array[k] <= array[k + 1]
Count(x, array) == Cardinality({k \in 1..Len(array) : array[k] = x})
SortedInto(array, out) ==
  /\ IsSorted(out) /\ Len(out) = Len(array)
  /\ \A k \in 1..Len(array) : Count(array[k], out) = Count(array[k], array)
===============================================================================
