---------------------------- MODULE HeapHelpProofs ----------------------------
(***************************************************************************)
(* The leak detector keeps its records and its counts right, accuses nobody *)
(* and reports what is held at the exit, for any number of threads and      *)
(* blocks.                                                                  *)
(***************************************************************************)
EXTENDS HeapHelp, FiniteSetTheorems, TLAPS

(* Where a thread is says what its call is about. *)
CallInv ==
  \A t \in Threads :
    /\ at[t] \in {"program", "init", "report"} =>
         old[t] = NoBlock /\ new[t] = NoBlock /\ call[t] = "alloc"
    /\ at[t] \in {"alloc_trace_new", "link"} =>
         old[t] = NoBlock /\ new[t] \in Blocks /\ call[t] = "alloc"
    /\ at[t] \in {"alloc_free", "forget"} => old[t] \in Blocks
    /\ at[t] = "default_free" => old[t] \in Blocks /\ call[t] = "free"
    /\ call[t] # "alloc" => new[t] = NoBlock

(* A call owns the block it is to record, and the one it is to forget if the *)
(* system still has it as given out; a block that realloc has freed belongs  *)
(* to nobody, and so maybe to another already.                               *)
Owns(t, b) == new[t] = b \/ (old[t] = b /\ call[t] # "alloc")

(* A block given out is the program's, a call's, or a system function's, and *)
(* only one call's.                                                          *)
OwnerInv ==
  /\ held \cap Blocks \subseteq taken /\ inner \subseteq taken /\ held \cap inner = {}
  /\ \A t \in Threads, b \in Blocks : Owns(t, b) => b \in taken /\ b \notin held /\ b \notin inner
  /\ \A t, u \in Threads, b \in Blocks : Owns(t, b) /\ Owns(u, b) => t = u

ShapeInv == TypeOK /\ CallInv /\ OwnerInv

(* ShapeInv is inductive: at the start, over the calls' first steps, over the others. *)
LEMMA ShapeInit == Init => ShapeInv
  <1> SUFFICES ASSUME Init PROVE ShapeInv
    OBVIOUS
  <1>1. TypeOK
    BY DEF Init, TypeOK, Places, NoRecords
  <1>2. CallInv /\ OwnerInv
    BY ConstantsAssumption DEF Init, CallInv, OwnerInv, Owns
  <1> QED BY <1>1, <1>2 DEF ShapeInv

(* A call begins with a block that nobody owns, or with one of the program's. *)
LEMMA ShapeCalls ==
  ASSUME ShapeInv, NEW t \in Threads, Calls(t)
  PROVE  ShapeInv'
  <1> USE ConstantsAssumption DEF ShapeInv, TypeOK, Places, CallInv, OwnerInv, Owns, Enter, Free,
          alloc_is_static, endVars, libVars, heapVars, callVars
  <1>1. CASE \E b \in Free, nested \in SUBSET Blocks : nested \subseteq Free \ {b} /\ Allocate(t, b, nested)
    BY <1>1 DEF Allocate
  <1>2. CASE \E b \in Free : is_exit_done /\ strdup(t, b)
    BY <1>2 DEF strdup
  <1>3. CASE \E b \in Free, ptr \in held : ReallocStatic(t, ptr, b)
    BY <1>3 DEF ReallocStatic
  <1>4. CASE \E b \in Free, ptr \in held : ReallocMoves(t, ptr, b)
    BY <1>4 DEF ReallocMoves
  <1>5. CASE \E ptr \in held : ReallocFrees(t, ptr)
    BY <1>5 DEF ReallocFrees
  <1>6. CASE \E ptr \in held : ReallocRefused(t, ptr)
    BY <1>6 DEF ReallocRefused
  <1>7. CASE \E ptr \in held : FreeBlock(t, ptr)
    BY <1>7 DEF FreeBlock
  <1>8. CASE \E ptr \in held : FreeStatic(t, ptr)
    BY <1>8 DEF FreeStatic
  <1>9. CASE \E b \in inner : FreeInner(t, b)
    BY <1>9 DEF FreeInner
  <1> QED BY <1>1, <1>2, <1>3, <1>4, <1>5, <1>6, <1>7, <1>8, <1>9 DEF Calls, strdup, Allocate

(* The places inside of a call: what a thread owns goes on to the next place. *)
LEMMA ShapeSteps ==
  ASSUME ShapeInv, NEW t \in Threads, Steps(t)
  PROVE  ShapeInv'
  <1> USE ConstantsAssumption DEF ShapeInv, TypeOK, Places, CallInv, OwnerInv, Owns,
          endVars, libVars, heapVars, callVars
  <1>1. CASE BeginTouch(t)
    BY <1>1 DEF BeginTouch
  <1>2. CASE EndTouch(t)
    BY <1>2 DEF EndTouch
  <1>3. CASE \E ptr \in StaticBlocks : static_malloc(t, ptr)
    BY <1>3 DEF static_malloc
  <1>4. CASE SkipFree(t)
    <2>1. CASE call[t] = "free"
      BY <1>4, <2>1 DEF SkipFree, LeaveFree, Behind
    <2>2. CASE call[t] = "refused"
      BY <1>4, <2>2 DEF SkipFree, LeaveFree, Behind
    <2>3. CASE call[t] = "alloc"
      BY <1>4, <2>3 DEF SkipFree, LeaveFree, Behind
    <2> QED BY <2>1, <2>2, <2>3
  <1>5. CASE CheckFree(t)
    BY <1>5 DEF CheckFree
  <1>6. CASE BadMemory(t)
    BY <1>6 DEF BadMemory
  <1>7. CASE Forget(t)
    <2>1. allocs' \in [Blocks -> Nat] /\ debts' \in [Blocks -> Nat]
      <3>1. old[t] \in Blocks /\ allocs[old[t]] - 1 \in Nat /\ debts[old[t]] + 1 \in Nat
        BY <1>7 DEF Forget
      <3> QED BY <1>7, <3>1 DEF Forget, FirstRemoved
    <2>2. CASE call[t] = "free"
      BY <1>7, <2>1, <2>2 DEF Forget, LeaveFree, Behind
    <2>3. CASE call[t] = "refused"
      BY <1>7, <2>1, <2>3 DEF Forget, LeaveFree, Behind
    <2>4. CASE call[t] = "alloc"
      BY <1>7, <2>1, <2>4 DEF Forget, LeaveFree, Behind
    <2> QED BY <2>2, <2>3, <2>4
  <1>8. CASE \E nested \in SUBSET inner : default_free(t, nested)
    BY <1>8 DEF default_free
  <1>9. CASE SkipTrace(t)
    BY <1>9 DEF SkipTrace, Return
  <1>10. CASE TakeRecord(t)
    BY <1>10 DEF TakeRecord
  <1>11. CASE Link(t)
    BY <1>11 DEF Link, Return
  <1>12. CASE Exit(t)
    BY <1>12 DEF Exit
  <1>13. CASE \E mode \in Modes, internal \in 0..alloc_count : Report(t, mode, internal)
    BY <1>13 DEF Report
  <1> QED BY <1>1, <1>2, <1>3, <1>4, <1>5, <1>6, <1>7, <1>8, <1>9, <1>10, <1>11, <1>12, <1>13
      DEF Steps

-------------------------------------------------------------------------------
(* Counting.  One thread changes a set of threads by itself only. *)
LEMMA CountOff ==
  ASSUME NEW S, NEW U, IsFiniteSet(S), IsFiniteSet(U), NEW t, S \ {t} = U \ {t}
  PROVE  /\ Cardinality(S) \in Nat /\ Cardinality(U) \in Nat
         /\ Cardinality(S) - (IF t \in S THEN 1 ELSE 0) = Cardinality(U) - (IF t \in U THEN 1 ELSE 0)
  <1>1. Cardinality(S) \in Nat /\ Cardinality(U) \in Nat
    BY FS_CardinalityType
  <1>2. Cardinality(S \ {t}) = Cardinality(S) - (IF t \in S THEN 1 ELSE 0)
    BY <1>1, FS_RemoveElement
  <1>3. Cardinality(U \ {t}) = Cardinality(U) - (IF t \in U THEN 1 ELSE 0)
    BY <1>1, FS_RemoveElement
  <1> QED BY <1>1, <1>2, <1>3

(* The calls that are past the look at is_exit_done. *)
Searching(b) == {t \in Threads : at[t] = "forget" /\ old[t] = b}

Has(b)     == IF b \in held THEN 1 ELSE 0
Mine(t, b) == IF t \in Forgetting(b) THEN 1 ELSE 0

(* What is recorded and what there should be differ by the same in every step *)
(* before the exit, as far as the thread that makes it is concerned.          *)
Surplus(t, b) == (allocs[b] + debts[b]) - Has(b) - Mine(t, b)

LEMMA BalanceCalls ==
  ASSUME ShapeInv, NEW t \in Threads, Calls(t), NEW b \in Blocks
  PROVE  Surplus(t, b)' = Surplus(t, b)
  <1> USE ConstantsAssumption DEF ShapeInv, TypeOK, Places, CallInv, OwnerInv, Owns, Enter, Free,
          alloc_is_static, endVars, libVars, heapVars, callVars, Surplus, Has, Mine, Forgetting
  <1>1. CASE \E c \in Free, nested \in SUBSET Blocks : nested \subseteq Free \ {c} /\ Allocate(t, c, nested)
    BY <1>1 DEF Allocate
  <1>2. CASE \E c \in Free : is_exit_done /\ strdup(t, c)
    BY <1>2 DEF strdup
  <1>3. CASE \E c \in Free, ptr \in held : ReallocStatic(t, ptr, c)
    BY <1>3 DEF ReallocStatic
  <1>4. CASE \E c \in Free, ptr \in held : ReallocMoves(t, ptr, c)
    BY <1>4 DEF ReallocMoves
  <1>5. CASE \E ptr \in held : ReallocFrees(t, ptr)
    BY <1>5 DEF ReallocFrees
  <1>6. CASE \E ptr \in held : ReallocRefused(t, ptr)
    BY <1>6 DEF ReallocRefused
  <1>7. CASE \E ptr \in held : FreeBlock(t, ptr)
    BY <1>7 DEF FreeBlock
  <1>8. CASE \E ptr \in held : FreeStatic(t, ptr)
    BY <1>8 DEF FreeStatic
  <1>9. CASE \E c \in inner : FreeInner(t, c)
    BY SMTT(30), <1>9 DEF FreeInner
  <1> QED BY <1>1, <1>2, <1>3, <1>4, <1>5, <1>6, <1>7, <1>8, <1>9 DEF Calls, strdup, Allocate

(* The places inside of a call: a record comes or goes with what it stands for. *)
LEMMA BalanceSteps ==
  ASSUME ShapeInv, NEW t \in Threads, Steps(t), NEW b \in Blocks, ~is_exit_done
  PROVE  Surplus(t, b)' = Surplus(t, b)
  <1> USE ConstantsAssumption DEF ShapeInv, TypeOK, Places, CallInv, OwnerInv, Owns,
          endVars, libVars, heapVars, callVars, Surplus, Has, Mine, Forgetting
  <1>1. CASE BeginTouch(t)
    BY <1>1 DEF BeginTouch
  <1>2. CASE EndTouch(t)
    BY <1>2 DEF EndTouch
  <1>3. CASE \E ptr \in StaticBlocks : static_malloc(t, ptr)
    BY <1>3 DEF static_malloc
  <1>4. CASE SkipFree(t) \/ SkipTrace(t)
    BY <1>4 DEF SkipFree, SkipTrace, Forgets, Tracks
  <1>5. CASE CheckFree(t)
    BY <1>5 DEF CheckFree
  <1>6. CASE BadMemory(t)
    BY <1>6 DEF BadMemory
  <1>7. CASE Forget(t)
    <2>1. CASE call[t] = "refused"
      BY <1>7, <2>1 DEF Forget, FirstRemoved, LeaveFree, Behind
    <2>2. CASE call[t] # "refused"
      BY <1>7, <2>2 DEF Forget, FirstRemoved, LeaveFree, Behind
    <2> QED BY <2>1, <2>2
  <1>8. CASE \E nested \in SUBSET inner : default_free(t, nested)
    BY <1>8 DEF default_free
  <1>9. CASE TakeRecord(t)
    BY <1>9 DEF TakeRecord
  <1>10. CASE Link(t)
    BY <1>10 DEF Link, Return
  <1>11. CASE Exit(t)
    BY <1>11 DEF Exit
  <1>12. CASE \E mode \in Modes, internal \in 0..alloc_count : Report(t, mode, internal)
    BY <1>12 DEF Report
  <1> QED BY <1>1, <1>2, <1>3, <1>4, <1>5, <1>6, <1>7, <1>8, <1>9, <1>10, <1>11, <1>12 DEF Steps

(* After the exit nothing is recorded and no call begins to search any more;  *)
(* those that search still find what they search for.                         *)
Spare(t, b) == allocs[b] - (IF t \in Searching(b) THEN 1 ELSE 0)

LEMMA SpareGrows ==
  ASSUME ShapeInv, NEW t \in Threads, Calls(t) \/ Steps(t), NEW b \in Blocks, is_exit_done
  PROVE  Spare(t, b)' >= Spare(t, b)
  <1> USE ConstantsAssumption DEF ShapeInv, TypeOK, Places, CallInv, Enter,
          endVars, libVars, heapVars, callVars, Spare, Searching
  <1>1. CASE \E c \in Free, nested \in SUBSET Blocks : Allocate(t, c, nested)
    BY <1>1 DEF Allocate
  <1>2. CASE \E c \in Free : is_exit_done /\ strdup(t, c)
    BY <1>2 DEF strdup
  <1>3. CASE \E c \in Free, ptr \in held : ReallocStatic(t, ptr, c)
    BY <1>3 DEF ReallocStatic
  <1>4. CASE \E c \in Free, ptr \in held : ReallocMoves(t, ptr, c)
    BY <1>4 DEF ReallocMoves
  <1>5. CASE \E ptr \in held : ReallocFrees(t, ptr)
    BY <1>5 DEF ReallocFrees
  <1>6. CASE \E ptr \in held : ReallocRefused(t, ptr)
    BY <1>6 DEF ReallocRefused
  <1>7. CASE \E ptr \in held : FreeBlock(t, ptr)
    BY <1>7 DEF FreeBlock
  <1>8. CASE \E ptr \in held : FreeStatic(t, ptr)
    BY <1>8 DEF FreeStatic
  <1>9. CASE \E c \in inner : FreeInner(t, c)
    BY <1>9 DEF FreeInner
  <1>10. CASE BeginTouch(t)
    BY <1>10 DEF BeginTouch
  <1>11. CASE EndTouch(t)
    BY <1>11 DEF EndTouch
  <1>12. CASE \E ptr \in StaticBlocks : static_malloc(t, ptr)
    BY <1>12 DEF static_malloc
  <1>13. CASE SkipFree(t)
    BY <1>13 DEF SkipFree, LeaveFree, Behind
  <1>14. ~CheckFree(t) /\ ~Exit(t)
    BY DEF CheckFree, Forgets, Exit
  <1>15. CASE BadMemory(t)
    <2>1. UNCHANGED <<allocs, debts, at, old>>
      BY <1>15 DEF BadMemory
    <2> QED BY <2>1
  <1>16. CASE Forget(t)
    <2>1. old[t] \in Blocks /\ t \notin Searching(b)'
      BY <1>16 DEF Forget, LeaveFree, Behind
    <2>2. allocs' = [allocs EXCEPT ![old[t]] = @ - 1] /\ at[t] = "forget"
      BY <1>16 DEF Forget, FirstRemoved
    <2> QED BY <2>1, <2>2
  <1>17. CASE \E nested \in SUBSET inner : default_free(t, nested)
    BY <1>17 DEF default_free
  <1>18. CASE SkipTrace(t)
    BY <1>18 DEF SkipTrace, Return
  <1>19. CASE TakeRecord(t)
    BY <1>19 DEF TakeRecord
  <1>20. CASE Link(t)
    BY <1>20 DEF Link, Return
  <1>21. CASE \E mode \in Modes, internal \in 0..alloc_count : Report(t, mode, internal)
    BY <1>21 DEF Report
  <1>22. CASE Calls(t)
    BY <1>1, <1>2, <1>3, <1>4, <1>5, <1>6, <1>7, <1>8, <1>9, <1>22
       DEF Calls, strdup, Allocate, Free
  <1>23. CASE Steps(t)
    BY <1>10, <1>11, <1>12, <1>13, <1>14, <1>15, <1>16, <1>17, <1>18, <1>19, <1>20, <1>21, <1>23
       DEF Steps
  <1> QED BY <1>22, <1>23

(* What a step of t leaves of the other threads, and when a flag changes. *)
LEMMA StepsAreLocal ==
  ASSUME ShapeInv, NEW t \in Threads, Calls(t) \/ Steps(t)
  PROVE  /\ \A u \in Threads \ {t} : at'[u] = at[u] /\ old'[u] = old[u]
         /\ is_exit_done => is_exit_done'
         /\ debts' \in [Blocks -> Nat] /\ \A b \in Blocks : debts'[b] >= debts[b]
         /\ alarm' = alarm \/ alarm' = "strdup" \/ BadMemory(t)
         /\ ~is_exit_done /\ is_exit_done' => UNCHANGED <<allocs, debts, old>> /\ Exit(t)
  <1> USE ConstantsAssumption DEF ShapeInv, TypeOK, Places, CallInv, Enter,
          endVars, libVars, heapVars, callVars
  <1>1. CASE Calls(t)
    <2>1. CASE \E c \in Free : strdup(t, c) \/ \E nested \in SUBSET Blocks : Allocate(t, c, nested)
      BY <2>1 DEF Allocate, strdup
    <2>2. CASE \E c \in Free, ptr \in held : ReallocStatic(t, ptr, c) \/ ReallocMoves(t, ptr, c)
      BY <2>2 DEF ReallocStatic, ReallocMoves
    <2>3. CASE \E ptr \in held : ReallocFrees(t, ptr) \/ ReallocRefused(t, ptr)
      BY <2>3 DEF ReallocFrees, ReallocRefused
    <2>4. CASE \E ptr \in held : FreeBlock(t, ptr) \/ FreeStatic(t, ptr)
      BY <2>4 DEF FreeBlock, FreeStatic
    <2>5. CASE \E c \in inner : FreeInner(t, c)
      BY <2>5 DEF FreeInner
    <2> QED BY <1>1, <2>1, <2>2, <2>3, <2>4, <2>5 DEF Calls, Allocate, Free
  <1>2. CASE Steps(t)
    <2>1. CASE BeginTouch(t) \/ EndTouch(t) \/ \E ptr \in StaticBlocks : static_malloc(t, ptr)
      BY <2>1 DEF BeginTouch, EndTouch, static_malloc
    <2>2. CASE SkipFree(t) \/ CheckFree(t)
      BY <2>2 DEF SkipFree, CheckFree, LeaveFree
    <2>3. CASE BadMemory(t)
      <3>1. UNCHANGED <<is_exit_done, debts, at, old>>
        BY <2>3 DEF BadMemory
      <3> QED BY <2>3, <3>1
    <2>4. CASE Forget(t)
      BY <2>4 DEF Forget, LeaveFree
    <2>5. CASE \E nested \in SUBSET inner : default_free(t, nested)
      BY <2>5 DEF default_free
    <2>6. CASE SkipTrace(t) \/ TakeRecord(t) \/ Link(t)
      BY <2>6 DEF SkipTrace, TakeRecord, Link, Return
    <2>7. CASE Exit(t)
      BY <2>7 DEF Exit
    <2>8. CASE \E mode \in Modes, internal \in 0..alloc_count : Report(t, mode, internal)
      BY <2>8 DEF Report
    <2> QED BY <1>2, <2>1, <2>2, <2>3, <2>4, <2>5, <2>6, <2>7, <2>8 DEF Steps
  <1> QED BY <1>1, <1>2

-------------------------------------------------------------------------------
(* The invariant.  RecordsMatchBlocks ends at the exit; what is left of it is *)
(* that a call which still searches has something to find, or there are debts. *)
Served == \A b \in Blocks : Cardinality(Searching(b)) <= allocs[b] + debts[b]

Inv == ShapeInv /\ RecordsMatchBlocks /\ Served /\ NoFalseAlarm

(* What is counted is finite, as Threads is. *)
LEMMA FiniteSets ==
  ASSUME NEW b \in Blocks
  PROVE  /\ IsFiniteSet(Forgetting(b)) /\ IsFiniteSet(Searching(b))
         /\ Cardinality(Searching(b)) \in Nat /\ Cardinality(Forgetting(b)) \in Nat
         /\ Cardinality(Searching(b)) <= Cardinality(Forgetting(b))
         /\ Cardinality({b} \cap held) = Has(b)
  <1>1. Forgetting(b) \in SUBSET Threads /\ Searching(b) \in SUBSET Forgetting(b)
    BY DEF Forgetting, Searching
  <1>2. IsFiniteSet(Forgetting(b))
    BY <1>1, FS_Subset, ConstantsAssumption
  <1>3. IsFiniteSet(Searching(b)) /\ Cardinality(Searching(b)) <= Cardinality(Forgetting(b))
    BY <1>1, <1>2, FS_Subset
  <1>4. Cardinality({b} \cap held) = Has(b)
    <2>1. CASE b \in held
      <3>1. {b} \cap held = {b}
        BY <2>1
      <3> QED BY <2>1, <3>1, FS_Singleton DEF Has
    <2>2. CASE b \notin held
      <3>1. {b} \cap held = {}
        BY <2>2
      <3> QED BY <2>2, <3>1, FS_EmptySet DEF Has
    <2> QED BY <2>1, <2>2
  <1> QED BY <1>2, <1>3, <1>4, FS_CardinalityType

(* What is left to find is a debt. *)
LEMMA OneDebt ==
  ASSUME NEW n \in Nat, n # 0, NEW a \in Nat, a = 0, NEW d \in Nat, n <= a + d
  PROVE  d > 0
  OBVIOUS

(* Nothing is recorded or held at the start. *)
LEMMA InvInit == Init => Inv
  <1> SUFFICES ASSUME Init PROVE Inv
    OBVIOUS
  <1>1. ShapeInv
    BY ShapeInit
  <1>2. ASSUME NEW b \in Blocks
        PROVE  allocs[b] = 0 /\ debts[b] = 0 /\ Has(b) = 0 /\ Forgetting(b) = {}
    BY <1>2 DEF Init, NoRecords, Has, Forgetting
  <1>3. RecordsMatchBlocks
    BY <1>2, FiniteSets, FS_EmptySet DEF RecordsMatchBlocks
  <1>4. Served
    <2> SUFFICES ASSUME NEW b \in Blocks PROVE Cardinality(Searching(b)) <= allocs[b] + debts[b]
      BY DEF Served
    <2>1. Cardinality(Forgetting(b)) = 0
      BY <1>2, FS_EmptySet
    <2>2. Cardinality(Searching(b)) \in Nat /\ Cardinality(Searching(b)) <= Cardinality(Forgetting(b))
      BY FiniteSets
    <2>3. allocs[b] = 0 /\ debts[b] = 0
      BY <1>2
    <2> QED BY <2>1, <2>2, <2>3
  <1>5. NoFalseAlarm
    BY DEF Init, NoFalseAlarm
  <1> QED BY <1>1, <1>3, <1>4, <1>5 DEF Inv

(* The sums are kept by the lemmas on the thread that moves, and CountOff. *)
LEMMA InvNext ==
  ASSUME Inv, NEW t \in Threads, alarm = "none", Calls(t) \/ Steps(t)
  PROVE  Inv'
  <1> USE DEF Inv
  <1>1. ShapeInv'
    BY ShapeCalls, ShapeSteps
  <1>2. /\ \A u \in Threads \ {t} : at'[u] = at[u] /\ old'[u] = old[u]
        /\ is_exit_done => is_exit_done'
    BY StepsAreLocal
  <1>3. ASSUME NEW b \in Blocks
        PROVE  allocs[b] \in Nat /\ debts[b] \in Nat /\ allocs'[b] \in Nat /\ debts'[b] \in Nat
    BY <1>1 DEF ShapeInv, TypeOK
  <1>4. ASSUME NEW b \in Blocks
        PROVE  /\ IsFiniteSet(Forgetting(b)') /\ IsFiniteSet(Searching(b)')
               /\ Cardinality(Searching(b)') \in Nat /\ Cardinality(Forgetting(b)') \in Nat
               /\ Cardinality(Searching(b)') <= Cardinality(Forgetting(b)')
               /\ Cardinality({b} \cap held') = Has(b)'
    <2>1. Forgetting(b)' \in SUBSET Threads /\ Searching(b)' \in SUBSET Forgetting(b)'
      BY DEF Forgetting, Searching
    <2>2. IsFiniteSet(Forgetting(b)')
      BY <2>1, FS_Subset, ConstantsAssumption
    <2>3. IsFiniteSet(Searching(b)') /\ Cardinality(Searching(b)') <= Cardinality(Forgetting(b)')
      BY <2>1, <2>2, FS_Subset
    <2>4. CASE b \in held'
      <3>1. {b} \cap held' = {b}
        BY <2>4
      <3> QED BY <2>2, <2>3, <2>4, <3>1, FS_Singleton, FS_CardinalityType DEF Has
    <2>5. CASE b \notin held'
      <3>1. {b} \cap held' = {}
        BY <2>5
      <3> QED BY <2>2, <2>3, <2>5, <3>1, FS_EmptySet, FS_CardinalityType DEF Has
    <2> QED BY <2>4, <2>5
  <1>5. RecordsMatchBlocks'
    <2> SUFFICES ASSUME ~is_exit_done', NEW b \in Blocks
                 PROVE  allocs'[b] + debts'[b] = Cardinality({b} \cap held') + Cardinality(Forgetting(b)')
      BY DEF RecordsMatchBlocks
    <2>1. ~is_exit_done
      BY <1>2
    <2>2. allocs[b] + debts[b] = Has(b) + Cardinality(Forgetting(b))
      BY <2>1, FiniteSets DEF RecordsMatchBlocks
    <2>3. Surplus(t, b)' = Surplus(t, b)
      BY <2>1, BalanceCalls, BalanceSteps
    <2>4. Forgetting(b)' \ {t} = Forgetting(b) \ {t}
      BY <1>2 DEF Forgetting
    <2>5. Cardinality(Forgetting(b)') - (IF t \in Forgetting(b)' THEN 1 ELSE 0)
          = Cardinality(Forgetting(b)) - (IF t \in Forgetting(b) THEN 1 ELSE 0)
      BY <2>4, <1>4, FiniteSets, CountOff
    <2>6. Has(b) \in Nat /\ Has(b)' \in Nat
      BY DEF Has
    <2> HIDE DEF Inv
    <2>7. (allocs'[b] + debts'[b]) - Has(b)' - Mine(t, b)' = (allocs[b] + debts[b]) - Has(b) - Mine(t, b)
      BY <2>3 DEF Surplus
    <2>8. /\ allocs[b] \in Nat /\ debts[b] \in Nat /\ allocs'[b] \in Nat /\ debts'[b] \in Nat
          /\ Cardinality(Forgetting(b)) \in Nat /\ Cardinality(Forgetting(b)') \in Nat
      BY <1>3, <1>4, FiniteSets
    <2>9. /\ Mine(t, b) = IF t \in Forgetting(b) THEN 1 ELSE 0
          /\ Mine(t, b)' = IF t \in Forgetting(b)' THEN 1 ELSE 0
          /\ Mine(t, b) \in Nat /\ Mine(t, b)' \in Nat
      BY DEF Mine
    <2>10. Cardinality(Forgetting(b)') - Mine(t, b)' = Cardinality(Forgetting(b)) - Mine(t, b)
      BY <2>5, <2>9
    <2>11. allocs'[b] + debts'[b] = Has(b)' + Cardinality(Forgetting(b)')
      <3> DEFINE a  == allocs[b] + debts[b]          a1 == allocs'[b] + debts'[b]
                 h  == Has(b)                        h1 == Has(b)'
                 m  == Mine(t, b)                    m1 == Mine(t, b)'
                 f  == Cardinality(Forgetting(b))    f1 == Cardinality(Forgetting(b)')
      <3>1. a \in Int /\ a1 \in Int /\ f \in Int /\ f1 \in Int
        BY <2>8
      <3>2. h \in Int /\ h1 \in Int /\ m \in Int /\ m1 \in Int
        BY <2>6, <2>9
      <3>3. a1 - h1 - m1 = a - h - m /\ a = h + f /\ f1 - m1 = f - m
        BY <2>2, <2>7, <2>10
      <3> HIDE DEF a, a1, h, h1, m, m1, f, f1
      <3>4. a1 = h1 + f1
        BY <3>1, <3>2, <3>3
      <3> QED BY <3>4 DEF a1, h1, f1
    <2> QED BY <2>11, <1>4
  <1>6. Served'
    <2> SUFFICES ASSUME NEW b \in Blocks
                 PROVE  Cardinality(Searching(b)') <= allocs'[b] + debts'[b]
      BY DEF Served
    <2>1. CASE ~is_exit_done'
      <3>1. allocs'[b] + debts'[b] = Has(b)' + Cardinality(Forgetting(b)')
        BY <1>4, <1>5, <2>1 DEF RecordsMatchBlocks
      <3>2. Has(b)' \in Nat
        BY DEF Has
      <3> HIDE DEF Inv
      <3>3. /\ allocs'[b] \in Nat /\ debts'[b] \in Nat
            /\ Cardinality(Searching(b)') \in Nat /\ Cardinality(Forgetting(b)') \in Nat
            /\ Cardinality(Searching(b)') <= Cardinality(Forgetting(b)')
        BY <1>3, <1>4
      <3> QED BY <3>1, <3>2, <3>3
    <2>2. CASE ~is_exit_done /\ is_exit_done'
      <3>1. UNCHANGED <<allocs, debts, old>> /\ Exit(t)
        BY <2>2, StepsAreLocal
      <3>2. Searching(b)' = Searching(b)
        BY <3>1 DEF Exit, Searching, ShapeInv, TypeOK
      <3> QED BY <3>1, <3>2 DEF Served
    <2>3. CASE is_exit_done
      <3>1. Spare(t, b)' >= Spare(t, b)
        BY <2>3, SpareGrows
      <3>2. Searching(b)' \ {t} = Searching(b) \ {t}
        BY <1>2 DEF Searching
      <3>3. Cardinality(Searching(b)') - (IF t \in Searching(b)' THEN 1 ELSE 0)
            = Cardinality(Searching(b)) - (IF t \in Searching(b) THEN 1 ELSE 0)
        BY <3>2, <1>4, FiniteSets, CountOff
      <3>4. Cardinality(Searching(b)) <= allocs[b] + debts[b]
        BY DEF Served
      <3> HIDE DEF Inv
      <3>5. /\ allocs[b] \in Nat /\ debts[b] \in Nat /\ allocs'[b] \in Nat /\ debts'[b] \in Nat
            /\ Cardinality(Searching(b)) \in Nat /\ Cardinality(Searching(b)') \in Nat
        BY <1>3, <1>4, FiniteSets
      <3>6. allocs'[b] - (IF t \in Searching(b)' THEN 1 ELSE 0)
            >= allocs[b] - (IF t \in Searching(b) THEN 1 ELSE 0)
        BY <3>1 DEF Spare
      <3>7. debts'[b] >= debts[b]
        BY StepsAreLocal DEF Inv
      <3> QED BY <3>3, <3>4, <3>5, <3>6, <3>7
    <2> QED BY <2>1, <2>2, <2>3
  <1>7. NoFalseAlarm'
    <2> SUFFICES ASSUME alarm' = "freeing bad memory" PROVE \E b \in Blocks : debts'[b] > 0
      BY DEF NoFalseAlarm, InDebt
    <2>1. BadMemory(t)
      BY StepsAreLocal
    <2>2. at[t] = "forget" /\ allocs[old[t]] = 0 /\ debts' = debts /\ old[t] \in Blocks
      BY <2>1 DEF BadMemory, ShapeInv, CallInv, endVars
    <2>3. t \in Searching(old[t])
      BY <2>2 DEF Searching
    <2>4. Cardinality(Searching(old[t])) # 0
      BY <2>2, <2>3, FiniteSets, FS_EmptySet
    <2>5. Cardinality(Searching(old[t])) <= allocs[old[t]] + debts[old[t]]
      BY <2>2 DEF Served
    <2> HIDE DEF Inv
    <2>6. /\ debts[old[t]] \in Nat /\ allocs[old[t]] \in Nat
          /\ Cardinality(Searching(old[t])) \in Nat
      BY <1>3, <2>2, FiniteSets
    <2>7. debts[old[t]] > 0
      BY <2>2, <2>4, <2>5, <2>6, OneDebt
    <2> QED BY <2>2, <2>7
  <1> QED BY <1>1, <1>5, <1>6, <1>7

(* Inv speaks of the variables only. *)
LEMMA InvStutters == Inv /\ UNCHANGED vars => Inv'
  <1> SUFFICES ASSUME Inv, UNCHANGED vars PROVE Inv'
    OBVIOUS
  <1> USE DEF vars, libVars, heapVars, callVars, endVars
  <1>1. ShapeInv'
    BY DEF Inv, ShapeInv, TypeOK, Places, CallInv, OwnerInv, Owns
  <1>2. UNCHANGED <<allocs, debts, held, alarm, is_exit_done>>
    OBVIOUS
  <1>3. ASSUME NEW b \in Blocks PROVE Forgetting(b)' = Forgetting(b) /\ Searching(b)' = Searching(b)
    BY DEF Forgetting, Searching
  <1>4. RecordsMatchBlocks' /\ Served'
    BY <1>2, <1>3 DEF Inv, RecordsMatchBlocks, Served
  <1>5. NoFalseAlarm'
    BY <1>2 DEF Inv, NoFalseAlarm, InDebt
  <1> QED BY <1>1, <1>4, <1>5 DEF Inv

(* The invariant of every behaviour, which the theorems take apart. *)
LEMMA InvAlways == Spec => []Inv
  <1>1. Inv /\ [Next]_vars => Inv'
    BY InvNext, InvStutters DEF Next
  <1> QED BY <1>1, InvInit, PTL DEF Spec

-------------------------------------------------------------------------------
(* Sums.  A sum over the blocks is a recursion over their subsets, which take  *)
(* off an element at a time.  It is said to exist, and then known by induction *)
(* over the subsets, with the smallest at which a claim would fail.            *)
First(s)   == CHOOSE b \in s : TRUE
Step(h, f, s) == IF s = {} THEN 0 ELSE h[First(s)] + f[s \ {First(s)}]
Unfolds(h, f) == f = [s \in SUBSET Blocks |-> Step(h, f, s)]
Sums(h)    == CHOOSE f : Unfolds(h, f)

LEMMA LeastOf ==
  ASSUME NEW S \in SUBSET Nat, S # {}
  PROVE  \E m \in S : \A k \in S : m <= k
  <1>1. PICK m \in S : \A k \in S : ~(<<k, m>> \in OpToRel(<, Nat))
    BY NatLessThanWellFounded, WFMin
  <1>2. \A k \in S : ~(k < m)
    BY <1>1 DEF OpToRel
  <1>3. \A k \in S : m <= k
    BY <1>2
  <1> QED BY <1>3

LEMMA Subsets ==
  ASSUME NEW s \in SUBSET Blocks
  PROVE  /\ IsFiniteSet(s) /\ Cardinality(s) \in Nat
         /\ s # {} => /\ First(s) \in s /\ s \ {First(s)} \in SUBSET Blocks
                      /\ Cardinality(s) > 0
                      /\ Cardinality(s \ {First(s)}) = Cardinality(s) - 1
  <1>1. IsFiniteSet(s)
    BY FS_Subset, ConstantsAssumption
  <1>2. Cardinality(s) \in Nat /\ (s # {} => Cardinality(s) # 0)
    BY <1>1, FS_CardinalityType, FS_EmptySet
  <1>3. s # {} => First(s) \in s
    BY DEF First
  <1>4. s # {} => Cardinality(s \ {First(s)}) = Cardinality(s) - 1
    BY <1>1, <1>3, FS_RemoveElement
  <1> QED BY <1>1, <1>2, <1>3, <1>4

LEMMA SubsetInduction ==
  ASSUME NEW T \in SUBSET SUBSET Blocks, {} \in T,
         ASSUME NEW s \in SUBSET Blocks, s # {}, s \ {First(s)} \in T PROVE s \in T
  PROVE  T = SUBSET Blocks
  <1> SUFFICES ASSUME NEW u \in SUBSET Blocks, u \notin T PROVE FALSE
    OBVIOUS
  <1> DEFINE S == {Cardinality(s) : s \in (SUBSET Blocks) \ T}
  <1>1. S \in SUBSET Nat /\ S # {}
    <2>1. \A s \in SUBSET Blocks : Cardinality(s) \in Nat
      BY Subsets
    <2>2. Cardinality(u) \in S
      OBVIOUS
    <2> QED BY <2>1, <2>2
  <1>2. PICK m \in S : \A k \in S : m <= k
    BY <1>1, LeastOf
  <1>3. PICK s \in (SUBSET Blocks) \ T : Cardinality(s) = m
    BY <1>2
  <1>4. /\ s # {} /\ Cardinality(s \ {First(s)}) = m - 1 /\ m \in Nat
        /\ s \ {First(s)} \in SUBSET Blocks
    BY <1>3, Subsets
  <1>5. ~(m <= m - 1)
    BY <1>4
  <1>6. s \ {First(s)} \in T
    BY <1>2, <1>4, <1>5
  <1> QED BY <1>3, <1>4, <1>6

LEMMA SumsUnfold ==
  ASSUME NEW h \in [Blocks -> Nat]
  PROVE  Unfolds(h, Sums(h))
  <1> DEFINE F == [SUBSET Blocks -> Nat]
             UpTo(n, f) == \A s \in SUBSET Blocks : Cardinality(s) <= n => f[s] = Step(h, f, s)
             S == {n \in Nat : ~\E f \in F : UpTo(n, f)}
  <1>1. ASSUME NEW n \in S, \A k \in S : n <= k PROVE FALSE
    <2>1. CASE n = 0
      <3> DEFINE f == [s \in SUBSET Blocks |-> 0]
      <3>1. ASSUME NEW s \in SUBSET Blocks, Cardinality(s) <= n PROVE f[s] = Step(h, f, s)
        <4>1. Cardinality(s) \in Nat /\ (s # {} => Cardinality(s) > 0)
          BY Subsets
        <4>2. s = {}
          BY <2>1, <3>1, <4>1
        <4> QED BY <4>2 DEF Step
      <3>2. f \in F
        OBVIOUS
      <3> QED BY <3>1, <3>2
    <2>2. CASE n # 0
      <3>1. n - 1 \in Nat /\ ~(n <= n - 1)
        BY <2>2
      <3>2. PICK f \in F : UpTo(n - 1, f)
        BY <1>1, <3>1
      <3> DEFINE g == [s \in SUBSET Blocks |-> Step(h, f, s)]
      <3>3. g \in F
        <4>1. ASSUME NEW s \in SUBSET Blocks PROVE Step(h, f, s) \in Nat
          <5>1. CASE s = {}
            BY <5>1 DEF Step
          <5>2. CASE s # {}
            <6>1. h[First(s)] \in Nat /\ f[s \ {First(s)}] \in Nat
              BY <5>2, Subsets
            <6> QED BY <5>2, <6>1 DEF Step
          <5> QED BY <5>1, <5>2
        <4> QED BY <4>1
      <3>4. ASSUME NEW s \in SUBSET Blocks, Cardinality(s) <= n PROVE g[s] = Step(h, g, s)
        <4>1. CASE s = {}
          BY <4>1 DEF Step
        <4>2. CASE s # {}
          <5> DEFINE r == s \ {First(s)}
          <5>1. r \in SUBSET Blocks /\ Cardinality(r) <= n - 1
            BY <3>4, <4>2, Subsets
          <5>2. f[r] = Step(h, f, r)
            BY <3>2, <5>1
          <5>3. g[r] = f[r]
            BY <5>1, <5>2
          <5> HIDE DEF g
          <5>4. Step(h, f, s) = Step(h, g, s)
            BY <4>2, <5>3 DEF Step
          <5> QED BY <5>4 DEF g
        <4> QED BY <4>1, <4>2
      <3> HIDE DEF g
      <3> QED BY <3>3, <3>4
    <2> QED BY <2>1, <2>2
  <1>2. S = {}
    BY <1>1, LeastOf
  <1> DEFINE all == Cardinality(Blocks)
  <1>3. all \in Nat /\ \A s \in SUBSET Blocks : Cardinality(s) <= all
    BY FS_Subset, FS_CardinalityType, ConstantsAssumption
  <1>4. PICK f \in F : UpTo(all, f)
    BY <1>2, <1>3
  <1>5. f = [s \in SUBSET Blocks |-> Step(h, f, s)]
    <2>1. \A s \in SUBSET Blocks : f[s] = Step(h, f, s)
      BY <1>3, <1>4
    <2> QED BY <2>1
  <1> QED BY <1>5, Zenon DEF Unfolds, Sums

LEMMA SumOf ==
  ASSUME NEW h \in [Blocks -> Nat]
  PROVE  /\ Sums(h)[{}] = 0
         /\ \A s \in SUBSET Blocks : Sums(h)[s] \in Nat
         /\ \A s \in SUBSET Blocks :
              s # {} => Sums(h)[s] = h[First(s)] + Sums(h)[s \ {First(s)}]
  <1> DEFINE f == Sums(h)
             T == {s \in SUBSET Blocks : f[s] \in Nat}
  <1>1. \A s \in SUBSET Blocks : f[s] = Step(h, f, s)
    BY SumsUnfold, Zenon DEF Unfolds
  <1> HIDE DEF f
  <1>2. f[{}] = 0 /\ \A s \in SUBSET Blocks : s # {} => f[s] = h[First(s)] + f[s \ {First(s)}]
    BY <1>1 DEF Step
  <1>3. T = SUBSET Blocks
    <2>1. T \in SUBSET SUBSET Blocks /\ {} \in T
      BY <1>2
    <2>2. ASSUME NEW s \in SUBSET Blocks, s # {}, s \ {First(s)} \in T PROVE s \in T
      <3>1. h[First(s)] \in Nat /\ f[s \ {First(s)}] \in Nat
        BY <2>2, Subsets
      <3>2. f[s] = h[First(s)] + f[s \ {First(s)}]
        BY <1>2, <2>2
      <3> QED BY <3>1, <3>2
    <2> HIDE DEF T
    <2> QED BY <2>1, <2>2, SubsetInduction
  <1> QED BY <1>2, <1>3 DEF f

(* One number changed changes the sum by as much. *)
LEMMA SumChanges ==
  ASSUME NEW h \in [Blocks -> Nat], NEW g \in [Blocks -> Nat], NEW b \in Blocks,
         \A c \in Blocks \ {b} : g[c] = h[c]
  PROVE  Sums(g)[Blocks] + h[b] = Sums(h)[Blocks] + g[b]
  <1> DEFINE x == Sums(h)
             y == Sums(g)
             T == {s \in SUBSET Blocks : /\ b \in s => y[s] + h[b] = x[s] + g[b]
                                         /\ b \notin s => y[s] = x[s]}
  <1>1. /\ x[{}] = 0 /\ y[{}] = 0
        /\ \A s \in SUBSET Blocks : x[s] \in Nat /\ y[s] \in Nat
        /\ \A s \in SUBSET Blocks : s # {} => x[s] = h[First(s)] + x[s \ {First(s)}]
        /\ \A s \in SUBSET Blocks : s # {} => y[s] = g[First(s)] + y[s \ {First(s)}]
    BY SumOf
  <1> HIDE DEF x, y
  <1>2. T \in SUBSET SUBSET Blocks /\ {} \in T
    BY <1>1
  <1>3. ASSUME NEW s \in SUBSET Blocks, s # {}, s \ {First(s)} \in T PROVE s \in T
    <2> DEFINE e == First(s)
               r == s \ {First(s)}
    <2>1. e \in s /\ e \in Blocks /\ r \in SUBSET Blocks
      BY <1>3, Subsets
    <2>2. x[s] = h[e] + x[r] /\ y[s] = g[e] + y[r] /\ x[r] \in Nat /\ y[r] \in Nat
          /\ x[s] \in Nat /\ y[s] \in Nat
      BY <1>1, <1>3, <2>1
    <2>3. /\ b \in r => y[r] + h[b] = x[r] + g[b]
          /\ b \notin r => y[r] = x[r]
      BY <1>3
    <2>4. h[e] \in Nat /\ g[e] \in Nat /\ h[b] \in Nat /\ g[b] \in Nat /\ (e # b => g[e] = h[e])
      BY <2>1
    <2>5. e = b => b \in s /\ b \notin r
      BY <2>1
    <2>6. e # b => (b \in s <=> b \in r)
      OBVIOUS
    <2> HIDE DEF e, r
    <2>7. (b \in s => y[s] + h[b] = x[s] + g[b]) /\ (b \notin s => y[s] = x[s])
      BY <2>2, <2>3, <2>4, <2>5, <2>6
    <2> QED BY <2>7
  <1>4. T = SUBSET Blocks
    <2> HIDE DEF T
    <2> QED BY <1>2, <1>3, SubsetInduction
  <1> QED BY <1>4 DEF x, y

(* A sum over the blocks counts those that have one. *)
LEMMA SumCounts ==
  ASSUME NEW h \in [Blocks -> Nat], NEW H \in SUBSET Blocks, \A b \in H : h[b] > 0
  PROVE  /\ Cardinality(H) <= Sums(h)[Blocks]
         /\ (\A b \in Blocks : h[b] = IF b \in H THEN 1 ELSE 0) => Cardinality(H) = Sums(h)[Blocks]
  <1> DEFINE x == Sums(h)
             exact == \A b \in Blocks : h[b] = IF b \in H THEN 1 ELSE 0
             T == {s \in SUBSET Blocks : /\ Cardinality(H \cap s) <= x[s]
                                         /\ exact => Cardinality(H \cap s) = x[s]}
  <1>1. /\ x[{}] = 0
        /\ \A s \in SUBSET Blocks : x[s] \in Nat
        /\ \A s \in SUBSET Blocks : s # {} => x[s] = h[First(s)] + x[s \ {First(s)}]
    BY SumOf
  <1> HIDE DEF x
  <1>2. T \in SUBSET SUBSET Blocks /\ {} \in T
    <2>1. H \cap {} = {} /\ Cardinality({}) = 0
      BY FS_EmptySet
    <2> HIDE DEF exact
    <2> QED BY <1>1, <2>1
  <1>3. ASSUME NEW s \in SUBSET Blocks, s # {}, s \ {First(s)} \in T PROVE s \in T
    <2> DEFINE e == First(s)
               r == s \ {First(s)}
    <2>1. e \in s /\ e \in Blocks /\ r \in SUBSET Blocks /\ h[e] \in Nat
      BY <1>3, Subsets
    <2>2. x[s] = h[e] + x[r] /\ x[r] \in Nat /\ x[s] \in Nat
      BY <1>1, <1>3, <2>1
    <2>3. Cardinality(H \cap r) <= x[r] /\ (exact => Cardinality(H \cap r) = x[r])
      BY <1>3
    <2>4. Cardinality(H \cap s) \in Nat /\ Cardinality(H \cap r) \in Nat /\ IsFiniteSet(H \cap s)
      <3>1. H \cap s \in SUBSET Blocks /\ H \cap r \in SUBSET Blocks
        BY <2>1
      <3> QED BY <3>1, Subsets
    <2>5. Cardinality(H \cap s) = Cardinality(H \cap r) + (IF e \in H THEN 1 ELSE 0)
      <3>1. CASE e \in H
        <4>1. H \cap r = (H \cap s) \ {e} /\ e \in H \cap s
          BY <2>1, <3>1
        <4>2. Cardinality((H \cap s) \ {e}) = Cardinality(H \cap s) - 1
          BY <2>4, <4>1, FS_RemoveElement
        <4>3. Cardinality(H \cap r) = Cardinality(H \cap s) - 1
          BY <4>1, <4>2
        <4> HIDE DEF e, r
        <4> QED BY <2>4, <3>1, <4>3
      <3>2. CASE e \notin H
        <4>1. H \cap r = H \cap s
          BY <3>2
        <4>2. Cardinality(H \cap r) = Cardinality(H \cap s)
          BY <4>1
        <4> HIDE DEF e, r
        <4> QED BY <2>4, <3>2, <4>2
      <3> QED BY <3>1, <3>2
    <2>6. (e \in H => h[e] > 0) /\ (exact => h[e] = IF e \in H THEN 1 ELSE 0)
      BY <2>1
    <2> HIDE DEF e, r, exact
    <2>7. Cardinality(H \cap s) <= x[s]
      BY <2>1, <2>2, <2>3, <2>4, <2>5, <2>6
    <2>8. exact => Cardinality(H \cap s) = x[s]
      BY <2>1, <2>2, <2>3, <2>4, <2>5, <2>6
    <2> QED BY <2>7, <2>8
  <1>4. T = SUBSET Blocks
    <2> HIDE DEF T
    <2> QED BY <1>2, <1>3, SubsetInduction
  <1>5. H \cap Blocks = H /\ Blocks \in T
    BY <1>4
  <1> QED BY <1>5 DEF x

-------------------------------------------------------------------------------
(* The counts.  A record is in the list, in the pool or in the hands of a call *)
(* that fills it in.                                                           *)
CountInv ==
  /\ alloc_count = Records /\ alloc_pool \in Nat
  /\ used = Records + alloc_pool + Cardinality(Linking)

\* The length of the list as the sum that the lemmas above are about.
Recorded == Records = Sums(allocs)[Blocks]

LEMMA RecordsNow == Recorded
  BY DEF Recorded, Records, MapThenSumSet, MapThenFoldSet, Sums, Unfolds, Step, First

LEMMA RecordsNext == Recorded'
  BY RecordsNow, PTL

LEMMA QuietSteps ==
  ASSUME ShapeInv, NEW t \in Threads, Calls(t) \/ Steps(t),
         ~Forget(t), ~TakeRecord(t), ~Link(t)
  PROVE  UNCHANGED <<allocs, alloc_count, alloc_pool, used>> /\ Linking' = Linking
  <1> USE ConstantsAssumption DEF ShapeInv, TypeOK, Places, CallInv, Enter, Linking,
          endVars, libVars, heapVars, callVars
  <1>1. CASE Calls(t)
    <2>1. CASE \E c \in Free : strdup(t, c) \/ \E nested \in SUBSET Blocks : Allocate(t, c, nested)
      BY <2>1 DEF Allocate, strdup
    <2>2. CASE \E c \in Free, ptr \in held : ReallocStatic(t, ptr, c) \/ ReallocMoves(t, ptr, c)
      BY <2>2 DEF ReallocStatic, ReallocMoves
    <2>3. CASE \E ptr \in held : ReallocFrees(t, ptr) \/ ReallocRefused(t, ptr)
      BY <2>3 DEF ReallocFrees, ReallocRefused
    <2>4. CASE \E ptr \in held : FreeBlock(t, ptr) \/ FreeStatic(t, ptr)
      BY <2>4 DEF FreeBlock, FreeStatic
    <2>5. CASE \E c \in inner : FreeInner(t, c)
      BY <2>5 DEF FreeInner
    <2> QED BY <1>1, <2>1, <2>2, <2>3, <2>4, <2>5 DEF Calls, Allocate, Free
  <1>2. CASE Steps(t)
    <2>1. CASE BeginTouch(t) \/ EndTouch(t) \/ \E ptr \in StaticBlocks : static_malloc(t, ptr)
      BY <2>1 DEF BeginTouch, EndTouch, static_malloc
    <2>2. CASE SkipFree(t) \/ CheckFree(t)
      BY <2>2 DEF SkipFree, CheckFree, LeaveFree, Behind
    <2>3. CASE BadMemory(t)
      <3>1. UNCHANGED <<allocs, alloc_count, alloc_pool, used, at>>
        BY <2>3 DEF BadMemory
      <3> QED BY <3>1
    <2>4. CASE \E nested \in SUBSET inner : default_free(t, nested)
      BY <2>4 DEF default_free
    <2>5. CASE SkipTrace(t)
      BY <2>5 DEF SkipTrace, Return
    <2>6. CASE Exit(t)
      BY <2>6 DEF Exit
    <2>7. CASE \E mode \in Modes, internal \in 0..alloc_count : Report(t, mode, internal)
      BY <2>7 DEF Report
    <2> QED BY <1>2, <2>1, <2>2, <2>3, <2>4, <2>5, <2>6, <2>7 DEF Steps
  <1> QED BY <1>1, <1>2

(* A record goes from hand to hand. *)
LEMMA CountNext ==
  ASSUME ShapeInv, CountInv, NEW t \in Threads, Calls(t) \/ Steps(t)
  PROVE  CountInv'
  <1>1. allocs \in [Blocks -> Nat] /\ allocs' \in [Blocks -> Nat]
    BY ShapeCalls, ShapeSteps DEF ShapeInv, TypeOK
  <1>2. /\ Records = Sums(allocs)[Blocks] /\ Records' = Sums(allocs')[Blocks]
        /\ Records \in Nat /\ Records' \in Nat
    <2>1. Records = Sums(allocs)[Blocks] /\ Records' = Sums(allocs')[Blocks]
      BY RecordsNow, RecordsNext DEF Recorded
    <2>2. Sums(allocs)[Blocks] \in Nat /\ Sums(allocs')[Blocks] \in Nat
      BY <1>1, SumOf
    <2> QED BY <2>1, <2>2
  <1>3. /\ Cardinality(Linking) \in Nat /\ Cardinality(Linking') \in Nat
        /\ IsFiniteSet(Linking) /\ IsFiniteSet(Linking')
    <2>1. Linking \in SUBSET Threads /\ Linking' \in SUBSET Threads
      BY DEF Linking
    <2> QED BY <2>1, FS_Subset, FS_CardinalityType, ConstantsAssumption
  <1>4. Linking' \ {t} = Linking \ {t}
    BY StepsAreLocal DEF Linking
  <1>5. Cardinality(Linking') - (IF t \in Linking' THEN 1 ELSE 0)
        = Cardinality(Linking) - (IF t \in Linking THEN 1 ELSE 0)
    BY <1>3, <1>4, CountOff
  <1>6. /\ alloc_count = Records /\ alloc_pool \in Nat
        /\ used = Records + alloc_pool + Cardinality(Linking)
    BY DEF CountInv
  <1> DEFINE l == Cardinality(Linking)
             m == Cardinality(Linking')
  <1>7. CASE Forget(t)
    <2>1. old[t] \in Blocks /\ allocs' = [allocs EXCEPT ![old[t]] = @ - 1]
      BY <1>7 DEF Forget, FirstRemoved, ShapeInv, CallInv
    <2>2. Records' + allocs[old[t]] = Records + allocs'[old[t]]
      BY <1>1, <1>2, <2>1, SumChanges
    <2>3. allocs'[old[t]] = allocs[old[t]] - 1 /\ allocs[old[t]] \in Nat /\ allocs'[old[t]] \in Nat
      BY <1>1, <2>1
    <2>4. Records' = Records - 1
      BY <1>2, <2>2, <2>3
    <2>5. alloc_pool' = alloc_pool + 1 /\ alloc_count' = alloc_count - 1 /\ used' = used
      BY <1>7 DEF Forget, CountedDown, LeaveFree
    <2>6. t \notin Linking /\ t \notin Linking'
      BY <1>7 DEF Forget, LeaveFree, Behind, Linking, ShapeInv, TypeOK
    <2>7. m = l
      <3> HIDE DEF l, m
      <3>1. m - 0 = l - 0 /\ m \in Nat /\ l \in Nat
        BY <1>3, <1>5, <2>6 DEF l, m
      <3> QED BY <3>1
    <2>8. used' = Records' + alloc_pool' + m /\ alloc_count' = Records' /\ alloc_pool' \in Nat
      <3> HIDE DEF l, m
      <3>1. used = Records + alloc_pool + l /\ l \in Nat
        BY <1>3, <1>6 DEF l
      <3> QED BY <1>2, <1>6, <2>4, <2>5, <2>7, <3>1
    <2> QED BY <2>8 DEF CountInv
  <1>8. CASE TakeRecord(t)
    <2>1. /\ allocs' = allocs /\ alloc_count' = alloc_count
          /\ alloc_pool' = IF alloc_pool > 0 THEN alloc_pool - 1 ELSE 0
          /\ used' = IF alloc_pool > 0 THEN used ELSE used + 1
      BY <1>8 DEF TakeRecord
    <2>2. t \notin Linking /\ t \in Linking'
      BY <1>8 DEF TakeRecord, Linking, ShapeInv, TypeOK
    <2>3. m = l + 1
      <3> HIDE DEF l, m
      <3>1. m - 1 = l - 0 /\ m \in Nat /\ l \in Nat
        BY <1>3, <1>5, <2>2 DEF l, m
      <3> QED BY <3>1
    <2>4. Records' = Records
      BY <1>2, <2>1
    <2>5. used' = Records' + alloc_pool' + m /\ alloc_count' = Records' /\ alloc_pool' \in Nat
      <3> HIDE DEF l, m
      <3>1. used = Records + alloc_pool + l /\ l \in Nat
        BY <1>3, <1>6 DEF l
      <3> QED BY <1>2, <1>6, <2>1, <2>3, <2>4, <3>1
    <2> QED BY <2>5 DEF CountInv
  <1>9. CASE Link(t)
    <2>1. /\ new[t] \in Blocks /\ allocs' = [allocs EXCEPT ![new[t]] = @ + 1]
          /\ alloc_count' = alloc_count + 1 /\ alloc_pool' = alloc_pool /\ used' = used
      BY <1>9 DEF Link, ShapeInv, CallInv
    <2>2. Records' + allocs[new[t]] = Records + allocs'[new[t]]
      BY <1>1, <1>2, <2>1, SumChanges
    <2>3. allocs'[new[t]] = allocs[new[t]] + 1 /\ allocs[new[t]] \in Nat
      BY <1>1, <2>1
    <2>4. Records' = Records + 1
      BY <1>2, <2>2, <2>3
    <2>5. t \in Linking /\ t \notin Linking'
      BY <1>9 DEF Link, Return, Linking, ShapeInv, TypeOK
    <2>6. l = m + 1
      <3> HIDE DEF l, m
      <3>1. m - 0 = l - 1 /\ m \in Nat /\ l \in Nat
        BY <1>3, <1>5, <2>5 DEF l, m
      <3> QED BY <3>1
    <2>7. used' = Records' + alloc_pool' + m /\ alloc_count' = Records' /\ alloc_pool' \in Nat
      <3> HIDE DEF l, m
      <3>1. used = Records + alloc_pool + l /\ l \in Nat /\ m \in Nat
        BY <1>3, <1>6 DEF l, m
      <3> QED BY <1>2, <1>6, <2>1, <2>4, <2>6, <3>1
    <2> QED BY <2>7 DEF CountInv
  <1>10. CASE ~Forget(t) /\ ~TakeRecord(t) /\ ~Link(t)
    <2>1. UNCHANGED <<allocs, alloc_count, alloc_pool, used>> /\ Linking' = Linking
      BY <1>10, QuietSteps
    <2>2. Records' = Records
      BY <1>2, <2>1
    <2> QED BY <1>6, <2>1, <2>2 DEF CountInv
  <1> QED BY <1>7, <1>8, <1>9, <1>10

LEMMA CountInit == Init => CountInv
  <1> SUFFICES ASSUME Init PROVE CountInv
    OBVIOUS
  <1>1. Linking = {} /\ \A b \in Blocks : allocs[b] = 0
    BY DEF Init, Linking, NoRecords
  <1>2. allocs \in [Blocks -> Nat]
    BY DEF Init, NoRecords
  <1>3. Cardinality({}) = Sums(allocs)[Blocks]
    BY <1>1, <1>2, SumCounts
  <1>4. Records = 0 /\ Cardinality(Linking) = 0
    BY <1>1, <1>3, RecordsNow, FS_EmptySet DEF Recorded
  <1> QED BY <1>4 DEF CountInv, Init

LEMMA CountStutters == CountInv /\ UNCHANGED vars => CountInv'
  <1> SUFFICES ASSUME CountInv, UNCHANGED vars PROVE CountInv'
    OBVIOUS
  <1>1. UNCHANGED <<allocs, alloc_count, alloc_pool, used>> /\ Linking' = Linking
    BY DEF vars, libVars, callVars, Linking
  <1>2. Records' = Records
    BY <1>1, RecordsNow, RecordsNext DEF Recorded
  <1> QED BY <1>1, <1>2 DEF CountInv

(* With no call under way, there is one record of what is held. *)
LEMMA CountHeld == Inv /\ CountInv => CountIsHeld
  <1> SUFFICES ASSUME Inv, CountInv PROVE CountIsHeld
    OBVIOUS
  <1>1. ASSUME ~is_exit_done, ~InDebt, \A t \in Threads : at[t] \in {"program", "init"}
        PROVE  alloc_count = Cardinality(held \cap Blocks)
    <2>1. allocs \in [Blocks -> Nat] /\ debts \in [Blocks -> Nat]
      BY DEF Inv, ShapeInv, TypeOK
    <2>2. ASSUME NEW b \in Blocks PROVE allocs[b] = IF b \in held \cap Blocks THEN 1 ELSE 0
      <3>1. debts[b] = 0
        BY <1>1, <2>1 DEF InDebt
      <3>2. Forgetting(b) = {}
        BY <1>1 DEF Forgetting
      <3>3. Cardinality(Forgetting(b)) = 0 /\ Cardinality({b} \cap held) = Has(b)
        BY <3>2, FiniteSets, FS_EmptySet
      <3>4. allocs[b] + debts[b] = Has(b) + 0
        BY <1>1, <3>3 DEF Inv, RecordsMatchBlocks
      <3> QED BY <2>1, <3>1, <3>4 DEF Has
    <2>3. Cardinality(held \cap Blocks) = Sums(allocs)[Blocks]
      BY <2>1, <2>2, SumCounts
    <2> QED BY <2>3, RecordsNow DEF Recorded, CountInv
  <1> QED BY <1>1 DEF Inv, ShapeInv, CountInv, CountIsHeld

-------------------------------------------------------------------------------
(* The report.  What the list holds between the exit and the report: a record  *)
(* of every block that was held, which the calls that still search leave; and  *)
(* none but those and what calls were about when the exit began.               *)
AfterExit ==
  /\ atExit.held \in SUBSET Blocks
  /\ \A b \in atExit.held : Cardinality(Searching(b)) < allocs[b]
  /\ \A b \in Blocks : allocs[b] > 0 => b \in atExit.held \cup atExit.inCalls
  /\ \A t \in Threads : at[t] = "link" => new[t] \in atExit.inCalls
  /\ atExit.inCalls = {} =>
       /\ \A t \in Threads : at[t] # "forget"
       /\ \A b \in Blocks : allocs[b] = IF b \in atExit.held THEN 1 ELSE 0

ExitInv ==
  /\ \A t \in Threads : at[t] = "report" => is_exit_done
  /\ report # NoReport => is_exit_done
  /\ is_exit_done /\ ~atExit.inDebt => AfterExit

(* What the steps can and cannot be after the exit, and before it.             *)
LEMMA StepsAfterExit ==
  ASSUME ShapeInv, NEW t \in Threads, Calls(t) \/ Steps(t)
  PROVE  /\ \A u \in Threads \ {t} : new'[u] = new[u]
         /\ at'[t] = "report" => Exit(t)
         /\ atExit' = atExit \/ Exit(t)
         /\ report' = report \/ \E mode \in Modes, internal \in 0..alloc_count : Report(t, mode, internal)
         /\ is_exit_done => /\ at'[t] # "link" /\ (at'[t] = "forget" => at[t] = "forget")
                            /\ allocs' = allocs \/ Link(t) \/ Forget(t)
                            /\ ~Exit(t)
  <1> USE ConstantsAssumption DEF ShapeInv, TypeOK, Places, CallInv, Enter,
          endVars, libVars, heapVars, callVars
  <1>1. CASE Calls(t)
    <2>1. CASE \E c \in Free : strdup(t, c) \/ \E nested \in SUBSET Blocks : Allocate(t, c, nested)
      BY <2>1 DEF Allocate, strdup, Exit
    <2>2. CASE \E c \in Free, ptr \in held : ReallocStatic(t, ptr, c) \/ ReallocMoves(t, ptr, c)
      BY <2>2 DEF ReallocStatic, ReallocMoves, Exit
    <2>3. CASE \E ptr \in held : ReallocFrees(t, ptr) \/ ReallocRefused(t, ptr)
      BY <2>3 DEF ReallocFrees, ReallocRefused, Exit
    <2>4. CASE \E ptr \in held : FreeBlock(t, ptr) \/ FreeStatic(t, ptr)
      BY <2>4 DEF FreeBlock, FreeStatic, Exit
    <2>5. CASE \E c \in inner : FreeInner(t, c)
      BY <2>5 DEF FreeInner, Exit
    <2> QED BY <1>1, <2>1, <2>2, <2>3, <2>4, <2>5 DEF Calls, Allocate, Free
  <1>2. CASE Steps(t)
    <2>1. CASE BeginTouch(t) \/ EndTouch(t) \/ \E ptr \in StaticBlocks : static_malloc(t, ptr)
      BY <2>1 DEF BeginTouch, EndTouch, static_malloc, Exit
    <2>2. CASE SkipFree(t) \/ CheckFree(t)
      BY <2>2 DEF SkipFree, CheckFree, LeaveFree, Behind, Forgets, Exit
    <2>3. CASE BadMemory(t)
      <3>1. UNCHANGED <<allocs, at, new, atExit, report, is_exit_done>> /\ at[t] = "forget"
        BY <2>3 DEF BadMemory
      <3> QED BY <3>1 DEF Exit
    <2>4. CASE Forget(t)
      BY <2>4 DEF Forget, LeaveFree, Behind, Exit
    <2>5. CASE \E nested \in SUBSET inner : default_free(t, nested)
      BY <2>5 DEF default_free, Exit
    <2>6. CASE SkipTrace(t) \/ TakeRecord(t) \/ Link(t)
      BY <2>6 DEF SkipTrace, TakeRecord, Link, Return, Tracks, Exit
    <2>7. CASE Exit(t)
      BY <2>7 DEF Exit
    <2>8. CASE \E mode \in Modes, internal \in 0..alloc_count : Report(t, mode, internal)
      BY <2>8 DEF Report, Exit
    <2> QED BY <1>2, <2>1, <2>2, <2>3, <2>4, <2>5, <2>6, <2>7, <2>8 DEF Steps
  <1> QED BY <1>1, <1>2

(* At the exit the records still match the blocks.                             *)
LEMMA ExitBegins ==
  ASSUME Inv, NEW t \in Threads, Exit(t), ~InDebt
  PROVE  AfterExit'
  <1>1. /\ UNCHANGED <<allocs, old, new>>
        /\ atExit'.held = held \cap Blocks
        /\ atExit'.inCalls = UNION {InCall(u) : u \in Threads}
        /\ at' = [at EXCEPT ![t] = "report"] /\ at[t] = "program" /\ ~is_exit_done
    BY DEF Exit
  <1>2. /\ allocs \in [Blocks -> Nat] /\ debts \in [Blocks -> Nat] /\ at \in [Threads -> Places]
        /\ \A u \in Threads : at[u] \in {"alloc_free", "forget"} => old[u] \in Blocks
    BY DEF Inv, ShapeInv, TypeOK, CallInv
  <1>3. ASSUME NEW b \in Blocks
        PROVE  /\ allocs[b] = Has(b) + Cardinality(Forgetting(b))
               /\ Searching(b)' = Searching(b)
               /\ IsFiniteSet(Forgetting(b))
               /\ Cardinality(Searching(b)) \in Nat /\ Cardinality(Forgetting(b)) \in Nat
               /\ Cardinality(Searching(b)) <= Cardinality(Forgetting(b))
    <2>1. debts[b] = 0
      BY <1>2 DEF InDebt
    <2>2. allocs[b] + debts[b] = Has(b) + Cardinality(Forgetting(b))
      BY <1>1, FiniteSets DEF Inv, RecordsMatchBlocks
    <2>3. Searching(b)' = Searching(b)
      BY <1>1, <1>2 DEF Searching
    <2>4. /\ IsFiniteSet(Forgetting(b)) /\ Cardinality(Forgetting(b)) \in Nat
          /\ Cardinality(Searching(b)) \in Nat
          /\ Cardinality(Searching(b)) <= Cardinality(Forgetting(b))
      BY FiniteSets
    <2>5. allocs[b] = Has(b) + Cardinality(Forgetting(b))
      <3>1. allocs[b] \in Nat /\ Has(b) \in Nat
        BY <1>2 DEF Has
      <3> QED BY <2>1, <2>2, <2>4, <3>1
    <2> QED BY <2>3, <2>4, <2>5
  <1>4. ASSUME NEW b \in held \cap Blocks
        PROVE  Cardinality(Searching(b)') < allocs'[b]
    <2>1. Has(b) = 1
      BY DEF Has
    <2> QED BY <1>1, <1>2, <1>3, <2>1
  <1>5. ASSUME NEW b \in Blocks, allocs'[b] > 0, b \notin held
        PROVE  b \in atExit'.inCalls
    <2>1. Has(b) = 0
      BY <1>5 DEF Has
    <2>2. Cardinality(Forgetting(b)) # 0
      BY <1>1, <1>3, <1>5, <2>1
    <2>3. PICK u \in Threads : u \in Forgetting(b)
      BY <1>3, <2>2, FS_EmptySet DEF Forgetting
    <2>4. b \in InCall(u)
      BY <2>3 DEF Forgetting, InCall
    <2> QED BY <1>1, <2>4
  <1>6. ASSUME NEW u \in Threads, at'[u] = "link" PROVE new'[u] \in atExit'.inCalls
    <2>1. at[u] = "link"
      BY <1>1, <1>2, <1>6
    <2>2. new[u] \in InCall(u)
      BY <2>1 DEF InCall
    <2> QED BY <1>1, <2>2
  <1>7. ASSUME atExit'.inCalls = {}
        PROVE  /\ \A u \in Threads : at'[u] # "forget"
               /\ \A b \in Blocks : allocs'[b] = IF b \in held \cap Blocks THEN 1 ELSE 0
    <2>1. ASSUME NEW u \in Threads PROVE at[u] \notin {"alloc_free", "forget"}
      <3>1. InCall(u) = {}
        BY <1>1, <1>7
      <3> QED BY <1>2, <3>1 DEF InCall
    <2>2. ASSUME NEW b \in Blocks PROVE allocs[b] = Has(b)
      <3>1. Forgetting(b) = {}
        BY <2>1 DEF Forgetting
      <3>2. Cardinality(Forgetting(b)) = 0
        BY <3>1, FS_EmptySet
      <3> QED BY <1>3, <3>2 DEF Has
    <2> QED BY <1>1, <1>2, <2>1, <2>2 DEF Has
  <1> QED BY <1>1, <1>4, <1>5, <1>6, <1>7 DEF AfterExit

LEMMA ExitNext ==
  ASSUME Inv, ExitInv, NEW t \in Threads, alarm = "none", Calls(t) \/ Steps(t)
  PROVE  ExitInv'
  <1>1. ShapeInv /\ ShapeInv' /\ allocs \in [Blocks -> Nat] /\ allocs' \in [Blocks -> Nat]
    BY ShapeCalls, ShapeSteps DEF Inv, ShapeInv, TypeOK
  <1>2. /\ \A u \in Threads \ {t} : at'[u] = at[u] /\ old'[u] = old[u] /\ new'[u] = new[u]
        /\ is_exit_done => is_exit_done'
        /\ ~is_exit_done /\ is_exit_done' => Exit(t)
        /\ at'[t] = "report" => Exit(t)
        /\ atExit' = atExit \/ Exit(t)
        /\ report' = report \/ \E mode \in Modes, internal \in 0..alloc_count : Report(t, mode, internal)
        /\ is_exit_done => /\ at'[t] # "link" /\ (at'[t] = "forget" => at[t] = "forget")
                           /\ allocs' = allocs \/ Link(t) \/ Forget(t)
                           /\ ~Exit(t)
    BY <1>1, StepsAreLocal, StepsAfterExit
  <1>3. Exit(t) => is_exit_done'
    BY DEF Exit
  <1>4. \A u \in Threads : at'[u] = "report" => is_exit_done'
    BY <1>2, <1>3 DEF ExitInv
  <1>5. report' # NoReport => is_exit_done'
    <2>1. CASE \E mode \in Modes, internal \in 0..alloc_count : Report(t, mode, internal)
      <3>1. at[t] = "report"
        BY <2>1 DEF Report
      <3> QED BY <1>2, <3>1 DEF ExitInv
    <2> QED BY <1>2, <2>1 DEF ExitInv
  <1>6. CASE ~is_exit_done
    <2>1. is_exit_done' /\ ~atExit'.inDebt => Exit(t) /\ ~InDebt
      BY <1>2, <1>6 DEF Exit
    <2> QED BY <1>4, <1>5, <2>1, ExitBegins DEF ExitInv
  <1>7. CASE is_exit_done
    <2> SUFFICES ASSUME ~atExit'.inDebt PROVE AfterExit'
      BY <1>4, <1>5 DEF ExitInv
    <2>1. atExit' = atExit /\ AfterExit
      BY <1>2, <1>7 DEF ExitInv
    <2>2. ASSUME NEW b \in atExit.held PROVE Cardinality(Searching(b)') < allocs'[b]
      <3>1. b \in Blocks /\ Cardinality(Searching(b)) < allocs[b]
        BY <2>1 DEF AfterExit
      <3>2. Spare(t, b)' >= Spare(t, b)
        BY <1>1, <1>7, <3>1, SpareGrows
      <3>3. Searching(b)' \ {t} = Searching(b) \ {t} /\ Searching(b)' \in SUBSET Threads
        BY <1>2 DEF Searching
      <3>4. IsFiniteSet(Searching(b)') /\ IsFiniteSet(Searching(b))
        BY <3>1, <3>3, FS_Subset, FiniteSets, ConstantsAssumption
      <3>5. Cardinality(Searching(b)') - (IF t \in Searching(b)' THEN 1 ELSE 0)
            = Cardinality(Searching(b)) - (IF t \in Searching(b) THEN 1 ELSE 0)
            /\ Cardinality(Searching(b)') \in Nat /\ Cardinality(Searching(b)) \in Nat
        BY <3>3, <3>4, CountOff
      <3>6. allocs'[b] - (IF t \in Searching(b)' THEN 1 ELSE 0)
            >= allocs[b] - (IF t \in Searching(b) THEN 1 ELSE 0)
        BY <3>2 DEF Spare
      <3>7. allocs[b] \in Nat /\ allocs'[b] \in Nat
        BY <1>1, <3>1
      <3> QED BY <3>1, <3>5, <3>6, <3>7
    <2>3. CASE allocs' = allocs
      <3>1. \A u \in Threads : at'[u] = "link" => at[u] = "link" /\ new'[u] = new[u]
        BY <1>2, <1>7
      <3>2. \A u \in Threads : at'[u] = "forget" => at[u] = "forget"
        BY <1>2, <1>7
      <3> QED BY <2>1, <2>2, <2>3, <3>1, <3>2 DEF AfterExit
    <2>4. CASE Link(t)
      <3>1. /\ at[t] = "link" /\ new[t] \in Blocks /\ new[t] \in atExit.inCalls
            /\ allocs' = [allocs EXCEPT ![new[t]] = @ + 1]
        BY <1>1, <2>1, <2>4 DEF Link, AfterExit, ShapeInv, CallInv
      <3>2. ASSUME NEW b \in Blocks, allocs'[b] > 0 PROVE b \in atExit.held \cup atExit.inCalls
        <4>1. CASE b = new[t]
          BY <3>1, <4>1
        <4>2. CASE b # new[t]
          BY <1>1, <2>1, <3>1, <3>2, <4>2 DEF AfterExit
        <4> QED BY <4>1, <4>2
      <3>3. \A u \in Threads : at'[u] = "link" => at[u] = "link" /\ new'[u] = new[u]
        BY <1>2, <1>7
      <3> QED BY <2>1, <2>2, <3>1, <3>2, <3>3 DEF AfterExit
    <2>5. CASE Forget(t)
      <3>1. /\ at[t] = "forget" /\ old[t] \in Blocks
            /\ allocs' = [allocs EXCEPT ![old[t]] = @ - 1]
        BY <1>1, <2>5 DEF Forget, FirstRemoved, ShapeInv, CallInv
      <3>2. ASSUME NEW b \in Blocks, allocs'[b] > 0 PROVE allocs[b] > 0
        BY <1>1, <3>1, <3>2
      <3>3. \A u \in Threads : at'[u] = "link" => at[u] = "link" /\ new'[u] = new[u]
        BY <1>2, <1>7
      <3>4. atExit.inCalls # {}
        BY <2>1, <3>1 DEF AfterExit
      <3> QED BY <2>1, <2>2, <3>2, <3>3, <3>4 DEF AfterExit
    <2> QED BY <1>2, <1>7, <2>3, <2>4, <2>5
  <1> QED BY <1>6, <1>7

(* The report is printed from the list and the count as they then are.         *)
LEMMA ReportNext ==
  ASSUME Inv, CountInv, ExitInv, ReportIsRight, NEW t \in Threads, Calls(t) \/ Steps(t)
  PROVE  ReportIsRight'
  <1>1. ShapeInv /\ allocs \in [Blocks -> Nat]
    BY DEF Inv, ShapeInv, TypeOK
  <1>2. /\ atExit' = atExit \/ Exit(t)
        /\ report' = report \/ \E mode \in Modes, internal \in 0..alloc_count : Report(t, mode, internal)
        /\ is_exit_done => ~Exit(t)
    BY <1>1, StepsAfterExit
  <1>3. ASSUME NEW mode \in Modes, NEW internal \in 0..alloc_count, Report(t, mode, internal)
        PROVE  ReportIsRight'
    <2> SUFFICES ASSUME ~atExit'.inDebt
                 PROVE  /\ \A b \in atExit'.held : report'.records[b] > 0
                        /\ \A b \in Blocks : report'.records[b] > 0 => b \in atExit'.held \cup atExit'.inCalls
                        /\ atExit'.inCalls = {} =>
                             report'.found + report'.suppressed = Cardinality(atExit'.held)
                        /\ \/ report'.printed \/ report'.mode = "quiet"
                           \/ Cardinality(atExit'.held) <= report'.suppressed
      BY DEF ReportIsRight
    <2>1. /\ atExit' = atExit /\ is_exit_done
          /\ report'.records = allocs /\ report'.suppressed = internal /\ report'.mode = mode
          /\ report'.found = alloc_count - internal
          /\ report'.printed = ~(mode = "quiet" \/ (mode = "leaks" /\ alloc_count - internal = 0))
      BY <1>3 DEF Report, ExitInv, Found
    <2>2. AfterExit
      BY <2>1 DEF ExitInv
    <2>3. \A b \in atExit.held : b \in Blocks /\ allocs[b] > 0
      <3> TAKE b \in atExit.held
      <3>1. b \in Blocks /\ Cardinality(Searching(b)) < allocs[b]
        BY <2>2 DEF AfterExit
      <3>2. Cardinality(Searching(b)) \in Nat /\ allocs[b] \in Nat
        BY <1>1, <3>1, FiniteSets
      <3> QED BY <3>1, <3>2
    <2>4. /\ alloc_count = Sums(allocs)[Blocks] /\ alloc_count \in Nat
          /\ Cardinality(atExit.held) <= alloc_count
          /\ atExit.inCalls = {} => Cardinality(atExit.held) = alloc_count
      <3>1. alloc_count = Sums(allocs)[Blocks]
        BY RecordsNow DEF Recorded, CountInv
      <3>2. atExit.held \in SUBSET Blocks
        BY <2>2 DEF AfterExit
      <3> QED BY <1>1, <2>2, <2>3, <3>1, <3>2, SumOf, SumCounts DEF AfterExit
    <2>5. internal \in Nat /\ Cardinality(atExit.held) \in Nat
      <3>1. atExit.held \in SUBSET Blocks
        BY <2>2 DEF AfterExit
      <3>2. Cardinality(atExit.held) \in Nat
        BY <3>1, Subsets
      <3> QED BY <2>4, <3>2
    <2>6. atExit.inCalls = {} => report'.found + report'.suppressed = Cardinality(atExit.held)
      BY <2>1, <2>4, <2>5
    <2>7. \/ report'.printed \/ report'.mode = "quiet"
          \/ Cardinality(atExit.held) <= report'.suppressed
      <3>1. CASE alloc_count - internal = 0
        <4>1. internal = alloc_count
          BY <2>4, <2>5, <3>1
        <4> QED BY <2>1, <2>4, <4>1
      <3>2. CASE alloc_count - internal # 0
        BY <2>1, <3>2
      <3> QED BY <3>1, <3>2
    <2>8. \A b \in Blocks : allocs[b] > 0 => b \in atExit.held \cup atExit.inCalls
      BY <2>2 DEF AfterExit
    <2> QED BY <2>1, <2>3, <2>6, <2>7, <2>8
  <1>4. CASE report' = report
    <2>1. report # NoReport => atExit' = atExit
      BY <1>2 DEF ExitInv
    <2> QED BY <1>4, <2>1 DEF ReportIsRight
  <1> QED BY <1>2, <1>3, <1>4

LEMMA ExitInit == Init => ExitInv /\ ReportIsRight
  BY DEF Init, ExitInv, ReportIsRight

LEMMA ExitStutters == ExitInv /\ ReportIsRight /\ UNCHANGED vars => ExitInv' /\ ReportIsRight'
  <1> SUFFICES ASSUME ExitInv, ReportIsRight, UNCHANGED vars PROVE ExitInv' /\ ReportIsRight'
    OBVIOUS
  <1>1. UNCHANGED <<allocs, at, old, new, report, atExit, is_exit_done>>
    BY DEF vars, libVars, callVars, endVars
  <1>2. \A b \in Blocks : Searching(b)' = Searching(b)
    BY <1>1 DEF Searching
  <1>3. AfterExit => AfterExit'
    BY <1>1, <1>2 DEF AfterExit
  <1> QED BY <1>1, <1>3 DEF ExitInv, ReportIsRight

AllInv == Inv /\ CountInv /\ ExitInv /\ ReportIsRight

LEMMA AllAlways == Spec => []AllInv
  <1>1. Init => AllInv
    BY InvInit, CountInit, ExitInit DEF AllInv
  <1>2. AllInv /\ [Next]_vars => AllInv'
    <2> SUFFICES ASSUME AllInv, [Next]_vars PROVE AllInv'
      OBVIOUS
    <2>1. ASSUME NEW t \in Threads, alarm = "none", Calls(t) \/ Steps(t) PROVE AllInv'
      BY <2>1, InvNext, CountNext, ExitNext, ReportNext DEF AllInv, Inv
    <2>2. CASE UNCHANGED vars
      BY <2>2, InvStutters, CountStutters, ExitStutters DEF AllInv
    <2> QED BY <2>1, <2>2 DEF Next
  <1> QED BY <1>1, <1>2, PTL DEF Spec

-------------------------------------------------------------------------------
(* The state keeps its types, in particular no count of records goes below 0. *)
THEOREM TypesHold == Spec => []TypeOK
  BY InvAlways, PTL DEF Inv, ShapeInv

(* For any number of threads and blocks: until the exit there is one record of *)
(* a block for who holds it and for every call that has yet to forget it.      *)
THEOREM RecordsAreRight == Spec => []RecordsMatchBlocks
  BY InvAlways, PTL DEF Inv

(* For any number of threads and blocks: "freeing bad memory" (heap_help.c:234) *)
(* accuses no program without a refused realloc or a free of what was never     *)
(* recorded, also while and after the report is printed.                        *)
THEOREM NobodyIsAccused == Spec => []NoFalseAlarm
  BY InvAlways, PTL DEF Inv

(* For any number of threads and blocks: heaph_get_alloc_count                 *)
(* (heap_help.c:606) is the length of the list, every record ever made is in   *)
(* the list, in the pool or in a call's hands, and with no call under way the  *)
(* count is the number of blocks that are held.                                *)
THEOREM CountsAreRight == Spec => []CountIsHeld
  <1>1. AllInv => CountIsHeld
    BY CountHeld DEF AllInv
  <1> QED BY <1>1, AllAlways, PTL

(* For any number of threads and blocks, and a program that ends while other   *)
(* threads are in the middle of calls: heaph_atexit's report (heap_help.c:359) *)
(* names every block held at the exit, and none but those and the ones being   *)
(* allocated or freed just then; its numbers add up, and it says nothing of a  *)
(* leak only if told to be quiet or if the leaks are internal.                 *)
THEOREM ReportsAreRight == Spec => []ReportIsRight
  BY AllAlways, PTL DEF AllInv
===============================================================================
