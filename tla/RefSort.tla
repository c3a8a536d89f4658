-------------------------------- MODULE RefSort --------------------------------
(***************************************************************************)
(* The program of 1/reference/main.c on top of CoroSched: every coroutine   *)
(* takes names from a pool until it is empty, reads the file, sorts it from *)
(* the bottom up and writes it back under its name; main then reads all of  *)
(* them again and merges them.                                              *)
(*                                                                          *)
(* Whether the quantum has passed is the clock's choice, so that every merge *)
(* may yield or not.  The numbers are small; IntMax stands for INT_MAX.     *)
(* Arrays are sequences, but positions are counted from 0, as in the code.  *)
(***************************************************************************)
EXTENDS CoroSched, SortedNumbers

CONSTANTS Files,       \* names
          MaxArgs,     \* bound: names in argv
          Contents,    \* what a file may hold
          IntMax       \* no number is larger

ASSUME ConstantsAssumption ==
  /\ MaxArgs \in Nat \ {0} /\ IntMax \in Nat
  /\ NULL \notin Files
  /\ \A c \in Contents : c \in Seq(0..IntMax)

VARIABLES coro_count, argv,   \* the names in argv, from argv[3] on, one maybe several times
          original, disk,     \* what the files held at first, and hold
          pool,               \* files_pool, its head first
          pc, file_name, array, tmp, m, i,    \* the locals of each coroutine
          main, indices, merged

progVars == <<coro_count, argv, original, disk, pool, pc, file_name, array, tmp, m, i,
              main, indices, merged>>
vars == <<coroVars, progVars>>

(* The names that main takes: its loop ends at argc - 1, before the last one.  *)
names == SubSeq(argv, 1, Len(argv) - 1)

(* The pool is a stack: pool_append_file adds at the head. *)
Pooled == [k \in 1..Len(names) |-> names[Len(names) + 1 - k]]

Init ==
  /\ CoroInit
  /\ coro_count \in Coroutines
  /\ argv \in UNION {[1..n -> Files] : n \in 1..MaxArgs}
  /\ original \in [Files -> Contents] /\ disk = original
  /\ pool = Pooled
  /\ pc = [c \in Coroutines |-> "poll"]
  /\ file_name = [c \in Coroutines |-> NULL]
  /\ array = [c \in Coroutines |-> <<>>] /\ tmp = [c \in Coroutines |-> <<>>]
  /\ m = [c \in Coroutines |-> 0] /\ i = [c \in Coroutines |-> 0]
  /\ main = "create"
  /\ indices = <<>> /\ merged = <<>>

Create ==
  /\ main = "create" /\ Cardinality(stacks) < coro_count
  /\ coro_new(Cardinality(stacks) + 1)
  /\ main' = IF Cardinality(stacks') = coro_count THEN "wait" ELSE "create"
  /\ UNCHANGED <<coro_count, argv, original, disk, pool, pc, file_name, array, tmp, m, i,
                 indices, merged>>

Wait ==
  /\ main = "wait"
  /\ WaitBegins \/ \E c \in stacks : WaitReturns(c)
  /\ UNCHANGED progVars

-------------------------------------------------------------------------------
(* coroutine_func_f *)
Executes(c) == main = "wait" /\ coro_this_ptr = c

(* poll_next_file and coro_handle_file_selection: take a name, and yield. *)
Poll(c) ==
  /\ Executes(c) /\ pc[c] = "poll" /\ pool # <<>>
  /\ file_name' = [file_name EXCEPT ![c] = Head(pool)]
  /\ pool' = Tail(pool)
  /\ pc' = [pc EXCEPT ![c] = "read"]
  /\ coro_yield
  /\ UNCHANGED <<coro_count, argv, original, disk, array, tmp, m, i, main, indices, merged>>

End(c) ==
  /\ Executes(c) /\ pc[c] = "poll" /\ pool = <<>>
  /\ pc' = [pc EXCEPT ![c] = "ended"]
  /\ coro_body_returns
  /\ UNCHANGED <<coro_count, argv, original, disk, pool, file_name, array, tmp, m, i,
                 main, indices, merged>>

(* read_file, and merge_sort up to its loops.  For an empty file size - 1     *)
(* wraps around, so that they are entered and follow a null pointer.          *)
Read(c) ==
  /\ Executes(c) /\ pc[c] = "read"
  /\ array' = [array EXCEPT ![c] = disk[file_name[c]]]
  /\ tmp' = [tmp EXCEPT ![c] = disk[file_name[c]]]
  /\ m' = [m EXCEPT ![c] = 1] /\ i' = [i EXCEPT ![c] = 0]
  /\ pc' = [pc EXCEPT ![c] = IF Len(disk[file_name[c]]) = 1 THEN "write" ELSE "sort"]
  /\ main' = IF disk[file_name[c]] = <<>> THEN "wild" ELSE main
  /\ UNCHANGED <<coroVars, coro_count, argv, original, disk, pool, file_name, indices, merged>>

(* fopen or fclose fails: an assertion ends the program. *)
Fail(c) ==
  /\ Executes(c) /\ pc[c] \in {"read", "write"}
  /\ main' = "failed"
  /\ UNCHANGED <<coroVars, coro_count, argv, original, disk, pool, pc, file_name, array, tmp,
                 m, i, indices, merged>>

(* What merge leaves in tmp, t so far, of the stretches from..mid and on to `to'  *)
(* of a.  The cursor of the first is at first[k] when tmp[k] is due, and that   *)
(* of the second at mid + 1 + k - first[k].  Once the first stretch is used up  *)
(* nothing is written: tmp already holds what is left of the second.           *)
HasLeft(a, l, mid) == l <= mid /\ l < Len(a)
TakesLeft(a, l, r, mid, to) == HasLeft(a, l, mid) /\ (r > to \/ a[l + 1] < a[r + 1])

Written(t, a, from, mid, to) ==
  LET on == [k \in 0..Len(a) |-> [l \in 0..Len(a) |->
               IF TakesLeft(a, l, mid + 1 + k - l, mid, to) THEN l + 1 ELSE l]]
      first[k \in from..(to + 1)] == IF k = from THEN from ELSE on[k - 1][first[k - 1]]
  IN [k \in 1..Len(t) |->
        IF k - 1 \notin from..to THEN t[k]
        ELSE IF first[k] > first[k - 1] THEN a[first[k]]
        ELSE IF HasLeft(a, first[k], mid) THEN a[mid + 1 + k - first[k]]
        ELSE t[k]]

\* mutant: the last number of the stretch is not copied back
CopiedShort(s, t, from, to) == [k \in 1..Len(s) |-> IF k - 1 \in from..(to - 1) THEN t[k] ELSE s[k]]
CopiedBack(s, t, from, to)  == [k \in 1..Len(s) |-> IF k - 1 \in from..to THEN t[k] ELSE s[k]]

(* One call of merge in the loops of merge_sort, and the step to the next. *)
\* mutant: the stretches stay as long as they are
NotDoubled(n) == n
Doubled(n)    == 2 * n

Merge(c) ==
  /\ Executes(c) /\ pc[c] = "sort"
  /\ LET size == Len(array[c])
         mid  == i[c] + m[c] - 1
         to   == IF i[c] + 2 * m[c] - 1 < size - 1 THEN i[c] + 2 * m[c] - 1 ELSE size - 1
         on   == i[c] + 2 * m[c]
     IN /\ tmp' = [tmp EXCEPT ![c] = Written(@, array[c], i[c], mid, to)]
        /\ array' = [array EXCEPT ![c] = CopiedBack(@, tmp'[c], i[c], to)]
        /\ i' = [i EXCEPT ![c] = IF on < size - 1 THEN on ELSE 0]
        /\ m' = [m EXCEPT ![c] = IF on < size - 1 THEN @ ELSE Doubled(@)]
        /\ pc' = [pc EXCEPT ![c] = IF m'[c] <= size - 1 THEN "sort" ELSE "write"]
  /\ coro_yield \/ UNCHANGED coroVars
  /\ UNCHANGED <<coro_count, argv, original, disk, pool, file_name, main, indices, merged>>

Write(c) ==
  /\ Executes(c) /\ pc[c] = "write"
  /\ disk' = [disk EXCEPT ![file_name[c]] = array[c]]
  /\ pc' = [pc EXCEPT ![c] = "poll"]
  /\ file_name' = [file_name EXCEPT ![c] = NULL]
  /\ UNCHANGED <<coroVars, coro_count, argv, original, pool, array, tmp, m, i, main, indices, merged>>

-------------------------------------------------------------------------------
(* When no coroutine is left: merge_all_files reads the files in the order of  *)
(* the other pool, repeats included.                                          *)
MergeAll ==
  /\ main = "wait" /\ WaitIsOver
  /\ main' = "merge"
  /\ indices' = [j \in 1..Len(names) |-> 0]
  /\ UNCHANGED <<coro_count, argv, original, disk, pool, pc, file_name, array, tmp, m, i, merged>>

(* The first of the smallest next numbers, if that is below INT_MAX; else      *)
(* min_index stays -1, and an index before the array is counted up.           *)
content(j) == disk[Pooled[j]]
More(j)    == indices[j] < Len(content(j))
Value(j)   == content(j)[indices[j] + 1]

\* mutant: the first file's number is taken as long as it has one
TakesFirst(j) == More(j) /\ Value(j) < IntMax /\ \A k \in 1..(j - 1) : ~More(k)
Takes(j) ==
  /\ More(j) /\ Value(j) < IntMax
  /\ \A k \in 1..Len(names) : More(k) => Value(j) <= Value(k)
  /\ \A k \in 1..(j - 1) : More(k) => Value(j) < Value(k)

Take(j) ==
  /\ main = "merge" /\ Takes(j)
  /\ merged' = Append(merged, Value(j))
  /\ indices' = [indices EXCEPT ![j] = @ + 1]
  /\ UNCHANGED <<coroVars, coro_count, argv, original, disk, pool, pc, file_name, array, tmp,
                 m, i, main>>

TakeNone ==
  /\ main = "merge" /\ ~ \E j \in 1..Len(names) : Takes(j)
  /\ main' = IF \E j \in 1..Len(names) : More(j) THEN "wild" ELSE "written"
  /\ UNCHANGED <<coroVars, coro_count, argv, original, disk, pool, pc, file_name, array, tmp,
                 m, i, indices, merged>>

Next ==
  \/ Create \/ Wait \/ MergeAll \/ TakeNone \/ \E j \in 1..Len(names) : Take(j)
  \/ \E c \in Coroutines : Poll(c) \/ End(c) \/ Read(c) \/ Fail(c) \/ Merge(c) \/ Write(c)

Spec == Init /\ [][Next]_vars
FairSpec == Spec /\ WF_vars(Next)

-------------------------------------------------------------------------------
(* Properties. *)

TypeOK ==
  /\ main \in {"create", "wait", "merge", "written", "wild", "failed"}
  /\ pc \in [Coroutines -> {"poll", "read", "sort", "write", "ended"}]
  /\ \A k \in 1..Len(pool) : pool[k] \in Files
  /\ file_name \in [Coroutines -> Files \cup {NULL}]
  /\ m \in [Coroutines -> Nat] /\ i \in [Coroutines -> Nat]

(* Whatever order coroutines are created and end in, the list is that of the  *)
(* coroutines that are not deleted, linked both ways; the one that runs has a  *)
(* stack, has not ended, and its end finds the scheduler waiting, and at most  *)
(* one that has ended is in the list, so that nobody yields to a dead one.    *)
NoStrayJump ==
  /\ {Listed[k] : k \in DOMAIN Listed} = stacks
  /\ stacks = {} <=> coro_list = NULL
  /\ \A c \in stacks : /\ IF prev[c] = NULL THEN coro_list = c ELSE next[prev[c]] = c
                       /\ next[c] = NULL \/ prev[next[c]] = c
                       /\ ctx[c] # "none"
  /\ coro_this_ptr # coro_sched =>
       coro_this_ptr \in stacks /\ ~is_finished[coro_this_ptr] /\ is_sched_waiting
  /\ Cardinality({c \in stacks : is_finished[c]}) <= IF coro_this_ptr = coro_sched THEN 1 ELSE 0

(* Coroutines take turns in rounds, as Rounds says: the walk over the list by  *)
(* those who yield and its being cut by the scheduler lose nobody.            *)
Present    == [k \in DOMAIN Listed |-> Listed[k]]
FinishedAt == CHOOSE k \in DOMAIN Listed : Finished(k)
Live == IF \E k \in DOMAIN Listed : Finished(k)
        THEN SubSeq(Present, 1, FinishedAt - 1) \o SubSeq(Present, FinishedAt + 1, Len(Present))
        ELSE Present
TurnOf(c) == CHOOSE k \in 1..Len(Live) : Live[k] = c
Turns == INSTANCE Rounds WITH
           order <- Live, turn <- IF coro_this_ptr = coro_sched THEN 0 ELSE TurnOf(coro_this_ptr)
ImplementsRounds == Turns!Spec

(* A file holds its numbers as they were, or sorted, whoever works on it, and  *)
(* even when argv names it twice.  1/task_eng.txt:8 wants every file sorted:   *)
(* those that main takes are, when no name of theirs is left in the pool or   *)
(* with a coroutine; one that only the last name means stays as it was.       *)
(* Between two merges tmp is a copy of the array, on which the next relies.    *)
Claims(f) == {k \in 1..Len(pool) : pool[k] = f} \cup {c \in Coroutines : file_name[c] = f}
Taken(f)  == \E k \in 1..Len(names) : names[k] = f
FilesAreSafe ==
  /\ TypeOK
  /\ \A f \in Files : disk[f] = original[f] \/ SortedInto(original[f], disk[f])
  /\ \A f \in Files : IF Taken(f) THEN Claims(f) = {} => IsSorted(disk[f])
                                  ELSE disk[f] = original[f]
  /\ \A c \in Coroutines : pc[c] \in {"sort", "write"} => tmp[c] = array[c]

(* merged.txt holds the numbers of all names but the last one, sorted.  Every  *)
(* int is a number (1/task_eng.txt:63): it is written exactly when none of     *)
(* them is INT_MAX, else the merge goes astray when all smaller ones are in.   *)
CountInFiles(x) ==
  Cardinality(UNION {{j} \X {k \in 1..Len(original[names[j]]) : original[names[j]][k] = x}
                     : j \in 1..Len(names)})
ResultIsRight ==
  /\ IsSorted(merged)
  /\ main = "written" => /\ CountInFiles(IntMax) = 0
                         /\ \A x \in 0..IntMax : Count(x, merged) = CountInFiles(x)
  /\ main = "wild" /\ indices # <<>> =>
       CountInFiles(IntMax) > 0 /\ \A x \in 0..(IntMax - 1) : Count(x, merged) = CountInFiles(x)

(* The program ends, given that its one thread is scheduled: however often the *)
(* coroutines yield in their loops, each round brings one of them on.         *)
ProgramEnds == <>(main \in {"written", "wild", "failed"})
===============================================================================
