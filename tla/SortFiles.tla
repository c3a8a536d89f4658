------------------------------- MODULE SortFiles -------------------------------
(***************************************************************************)
(* The program of 1/mine/main.c on top of CoroLoop: n_coro coroutines share *)
(* a list of files; each looks for a free one, claims it, reads it and      *)
(* merge-sorts it, and may yield in between; main merges the sorted files.  *)
(*                                                                          *)
(* Whether the quantum has passed is the clock's choice, so every           *)
(* coro_yield_with_metrics may yield or not.  Between two of them nobody    *)
(* else runs, so such a stretch is a step or several.  The numbers are      *)
(* small integers; IntMax stands for INT_MAX.                               *)
(***************************************************************************)
EXTENDS CoroLoop, Integers, SortedNumbers

CONSTANTS MaxFiles,    \* bound: files
          MaxLength,   \* bound: numbers in a file
          Contents,    \* what a file may hold
          IntMax       \* no number is larger

ASSUME ConstantsAssumption ==
  /\ MaxFiles \in Nat \ {0} /\ MaxLength \in Nat /\ IntMax \in Nat
  /\ \A c \in Contents : c \in Seq(0..IntMax) /\ Len(c) <= MaxLength

VARIABLES n_coro,
          contents,    \* the files on the disk, in the order of argv
          status,      \* file_data.status: 1 when somebody has claimed the file
          result,      \* file_data.result: the array, once it is read
          pc,          \* where a coroutine is in coroutine()
          file_i,      \* its file_i
          merges,      \* the calls of merge_sort it has not finished, [at, len]
          main,        \* where main is
          cursors, merged

progVars == <<n_coro, contents, status, result, pc, file_i, merges, main, cursors, merged>>
vars == <<loopVars, progVars>>

n_files == Len(contents)
Unread == <<-1>>    \* result before input_file

Init ==
  /\ LoopInit
  /\ n_coro \in Coroutines
  /\ contents \in UNION {[1..n -> Contents] : n \in 1..MaxFiles}
  /\ status = [i \in 1..n_files |-> 0]
  /\ result = [i \in 1..n_files |-> Unread]
  /\ pc = [c \in Coroutines |-> "find"]
  /\ file_i = [c \in Coroutines |-> 1]
  /\ merges = [c \in Coroutines |-> <<>>]
  /\ main = "create"
  /\ cursors = [i \in 1..n_files |-> 0]
  /\ merged = <<>>

Created == Cardinality(allocated)

CreateNext ==
  /\ main = "create" /\ Created < n_coro
  /\ coro_create(Created + 1)
  /\ UNCHANGED progVars

(* malloc fails, or a file cannot be opened: err() ends the program. *)
Fail ==
  /\ \/ main = "create" /\ Created < n_coro
     \/ loop = "running" /\ pc[current] = "input" /\ main = "loop"
  /\ main' = "failed"
  /\ UNCHANGED <<loopVars, n_coro, contents, status, result, pc, file_i, merges, cursors, merged>>

Start ==
  /\ main = "create" /\ Created = n_coro
  /\ loop_start
  /\ main' = "loop"
  /\ UNCHANGED <<n_coro, contents, status, result, pc, file_i, merges, cursors, merged>>

Executes(c) == main = "loop" /\ loop = "running" /\ c = current

coro_yield_with_metrics == coro_yield \/ UNCHANGED loopVars

(* Look for a free file from the last one on, and claim it. *)
FreeFiles(c) == {i \in file_i[c]..n_files : status[i] = 0}

\* mutant: it is not claimed
NeverClaimed(i) == status
Claimed(i)      == [status EXCEPT ![i] = 1]

Find(c) ==
  /\ Executes(c) /\ pc[c] = "find"
  /\ \E i \in FreeFiles(c) :
       /\ \A j \in FreeFiles(c) : i <= j
       /\ status' = Claimed(i)
       /\ file_i' = [file_i EXCEPT ![c] = i]
  /\ pc' = [pc EXCEPT ![c] = "input"]
  /\ coro_yield_with_metrics
  /\ UNCHANGED <<n_coro, contents, result, merges, main, cursors, merged>>

(* No file is free: the function returns. *)
NoneFree(c) ==
  /\ Executes(c) /\ pc[c] = "find" /\ FreeFiles(c) = {}
  /\ file_i' = [file_i EXCEPT ![c] = n_files + 1]
  /\ pc' = [pc EXCEPT ![c] = "over"]
  /\ Reap
  /\ main' = IF loop' = "over" THEN "merge" ELSE main
  /\ UNCHANGED <<n_coro, contents, status, result, merges, cursors, merged>>

(* The calls merge_sort makes for an array of n, with more than one element,  *)
(* in the order they finish.                                                  *)
Shifted(calls, by) == [k \in 1..Len(calls) |-> [calls[k] EXCEPT !.at = @ + by]]

merge_sort[n \in 0..MaxLength] ==
  LET half == n \div 2
  IN IF n <= 1 THEN <<>>
     ELSE merge_sort[half] \o Shifted(merge_sort[n - half], half) \o <<[at |-> 0, len |-> n]>>

After(c, left) == [pc EXCEPT ![c] = IF left = <<>> THEN "find" ELSE "sort"]

Input(c) ==
  /\ Executes(c) /\ pc[c] = "input"
  /\ result' = [result EXCEPT ![file_i[c]] = contents[file_i[c]]]
  /\ merges' = [merges EXCEPT ![c] = merge_sort[Len(contents[file_i[c]])]]
  /\ pc' = After(c, merges'[c])
  /\ coro_yield_with_metrics
  /\ UNCHANGED <<n_coro, contents, status, file_i, main, cursors, merged>>

(* The loop of merge_sort over l..m-1 and m..r-1.  cur1[k] is where the cursor   *)
(* of the first half is when buf has been filled up to k; that of the second   *)
(* is at m + k - cur1[k] then.                                                *)
\* mutant: the larger number goes first
TakesLarger(array, i, j, m, r) == i < m /\ (j = r \/ array[i + 1] > array[j + 1])
TakesFirst(array, i, j, m, r)  == i < m /\ (j = r \/ array[i + 1] < array[j + 1])

Merged(array, l, m, r) ==
  LET on == [k \in 0..Len(array) |-> [i \in 0..Len(array) |->
               IF TakesFirst(array, i, m + k - i, m, r) THEN i + 1 ELSE i]]
      cur1[k \in l..r] == IF k = l THEN l ELSE on[k - 1][cur1[k - 1]]
  IN [k \in 1..Len(array) |->
        IF k - 1 \notin l..(r - 1) THEN array[k]
        ELSE IF cur1[k] > cur1[k - 1] THEN array[cur1[k]]
        ELSE array[m + k - cur1[k]]]

MergeCall(array, call) ==
  Merged(array, call.at, call.at + call.len \div 2, call.at + call.len)

(* A call with two elements swaps them and does not yield. *)
Sort(c) ==
  /\ Executes(c) /\ pc[c] = "sort"
  /\ result' = [result EXCEPT ![file_i[c]] = MergeCall(@, Head(merges[c]))]
  /\ merges' = [merges EXCEPT ![c] = Tail(@)]
  /\ pc' = After(c, merges'[c])
  /\ IF Head(merges[c]).len = 2 THEN UNCHANGED loopVars ELSE coro_yield_with_metrics
  /\ UNCHANGED <<n_coro, contents, status, file_i, main, cursors, merged>>

(* main takes the smallest of the files' next numbers, of the first file that *)
(* has it, if it is below INT_MAX; else min_j stays -1 and cursors[-1] is     *)
(* counted up, which is undefined.                                            *)
More(i)  == cursors[i] < Len(result[i])
Value(i) == result[i][cursors[i] + 1]

Takes(i) ==
  /\ More(i) /\ Value(i) < IntMax
  /\ \A j \in 1..n_files : More(j) => Value(i) <= Value(j)
  /\ \A j \in 1..(i - 1) : More(j) => Value(i) < Value(j)

Take ==
  /\ main = "merge"
  /\ \E i \in 1..n_files :
       /\ Takes(i)
       /\ merged' = Append(merged, Value(i))
       /\ cursors' = [cursors EXCEPT ![i] = @ + 1]
  /\ UNCHANGED <<loopVars, n_coro, contents, status, result, pc, file_i, merges, main>>

TakeWild ==
  /\ main = "merge"
  /\ \E i \in 1..n_files : More(i)
  /\ ~ \E i \in 1..n_files : Takes(i)
  /\ main' = "wild"
  /\ UNCHANGED <<loopVars, n_coro, contents, status, result, pc, file_i, merges, cursors, merged>>

Output ==
  /\ main = "merge" /\ ~ \E i \in 1..n_files : More(i)
  /\ main' = "printed"
  /\ UNCHANGED <<loopVars, n_coro, contents, status, result, pc, file_i, merges, cursors, merged>>

Next ==
  \/ CreateNext \/ Start \/ Fail
  \/ \E c \in Coroutines : Find(c) \/ NoneFree(c) \/ Input(c) \/ Sort(c)
  \/ Take \/ TakeWild \/ Output

Spec == Init /\ [][Next]_vars
FairSpec == Spec /\ WF_vars(Next)

-------------------------------------------------------------------------------
(* Properties. *)

(* Every call of merge_sort stays inside of its array, nobody works on a file *)
(* that is not there, and no pointer leads outside of the nodes.              *)
TypeOK ==
  /\ next \in [Nodes -> Nodes] /\ prev \in [Nodes -> Nodes]
  /\ allocated \subseteq 1..n_coro /\ n_coro \in Coroutines
  /\ current \in Nodes /\ loop \in {"new", "running", "over"}
  /\ contents \in Seq(Contents) /\ n_files \in 1..MaxFiles
  /\ status \in [1..n_files -> {0, 1}]
  /\ \A i \in 1..n_files : result[i] = Unread \/ Len(result[i]) = Len(contents[i])
  /\ pc \in [Coroutines -> {"find", "input", "sort", "over"}]
  /\ file_i \in [Coroutines -> 1..(n_files + 1)]
  /\ \A c \in Coroutines : \A k \in 1..Len(merges[c]) :
       merges[c][k].at + merges[c][k].len <= Len(contents[file_i[c]])
  /\ main \in {"create", "loop", "merge", "printed", "wild", "failed"}
  /\ \A i \in 1..n_files : cursors[i] \in 0..Len(result[i])

(* However the ring is walked while it is cut, the coroutine that executes is *)
(* never on a freed stack, and no link of a node that is left leads to a      *)
(* freed one: the node that is freed at last is followed by nobody.           *)
NoStrayPointer ==
  /\ loop = "running" => current \in allocated
  /\ loop # "over" => \A n \in allocated \cup {Sentinel} :
       /\ next[n] \in allocated \cup {Sentinel}
       /\ prev[next[n]] = n
  /\ loop = "over" => allocated = {}

(* The ring takes turns as RoundRobin promises: nobody is passed over when a  *)
(* coroutine before, behind or at the sentinel yields or returns.             *)
First == IF loop = "new" THEN next[Sentinel] ELSE current
Order[k \in 1..Cardinality(allocated)] == IF k = 1 THEN First ELSE NodeAfter(Order[k - 1])
Turns == INSTANCE RoundRobin WITH
           order <- [k \in 1..Cardinality(allocated) |-> Order[k]], phase <- loop
ImplementsRoundRobin == Turns!Spec

(* A file that was claimed is in the hands of one coroutine until it is       *)
(* sorted, wherever that one yields, and nobody touches it before or after.   *)
(* When the loop is over none is left, so that main may add up the counts.    *)
SortersOf(i) == {c \in allocated : pc[c] \in {"input", "sort"} /\ file_i[c] = i}
OneSorterPerFile ==
  /\ TypeOK
  /\ \A i \in 1..n_files :
       \/ status[i] = 0 /\ loop # "over" /\ SortersOf(i) = {} /\ result[i] = Unread
       \/ status[i] = 1 /\ Cardinality(SortersOf(i)) = 1
       \/ status[i] = 1 /\ SortersOf(i) = {} /\ SortedInto(contents[i], result[i])

(* What is printed are the numbers of all files, sorted.  Every int is a       *)
(* number (1/task_eng.txt:63): it is printed exactly when none of them is       *)
(* INT_MAX, else the merge goes astray when all smaller ones are in.           *)
CountInFiles(x) ==
  LET places == {p \in (1..n_files) \X (1..MaxLength) : p[2] <= Len(contents[p[1]])}
  IN Cardinality({p \in places : contents[p[1]][p[2]] = x})
ResultIsRight ==
  /\ main \in {"merge", "printed", "wild"} => IsSorted(merged)
  /\ main = "printed" => /\ CountInFiles(IntMax) = 0
                         /\ \A x \in 0..IntMax : Count(x, merged) = CountInFiles(x)
  /\ main = "wild" => /\ CountInFiles(IntMax) > 0
                      /\ \A x \in 0..(IntMax - 1) : Count(x, merged) = CountInFiles(x)

(* The program ends, however often the clock lets its coroutines yield, given *)
(* that its one thread is scheduled: no coroutine finds work for ever, and the *)
(* loop's test comes true when the last one returns.                          *)
ProgramEnds == <>(main \in {"printed", "wild", "failed"})
================================================================================
