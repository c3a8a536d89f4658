# TLA+ models of the system programming exercises

The repository holds the author's solutions of five exercises: coroutines (`1/`), a shell (`2/`),
a file system in memory (`3/`), a thread pool (`4/`) and a chat (`5/`, not begun), and a leak
detector their tests are linked with (`utils/heap_help`). They are separate programs. This
directory models each of them that has behaviour of its own; every module says at its head which
file it is about, and `PROJECT.json` maps each definition to lines.

## The system

| Component | State | Operations | What is hard | What makes it correct |
|---|---|---|---|---|
| Thread pool, `4/thread_pool.c` | the queue, `running_tasks_count`, `is_deleting`, `threads_count`; per task `status`, `is_detached`, result | `thread_pool_new`, `push_task`, `delete`; `task_new`, `join`, `timed_join`, `detach`, `delete`; `worker_function` | workers and the client interleave at two mutexes, two condition variables and three atomics, some read without a mutex | each push runs once, join waits for it, nobody touches a freed task, the pool goes away empty, calls return |
| Task queue, same file | `head`, `tail`, `size`, `next` of each task | `queue_push_back`, `queue_pop_front` | pointers are neither initialised nor cleared; only `size` tells which count | first in, first out; bounded |
| File contents, `3/userfs.c` | list of blocks, `occupied` of each; per descriptor block, index, offset | `ufs_read`, `ufs_write`, `ufs_resize` | a descriptor's position is kept three times and other descriptors' calls change the list under it | acts as a sequence of bytes with a position for each descriptor |
| Names and descriptors, same file | list of files, `refs`, `is_removed`, table of descriptors | `ufs_open`, `ufs_close`, `ufs_delete`, `ufs_destroy` | deleted files live until closed while their name is given out again | a name leads to one file, a descriptor to the file it was opened on |
| Shell: pipelines, `2/pipe_list.c` | per process a table of descriptors; the pipes | `pipe_list_exec`, `program_exec` | every end held too long or too shortly hangs the pipeline or loses data; numbers are reused | data flows between neighbours, ends are seen, the shell is left clean |
| Shell: chains, `2/command.c`, `2/solution.c` | the mode, the last code | `command_exec`, `main` | one mode stands for the operator before an entry and all codes before it | entries run as the left-to-right rule of bash says |
| Shell: tokens, `2/parser.c`, `2/evaluator.c` | the place in stdin and in the loops of the tokenizer; the list of tokens | `tokenize_command`; `evaluate` with `init_pipe_list`, `init_program` | what a character means depends on all before it; bounds of entries and programs are kept by index | the tokens are those bash sees, the entries spell the line |
| Coroutines and merge sort, `1/mine` | ring of nodes, `current_coro_node`; per file `status`, array; per coroutine its place | `coro_create`, `coro_yield`, `loop_start`; `coroutine`, `merge_sort`, `main` | the ring is walked by who yields and cut by who returns; the files are shared | turns are taken fairly, each file is sorted once, the output is the sorted whole |
| Reference coroutines and merge sort, `1/reference` | the list of coroutines, the context of each, who runs, whether the scheduler waits; the pool of names; per coroutine its file, array, second array and place | `coro_new`, `coro_yield`, `coro_sched_wait`, `coro_delete`; `coroutine_func_f`, `merge_sort`, `merge`, `merge_all_files` | a coroutine that ends jumps out of the middle of a list others walk; two may work on one file, each in its own memory | jumps lead to live coroutines, turns go in rounds, a file keeps its numbers, the output is the sorted whole |
| Leak detector, `utils/heap_help` | the list of records, a pool of unused ones, `alloc_count`, `is_init_done`, `is_exit_done`, the blocks of `static_buf`; per thread its depth | `malloc`, `calloc`, `realloc`, `free`, `strdup`, `getline`, `getaddrinfo`, ...; `alloc_trace_new`, `alloc_free`, `heaph_atexit` | the system frees a block before the record of it goes, the record comes after the block, the report is printed while threads go on | the records are those of the blocks that are held, nobody is accused wrongly, the report names what was held |
| Sort with asynchronous input, `1/mine/main_aio.c` | | | reads bytes nobody set | not modelled, see the end |
| Chat, `5/` | | | | stubs: nothing to model |

The thread pool owns the task queue; the shell's chains call its pipelines once per entry; each
sort calls its coroutine library; `heap_help` stands between any of them and the system's
allocator and depends on none. Nothing else interacts. `PROJECT.json` lists under `hazards` each
place where this code could go wrong in a way its tests would hardly show.

## Modules

**Thread pool.** `ThreadPool` has the whole API with one client thread, as `4/test.c` has, and
`MaxThreads` workers. A step is a critical section or one access to an atomic: everything between
two points where another thread can see or do something. `wpc[w]` is a worker's place in
`worker_function`, from popping (lines 97-122) over the second lock and the check of `is_deleting`
(124-131), `pthread_cond_wait` (133), the run (141) and the status (143-153) to the decrement
(156). `call` is the API call the client is in and where. The mutexes are derived from these
places. Condition variables are places as well: a worker in `wait` moves when a broadcast moves it.
`handle[t]` is what the client knows of a task: it does not push a task again before it has joined
it, and uses none that it has deleted or given away. It may delete one at any moment, as `4/test.c`
does, and `thread_task_delete` looks at `status` twice (`TaskDelete`, `TaskDeleteSecond`). Any wait
may end without a signal (`WakeUnsignalled`, `JoinWakeUnsignalled`), as POSIX allows. So a join can
return a task that is still in the pool, and a delete can free one under its worker. What the
program does after that is undefined, and the model ends there (`wild`).
`TaskPool` is the same seen from outside: tasks waiting in order, active, done. `ThreadPool`
implements it, with the queue as `order`.

`TaskQueue` is the queue's linked list, for any numbers of pushing and popping threads. It starts
with what `malloc` leaves in `next`, lets it change while a task is not queued, and keeps stale
`head` and `tail` after the last pop, as the code does. It implements `Fifo`. `ThreadPool` takes
the queue for the sequence that `TaskQueue` shows it to be. `PoolObjects` holds the constants both
have; the definitions of `TaskQueue` that every specification has (`QueueInit`, `QueueNext`,
`QueueSpec`) carry the queue in their names, so that one module can prove about both.

**UserFS.** `UserFile` is one file and the descriptors on it; a call is a step, nothing runs
concurrently there. The bytes are the blocks' memory end to end; `occupied` says how much of each
block counts; a descriptor has `block`, `index` and `offset` as in the code, and all three matter,
because they come to disagree. It acts as `FlatFile`, which is what `userfs.h` says of an open file,
with one freedom that its head names. Two kinds of steps break that promise, and `ActsAsFlatFile`
excepts exactly these: `KeepsTail`, a size within the last block, which cuts nothing, and
`LeavesShort`, a shrinking after which a descriptor is before the new end. `UserFS` is the list of
files and the table of descriptors and implements `OpenFiles`. Its state `wild` is reached when a
descriptor number one past the table is used, which the code's check admits (line 86); nothing is
claimed from there on.

**Shell.** `Pipeline` is `pipe_list_exec` with a real table of descriptor numbers in every process,
`pipe` giving out the lowest free ones and `dup2` and `close` working on numbers: the shell's
`MakePipe`, `Fork`, `ClosePrevious`, `CloseCurrent`, `Wait` and `Die`, the child's `Exec`, and the
programs' reads and writes (`ShellStep` is any of the shell's). The programs are six kinds of
behaviour, from one that ends at once to one that writes for ever. It implements `ProgramChain`.
`Shell` is above it: `main`'s loop, the fork for `&`, and `command_exec`, where a pipeline is one
step that yields a code; each process of it (`Shells`) `stands` at an entry or outside of any, with
`mode` and `lastCode`. It implements `ShellRule`, which has no modes and is bash's side: an entry
runs if it is the first, or follows `&&` and the last code is 0, or follows `||` and it is not; a
failed `cd` counts as 1, an `exit` without a number leaves with the code before it, and a line with
`&` sets the status to 0. The shell does otherwise in two steps, which `ImplementsShellRule`
excepts: `LosesCode`, the end of a line that has no code, and `KeepsStatus`, a line with `&`.
`ShellText` reads: `tokenize_command` and `evaluate` as functions of a text and a place in it, with
the code's order of rounds (a part in single quotes, one in double quotes, one character), since
that order is what differs from a shell's grammar. `BashText` says the same without loops: each
character gets a context from the one before it, and words, operators and ends of lines are read off
the contexts. `Ordinary` in it names the texts on which the two are known to differ. `ShellSession`
puts `ShellText` in front of `Shell`: `ReadAndEvaluate` is an iteration of `main`'s loop, which
reads a line when the one before is done. A redirection with no program in front of it takes
`evaluate` out of its bounds or leaves it a program without a name; the session is `wild` from there
on.

**Coroutines.** `CoroLoop` is the library: `next` and `prev` around the sentinel, `current`, and
which nodes are allocated; `coro_create`, `loop_start`, `coro_yield` and `Reap` (the code after
`swapcontext` in `loop_start`). `SortFiles` is the program that uses it. `Find`, `Input` and `Sort`
each end at a place where `coro_yield_with_metrics` may yield or not; `merge_sort[n]` is the list of
recursive calls that are made for `n` numbers, in the order in which they finish, so that a
coroutine stops between any two. `Merged` is the loop of one call: where its first cursor stands
when the buffer has been filled up to `k` is a function of `k` (`cur1`), and the second cursor's
place follows from it, so that nothing is recursive. `Take` and `TakeWild` are `main`'s merge. The
ring implements `RoundRobin`, a sequence whose head runs and goes to the back when it yields.

`CoroSched` is the library of the reference solution: `coro_list` with `next` and `prev`, what a
jump to a coroutine leads to (`ctx`), `coro_this_ptr`, and whether the scheduler's context is in
`coro_sched_wait`. It implements `Rounds`: the newest coroutine begins a round, each yields to the
next older one, and one that ends stops the round. `RefSort` is the program: `Poll` takes a name
and yields, `Read` reads the file, `Merge` is one call of `merge` after which the coroutine may
yield or not, `Write` writes the file back; `Take` and `TakeNone` are the merge of all files. All of
it is about `names`, which is `argv` without its last name, as `main`'s loop drops that one (337).
`Written` says what `merge` leaves in the second array, by the place of its first cursor (`first`),
and that it writes nothing any more once the first half is used up. `SortedNumbers` is what both
sorts are measured by.

`MergeLemmas` holds what the proofs about the two sorts share: what a merge by two cursors makes of
two stretches, and what has been merged of several arrays when a cursor stands in each.

**Leak detector.** In `HeapHelp` a call of a redefined function is a sequence of steps: the entry
with the call of the system's function (`Allocate`, `ReallocMoves`, `FreeBlock`, ...), then
`alloc_free` (`CheckFree` or `SkipFree`, `Forget` or `BadMemory`), then the system's free or
`alloc_trace_new` (`TakeRecord`, `Link`), each what is done under one lock or without any. Other
threads run between them. `allocs` is a bag of records: the order of the list and what a record
says besides its block are left out. `held` is what the program may use, `inner` what system
functions allocated inside of a call and the library does not record, `taken` what the system has
given out. Two histories are kept for the properties: `debts` counts records that are missing for a
reason the code is known for (a `realloc` that had no memory, a free of an inner block), and
`atExit` is what was held when the report became due. The first call is one thread's: before a
second thread runs `pthread_create` has been called, which allocates.

The `MC...` modules give the constants their values for the runs. Definitions whose comment says
`mutant` are plausible mistakes in the definition below them and are used nowhere; the properties
were each seen to fail with one of them in place.

## What is checked

| Run | What it shows |
|---|---|
| `pool` | The pool implements `TaskPool`; each push runs exactly once; a joined task is in nobody's hands, but for a join that woke up without a signal; no freed task is referred to, but by the worker under which `thread_task_delete` freed it; a deleted pool is empty and no count goes below 0; `status` goes round in its order; a task that a worker took is finished, its join and every timed join return, a detached one is freed |
| `join_early` | *Violation.* A join that returns a task which is still in the queue |
| `join_lost_wakeup` | *Violation.* A join that never returns |
| `task_queue` | The pointers spell the queue's contents, the limit holds for one pusher, the list is first in, first out |
| `userfs_file` | Descriptors are on blocks of the file, which keeps its bounds, no gap arises in front of a writer, the calls act as on a flat file, but for `KeepsTail` and `LeavesShort` |
| `userfs_rewind` | *Violation.* A descriptor that goes backwards |
| `userfs_names` | The list of files is sound both ways, a file lives exactly while it is named or open and the table has room for the next descriptor, `OpenFiles` |
| `shell_pipeline` | The ends of a pipe are held by neighbours only, `ProgramChain`, the call returns and leaves the shell as it was |
| `shell_session` | The tokens and commands are those bash reads in the same text, the shell goes wild only where bash redirects nothing, the mode always tells the operator before and the last code, `ShellRule` but for `LosesCode` and `KeepsStatus` |
| `sort_loop` | No pointer leads to a freed node, `RoundRobin`, each file has one sorter, the sorted whole is printed exactly when no file holds `INT_MAX`, the program ends |
| `ref_sort` | No jump leads to a coroutine that is gone, `Rounds`, files keep their numbers also when named twice, those taken are sorted and the others left alone, the sorted whole of those taken is written exactly when none holds `INT_MAX`, the program ends |
| `heap_help` | One record for each block held and each call that has yet to forget it; the count is the length of the list; no false accusation; the report is right |

Bounds, and why they are enough:

* `pool`: two interchangeable tasks, two threads, a queue of two, three pushes in all. Two workers
  and the client make each race of the code (two workers for one task, a worker against join,
  detach, delete), and the third push pushes a task again while the other worker is still at its
  end.
* `join_early`, `join_lost_wakeup`: the same with a queue of one, so that pushes are refused, and
  two pushes, which are enough for their traces.
* `task_queue`: four tasks and a limit of three: empty, one, several and full; one pusher, two
  poppers.
* `userfs_file`: two blocks of two bytes, writes of one byte and of three, reads of up to three:
  inside of a block, to its end, over it, and past the limit. Two descriptors, since a call disturbs
  another's position pairwise. `MaxIndex` cuts off descriptors whose index has run ahead.
* `userfs_names`: two names, three files, four opens with a table that grows by two: it grows twice.
* `shell_pipeline`: all chains up to three programs out of six kinds (first, middle and last program
  all differ in the code) and two of length four, where the loop's middle iteration is repeated and
  numbers come back; pipes that hold one item, so that writers block.
* `shell_session`: every text of up to four of eleven characters, where each character stands next
  to each other one, at the start, inside and at the end; every text of up to six of the characters
  that make words, for two quoted parts with something in them side by side (`'a'"a"`) and escapes
  in quotes. `ReadsAsBash` speaks of 6989 of the 34,904 texts; the others run too. Lines with chains
  of up to four entries, as the mode depends on at most all that came before, with pipes and
  redirections in them, also of nothing, two lines, and lines before and behind one in the
  background; codes 0, 1 and none.
* `sort_loop`: one to three coroutines, one to three files of 0 to 5 numbers with duplicates and
  `INT_MAX`. Five numbers (`MaxLength`) give calls of `merge_sort` with 1, 2, 3 and 5; more
  coroutines than files and fewer occur.
* `ref_sort`: one to three coroutines, up to four names in `argv` of two files, of which `main`
  takes three, so that a name comes twice, two coroutines hold the same file, and the last name is
  of a file that is taken or of one that is not; files of 0, 1, 3 and 6 numbers with duplicates and
  `INT_MAX`: 3 and 6 make last stretches that are short and ones that are missing.
* `heap_help`: two threads, two blocks, one block of `static_buf`. A block that one thread's
  `realloc` has given back must be given to the other, which takes two of each; `report_limit` 1
  makes the report cut its list. `MaxDebts` 1: each kind of missing record
  occurs, and the other block is still accounted for.

`CHECK_DEADLOCK FALSE` stands where the system really may stop: a client of the pool may just stop
calling (and the pool really can hang, see below), the file system may have been destroyed, a
pipeline has returned, the shell and the sorts have ended, `heap_help` has ended the program.

Fairness. `ThreadPool`: every worker thread is scheduled, task functions return, and the client
finishes a call it has begun, but need not begin one; no wakeup without a signal has to come.
`Pipeline`: each process is scheduled. Both are weak fairness of one process each, what an operating
system gives to runnable threads. `SortFiles` and `RefSort`: their only thread goes on. `yes` may
write for ever: `PipelineReturns` asks only for pipelines where a later program ends.

## What is proved

Proofs are checked by TLAPS for every value of the constants that the modules' assumptions admit:
null pointers are none of the objects and no file name, sizes, limits and what files hold are
natural numbers, there are finitely many files in `UserFS` and threads and blocks in `HeapHelp`, the
files of `SortFiles` have some greatest length, and coroutines are numbered 1, 2, ... in the order
of their creation.

`ThreadPoolProofs` is about the pool and its queue.

*The queue.* `PointersSpellQueue` ties the pointers to the history `contents`: `size` is its
length and, if that is not 0, `head` and `tail` are its ends and `next` leads from each task to the
one behind it. Nothing is said of the pointers otherwise, and that is the argument: a pop that
empties the queue leaves `head` on garbage, and the next push must not look at it. It is inductive
together with the types and `LinkedOnce` (a task is linked in once, and not while it is being
pushed), without which a push would cut the list at the second place of its task. From it follow
`PointersAreRight` and that `TaskQueue` implements `Fifo`. `OnePusherKeepsTheLimit` needs its
premise: with two pushers the limit is false.

*The pool.* Proved for any number of tasks, threads and pushes, with wakeups that no signal caused
and deletes at any moment, are `TypeOK`, `ExactlyOnce`, `IdleTaskIsDone`, `NoUseAfterFree` and
`DeletedPoolIsDrained`. Only `TypeOK` and `ExactlyOnce` come
close to being inductive, so the invariant `Inv` has parts that each answer one question: which
workers exist and have a task (`WorkerInv`), that a task is in one place and its status says which
(`PlaceInv`), what the client may believe of a task (`HandleInv`), what a call in progress has
established (`CallInv`), whose memory is allocated (`AliveInv`), how `runs` and `pushes` differ
(`CountInv`), which threads can exist in a pool that is being deleted (`PoolInv`), and that
`running_tasks_count` counts the workers between its two changes (`RunningInv`). The queue is empty
from the moment `thread_pool_delete` has looked at it, because the only client is in that call;
that, the join of the threads, and the counter they leave at 0 make the pool safe to free.

A join that wakes up too early and a delete under a worker break `Inv` for good, so what is
inductive is `PoolSound`: either all of that and nothing wild, or the `Aftermath`, in which the
other properties still hold: no push is run twice, and only the worker at its broadcast (151-153)
can refer to a freed task. `GoingWrong` shows that no other step than those two leads there,
`WrongStep` what they leave behind, and `AftermathStays` that nothing moves afterwards. So
`IdleTaskIsDone` and `NoUseAfterFree` name the only ways in which the pool can fail.

`StatusIsNeverTakenBack` (`StatusGoesRound`) is from the same invariant: only the worker that has
the task, the client's push, and a join that waited for it write its status. One thing is added,
`RestInv`: a task that nobody has is free or finished, unless the client is just pushing it, so that
what join stores without the mutex (line 276) overwrites nothing but "finished".

*The contract.* `PoolKeepsItsContract`: `ThreadPool` implements `TaskPool`. The abstract phase of a
task is read off where it is: in the queue, in a worker's hands before the status is set (`Active`),
in those of a worker about to free it (`Reaped`), or with the client. Each step moves at most one
task; the lemmas say so for the steps that pop, settle, enqueue, create and free, and that all
others move nobody (`MovesNobody`). A pop must find less than `MaxThreads` active tasks: each active
task has a worker of its own and the worker that pops has none yet, so that they fit into one worker
less (`RoomForOne`). Closing needs that nobody is waiting or active, which is `DeletedPoolIsDrained`
one step earlier.

`UserFSProofs`. For any number of files, names and opens: `ListStaysSound` (`ListIsSound`),
`FilesLive` (`FilesLiveWhileUsed`) and `NamesAndDescriptors` (`UserFS` implements `OpenFiles`).
`LinkInv` says that the files which have a name stand in some order, without repetition and with
different names, and that `file_list`, `next` and `prev` lead along it. The order is said to exist
and is not computed: `ufs_open` puts a file in front of it, `ufs_delete` and `ufs_destroy` take one
out. What the code finds by walking the list (`Walk`) is then shown to be what stands at each place
of the order; were there a first place where they differ, the place before it would contradict the
links. `LivesInv` says that `refs` counts the descriptors which are on a file, that exactly the
files without a name are marked as removed, and that no more places of the table are in use than
`count` says, so that a table which is not full has a free place for the next open. The refinement
needs all of it: a name leads to the one listed file that bears it, and a file deleted while open
keeps its descriptors when its name is given out again. Once a descriptor number one past the table
was used, nothing is claimed.

`UserFileProofs`. For any sizes and any number of descriptors:

* `DescriptorsStayOnBlocks` (`DescriptorsOnBlocks`). `ufs_resize` finds the descriptors to move by
  their indexes, and an index can be wrong: after a descriptor ran off the end it counts on from
  there. The invariant says that it errs upwards only, that it is never below -1, and that a closed
  descriptor has no block. So a descriptor that shrinking leaves where it is has an index before the
  new end, and a block before it. The arithmetic (`Blocks`, `Inside`) is that of a division rounded
  up: byte `n` is in block `BlocksFor(n)`, and no smaller number of blocks holds it.
* `NoGapsBeforeWrites` (`NoGapBeforeWrite`). `GapInv` adds that a descriptor without a block has the
  offset 0, so that it fits the first block it is seated at, however empty. Blocks lose bytes only
  when the file shrinks, and then every descriptor on the last one is moved or is before the cut.
* `FileActsFlat` (`ActsAsFlatFile`): each call makes of the blocks what `FlatFile` makes of a
  sequence of bytes, as long as no growing has left a hole. The sequence is the front of the blocks'
  memory, a position is where block and offset lead to, and by `GapInv` none is behind the end. A
  write is cut into portions by the code; that the portions change the bytes the call covers and no
  others, and leave every other descriptor where it was, is proved for any length and any place. A
  shrinking cuts the end off and moves only who is behind it or astray, to the end but for those of
  `LeavesShort`, whose offset in a freed block was less than the new last block holds.

`ShellProofs` is about both parts of the shell. For chains of any length and any codes:
`ShellTypeOK` (the mode stays one of the four that `command.h` names), `ModeTellsOperatorAndCode`,
and that `Shell` implements `ShellRule` but for `LosesCode` and `KeepsStatus`
(`ShellFollowsTheRule`). The invariant (`LineInv`) adds for each process that only
the last entry of its chain may be without an operator (`Chained`), that it has done as many entries
as it has passed and the last of them with the code at hand (`AtEntry`, `AtEnd`). `ModeTells` is the
heart of it: the mode alone says what the rule would look up in the operator before and in the last
code, also behind skipped entries.

For pipelines of any length and any kinds of programs, wherever the shell dies on the way,
`NeighboursHoldTheEnds` (`EndsAreNeighbours`) and `NothingIsLeftOpen` (`ShellIsLeftClean`). The
invariant knows the tables number by number. At each place of the loop it says what the shell has
open (`ShellTable`) and which numbers its two arrays hold (`NumbersInv`). A child has the write end
of its own pipe and the read end of the one before (`Own`); between `fork` and its `close` also the
read end of its own pipe, under the number it is about to close (`OwnBut`). The first six numbers
suffice for any length: when `pipe` is called, only the read end before is open besides 0, 1 and 2.
`WaitInv` says that children are waited for in order.

That says who may hold an end. `PipelineIsAChain` (`ImplementsProgramChain`) also needs who does:
an end of input means that the program before is over only if a program that is not over holds the
end it writes to, and a broken pipe means that the next one is over only if one that is not over, or
the shell before it has started it, holds the end it reads. `LinkInv` says so: at each place between
`fork` and the end of a program (`Connected`) its ends are under the numbers it was given, which
`dup2` and the `close` calls of the child have not overwritten, and which programs have been started
follows from the shell's place in its loop.

`SortFilesProofs`. For any number of coroutines and files `NodesAreNeverStray` (`NoStrayPointer`).
`IsRing` says that there is an order `s[1], ..., s[n]` of the allocated nodes with the sentinel
before the first and behind the last, and `next` and `prev` lead along it; creating appends to it,
reaping cuts a place out. The order is again said to exist, so that no recursion is needed.
`TurnsAreTaken` (`ImplementsRoundRobin`): what the links spell from the running coroutine on is that
order turned so that the running one is first (`Turn`), with the sentinel left out. A yield turns it
on by one place, which is what `RoundRobin` calls going to the back. A return cuts the running place
out and goes on with the next, which is the tail, wherever in the order the sentinel stands.

The sorting is a second invariant, `ProgInv`, on top of that of the ring. `OneSorterPerFile`
(`FilesHaveOneSorter`) needs who claimed what (`ClaimInv`): all files before the one that a
coroutine looks at are claimed, two coroutines never have the same, and a claimed file is with
somebody or done. When the last coroutine returns, it has looked at all files and nobody has one, so
all are done. That they are done right rests on `WorkInv`: the array of a coroutine that sorts holds
its file's numbers, and the calls it has not finished are `Pending` for it. A list of calls is
pending if at the turn of each of them each of its halves has one number at most, or is in order
since the last call before that had to do with it, or is in order already and no call before touches
it, and so for the whole array at the end; `merge_sort[n]` is such a list for an array in any order,
by induction over `n`, and doing its first call leaves such a list. `CrewInv` says who is in the
ring: without it a coroutine that has returned could still hold a file, or the loop could be over
before all were created.

`ResultIsRight` (`PrintedIsRight`) adds `MergeInv`: while `main` merges, what it has put out is
`Halfway`, that is, sorted, not above what any cursor stands on, and made of exactly the numbers the
cursors have passed. Taking the least number that a cursor stands on keeps all three, and when no
cursor can move the count of each number is that of all files. With no number below `INT_MAX` left
the cursors stand on `INT_MAX` or at the end of their arrays. If all are at the end, no file holds
`INT_MAX` and the result is printed; else the merge goes astray, and everything smaller is behind
the cursors.

`RefSortProofs`. For any number of coroutines, names and files `NobodyJumpsAstray` (`NoStrayJump`)
and `TurnsAreRounds` (`ImplementsRounds`). `ListInv` is the order of the list as above. `SchedInv`
says who may have ended: at most one coroutine of the list, and none while another one runs, since
`coro_yield` does not look at `is_finished` and would jump to it. Both hold because the one that
ends jumps to the scheduler, which returns and deletes it before it begins another round. The order
of `Rounds` is the list without the one that has ended, its turn the place of the one that runs; the
deletion that follows an end changes neither.

`FilesAreSafe` (`FilesStaySafe`) and `ResultIsRight` (`MergedIsRight`) have again a `ProgInv`. Two
coroutines may have one file here, by two names, and one may write it while the other sorts, so
nothing is said of who has what. Instead every array in work is compared with what the file held at
first (`WorkInv`): it holds the same numbers, `tmp` is a copy of it, and it is sorted as far as the
loops are (`MergedTo`): all stretches of length `m` are in order, and those of `2 * m` before `i`. A
merge makes one more stretch of `2 * m`, the last ones being short, or missing, in which case there
is nothing to merge; at the end of the inner loop the longer stretches are all, and when `m` reaches
the length there is one. So whatever a coroutine reads is the file as it was or sorted, and so is
what it writes (`DiskInv`). A file that `main` takes is sorted when nobody has a name of it, since
the one that gave up the last name has just written it; `EndInv` says that no coroutine ends before
the pool is empty and that `main` does not go on before all have ended, so that it merges sorted
files only. The last merge is `Halfway` as above.

`MergeLemmas` has what both rest on. `IsMerge` says what the two programs' loops have in common,
where each leaves a number in the buffer from one of two cursors: the first one's moves by one or
not, and the second one's place follows. Such a merge of two stretches in order is in order
(`MergeSorts`), and holds their numbers, each as often (`MergeRearranges`), since no place is copied
twice and all are copied. `HalfwayGoesOn` is the step of the last merge, and `SameInAll` turns
counts of the sorted files into counts of the files as they were.

`HeapHelpProofs`. For any number of threads and blocks:

* `TypesHold`, `RecordsAreRight` (`RecordsMatchBlocks`) and `NobodyIsAccused` (`NoFalseAlarm`). The
  records cannot be tied to calls one by one: the record that thread A's `realloc` is about to
  remove may be removed by B's `free`, and B's by A. So the invariant is a balance of each block:
  records and debts on one side, its holder and the calls that have yet to forget it on the other,
  and a step is shown to change both sides alike. `OwnerInv` makes it go through: what the system
  has given out belongs to the program, to one call, or to a system function. A block that `realloc`
  has given back belongs to nobody, though it is still being forgotten. `Served` is what remains of
  the balance after the exit, when nothing is recorded any more: a call that has looked at
  `is_exit_done` before still finds a record.
* `CountsAreRight` (`CountIsHeld`). `alloc_count` is a sum over the blocks. What a step does to the
  sum is proved by induction over the finite subsets of the blocks: changing one block's records by
  one changes the sum by one. `CountInv` adds where a record can be: in the list, in the pool of
  unused ones, or in the hands of a call that fills it in.
* `ReportsAreRight` (`ReportIsRight`). `AfterExit` follows the state at the exit until the report is
  printed: records only go, each to a call that was under way, so that with no call under way the
  list is what was held, one record a block, and its length the number of them.

Model-checked only: `ReadsAsBash`, and all liveness. Liveness is out of the prover's reach.
`ReadsAsBash` is about `tokenize_command` as a function of a text of any length, defined with the
recursive functions of `ShellText` and `BashText`; a proof that the two read alike is an induction
over the text, in which each loop of the tokenizer would need a description of all its rounds. The
induction theorems of the library take an operator and cannot be used. Where an induction is over a
number or a finite set it is done by hand, from the least counterexample (`Least`, from `WFMin`) or
from a set of subsets that contains the empty one and grows by each element (`SubsetInduction`);
this is how walks along lists, sums, the cursors of a merge and the calls of `merge_sort` are
proved.

## What the code does that it says it does not

With a run that shows it:

* `thread_task_join` waits under an `if` (`4/thread_pool.c:271`): a wakeup without a signal makes it
  return a task whose function has not run, and mark it finished (`join_early`).
* A push between a worker's look at the queue (`4/thread_pool.c:122`) and its wait (133) wakes
  nobody; a join of that task never returns (`join_lost_wakeup`).
* A descriptor that met the end of the last block starts again at the first (`userfs_rewind`).

In a passing run, whose property says exactly where the code departs from what it should do. Each of
these properties is violated as soon as its exception is taken out:

* `thread_task_delete` looks at `status` twice (284-285). If a worker stores `FINISHED` between the
  looks, its task is freed while it has still to broadcast on it and to unlock it, although
  `thread_pool.h:142-143` promises an error as long as the task is in the pool (`NoUseAfterFree`).
* A descriptor behind the new end of a shrunk file keeps its offset if that is smaller than the end
  in the last block, and so is left before the end (`3/userfs.c:488-489`); `userfs.h:148-149` says
  it should proceed from the end (`ActsAsFlatFile`, `LeavesShort`). A shrink inside of the last
  block truncates nothing, and bytes cut off may come back (`KeepsTail`).
* A redirection with no program, which bash takes, makes `init_argv` run with a wrapped bound
  (`2/evaluator.c:30`) or leaves a program without a name (`ReadsAsBash`).
* A line that ends with a failed `cd`, or with an `exit` without a number behind other entries, as
  in `false || exit`, has the code -1, which `main` takes for no code (`2/solution.c:16`): the shell
  keeps the status of an earlier line (`ImplementsShellRule`, `LosesCode`). After `&` bash sets the
  status to 0 and this shell does not (`KeepsStatus`).
* Both sorts look for numbers smaller than `INT_MAX`, so a file that has it makes `min_j` -1 and
  moves a cursor outside of the array (`1/mine/main.c:193`, `1/reference/main.c:284`), although the
  task says that the numbers fit into `int` (`1/task_eng.txt:63`). Each `ResultIsRight` says that
  there is a result exactly when no file holds it.
* The reference sort drops the last name of `argv` (`1/reference/main.c:337`): `FilesAreSafe` and
  `ResultIsRight` say so of all names but that one.

Seen on the way, without a run:

* Pool: the broadcast of `thread_pool_delete` can be lost like that of a push (`PoolDeleteReturns`
  in `ThreadPool` is violated the same way). Two pushers can overshoot the limit of the queue, after
  which it never limits again (`HasRoom`). A thread is started only when the queue is longer than
  the threads are many (228), so tasks may wait while fewer than the maximum run.
  `thread_pool_delete` may answer `TPOOL_ERR_HAS_TASKS` for a task that has been joined already,
  since the counter goes down last (156).
* UserFS: growing leaves holes of unused block ends that reads stop at (444-446). `ufs_resize` works
  on a read-only descriptor. The check of a descriptor number is off by one (86). `ufs_destroy`
  leaks files that were deleted while open.
* Shell: a program killed by a signal counts as code 0 (`pipe_list.c:128`); for a single program the
  child closes an uninitialised descriptor (102), which may be the one it was to write to; children
  of `&` are never reaped (`evaluator.c:130`).
* Shell, reading: a word of no characters (`''`), a tab before a token, and a carriage return there
  come to `strdup(NULL)` (`parser.c:29`). A quote right behind a quoted part, save for a double one
  behind a single one, is taken for a character (`parser.c:119-169`). So does a word of
  nothing but a backslash and a newline, which should continue the line; a line does not continue
  after `&&`, `||` or `|`. A quote or a comment that the input ends in is read for ever. Words
  behind `> file` are dropped (`evaluator.c:28-37`). The byte 0xFF is the end of the input
  (`parser.c:22`). At the end of the input the token list is not trimmed before it is freed
  (`parser.c:47`). A line that bash refuses makes `evaluate` read outside of the list.
* Reference sort: for an empty file `size - 1` wraps around and `merge` reads through a null pointer
  (230). With no coroutines the files are merged unsorted.
* `heap_help`: a `realloc` that had no memory is taken for one to size 0: the record goes though the
  block stays, and the program's later `free` of it is "freeing bad memory" (556). What `getline`
  allocates for a file is not recorded and its free by `fclose` is (162, 492): the same accusation.
  Both were also seen with a program of a few lines. A `realloc` that stays in place keeps the old
  size in the report (553-560). A `realloc` of a block of `static_buf` loses its content. When two
  threads race for a block, a record may be removed by the other's call, so that the one that stays
  has the other's size and trace. `strdup` after the exit fails an assertion (511). A first call
  made by two threads at once initialises twice (470-482).

## What is not modelled

* `main_aio.c`, which its author gave up (line 2). Its loop measures a portion from `BUF_SIZE` and
  not from what was read (lines 72-95), so that it parses bytes of the buffer that were never set or
  are left from the portion before, and at the end of a file it steps back over the last number (95)
  and then leaves the loop (74). What it sorts is anything, and nothing can be stated of it.
* The chat consists of stubs. Examples, generators, checkers and tests are no part of the programs
  and were read only for how clients behave.
* What `evaluate` does with a line that bash refuses, what either sort and the pool do once they are
  `wild`, and the memory of the shell's lists.
* Inside of the models: allocation failure in the pool, in UserFS and in the shell, times and their
  measurement, texts of messages, contents of task functions and of programs, sizes and traces of
  allocations, and the detour of `coro_new` over a signal.

## Plan

Done: the pool and its queue, UserFS, the shell, both sorts, `heap_help`, and a proof of every
safety property of theirs but one. What could follow:

1. A run of its own for each exception of the list above, in which it is violated.
2. Composition of `TaskQueue` into `ThreadPool` as a refinement instead of an argument.
3. Several client threads of the pool, with two that join or time out on one task.
4. `ReadsAsBash` for texts of any length, with a description of each loop's rounds.
