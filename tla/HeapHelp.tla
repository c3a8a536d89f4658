------------------------------- MODULE HeapHelp -------------------------------
(***************************************************************************)
(* The leak detector of utils/heap_help/heap_help.c: malloc, realloc, free   *)
(* and the like are redefined, call the system's own functions and keep a    *)
(* list of records, one for every block a program holds.  At exit the list   *)
(* is printed.                                                               *)
(*                                                                           *)
(* What is done under allocs_lock is one step, and so is a call of a system  *)
(* function; other threads run between them.  The list is a bag: `allocs'    *)
(* says how many records there are of a block, since records of one block    *)
(* differ only in what is printed of them.  The list's order, the sizes and  *)
(* the traces are left out; whether a trace is internal is open.             *)
(***************************************************************************)
EXTENDS Naturals, FiniteSets, FiniteSetsExt

CONSTANTS Threads, Main,   \* the program's first call is Main's: see Init
          Blocks,          \* what the system's allocator can give out
          StaticBlocks,    \* what fits into static_buf
          NoBlock,         \* the null pointer
          report_limit,    \* 10
          MaxDebts         \* bound: frees of what is not recorded

ASSUME ConstantsAssumption ==
  /\ IsFiniteSet(Threads) /\ Main \in Threads
  /\ IsFiniteSet(Blocks) /\ Blocks \cap StaticBlocks = {}
  /\ NoBlock \notin Blocks \cup StaticBlocks
  /\ report_limit \in Nat /\ MaxDebts \in Nat

VARIABLES is_init_done, is_exit_done,
          allocs,          \* the number of records of each block
          alloc_count,
          alloc_pool,      \* the number of unused records
          used,            \* the number of records ever taken from a batch
          taken,           \* the blocks the system has given out
          static_used,
          held,            \* the blocks the program may use
          inner,           \* the blocks system functions have allocated in a call
          at, call,        \* where a thread is in which kind of call
          old, new,        \* the block the call is to forget, and to record
          alarm,           \* the assertion that has ended the program
          report,          \* what has been printed, once
          debts, atExit    \* history: records taken away from a block that is
                           \* held, or never made; the blocks when exit began

libVars  == <<is_init_done, is_exit_done, allocs, alloc_count, alloc_pool, used, static_used>>
heapVars == <<taken, held, inner>>
callVars == <<at, call, old, new>>
endVars  == <<alarm, report, debts, atExit>>
vars     == <<libVars, heapVars, callVars, endVars>>

NoRecords == [b \in Blocks |-> 0]
NoReport  == [mode |-> "none", printed |-> FALSE, records |-> NoRecords, suppressed |-> 0,
              found |-> 0, shown |-> 0]

(* The first call is made before a second thread runs: pthread_create itself *)
(* allocates, see line 319.                                                  *)
Init ==
  /\ is_init_done = FALSE /\ is_exit_done = FALSE
  /\ allocs = NoRecords /\ alloc_count = 0
  /\ alloc_pool = 0 /\ used = 0 /\ static_used = {}
  /\ taken = {} /\ held = {} /\ inner = {}
  /\ at = [t \in Threads |-> "program"]
  /\ call = [t \in Threads |-> "alloc"]
  /\ old = [t \in Threads |-> NoBlock]
  /\ new = [t \in Threads |-> NoBlock]
  /\ alarm = "none" /\ report = NoReport
  /\ debts = NoRecords /\ atExit = [held |-> {}, inDebt |-> FALSE, inCalls |-> {}]

alloc_is_static(ptr) == ptr \in StaticBlocks

-------------------------------------------------------------------------------
(* heaph_touch: dlsym may allocate while the symbols are not known yet, and  *)
(* is served from static_buf.                                                *)
BeginTouch(t) ==
  /\ t = Main /\ at[t] = "program" /\ ~is_init_done
  /\ at' = [at EXCEPT ![t] = "init"]
  /\ UNCHANGED <<libVars, heapVars, call, old, new, endVars>>

static_malloc(t, ptr) ==
  /\ at[t] = "init" /\ ptr \in StaticBlocks \ static_used
  /\ static_used' = static_used \cup {ptr}
  /\ held' = held \cup {ptr}
  /\ UNCHANGED <<is_init_done, is_exit_done, allocs, alloc_count, alloc_pool, used,
                 taken, inner, callVars, endVars>>

EndTouch(t) ==
  /\ at[t] = "init"
  /\ is_init_done' = TRUE
  /\ at' = [at EXCEPT ![t] = "program"]
  /\ UNCHANGED <<is_exit_done, allocs, alloc_count, alloc_pool, used, static_used,
                 heapVars, call, old, new, endVars>>

-------------------------------------------------------------------------------
(* The calls.  Enter is the start of each, up to and with the system's       *)
(* function where that comes first; a call that leaves everything as it is   *)
(* (malloc that fails, free(NULL), realloc in place) is not a step.          *)
Enter(t, kind, forget, record) ==
  /\ at[t] = "program" /\ is_init_done
  /\ at' = [at EXCEPT ![t] = IF forget = NoBlock THEN "alloc_trace_new" ELSE "alloc_free"]
  /\ call' = [call EXCEPT ![t] = kind]
  /\ old' = [old EXCEPT ![t] = forget]
  /\ new' = [new EXCEPT ![t] = record]
  /\ UNCHANGED <<libVars, alarm, report, atExit>>

Free == Blocks \ taken

(* malloc, calloc, realloc(NULL), getline for a line that is NULL,           *)
(* getaddrinfo.  The last two may allocate more themselves, at depth 2,      *)
(* which is not recorded (lines 162-163).                                    *)
Allocate(t, b, nested) ==
  /\ nested \subseteq Free \ {b}
  /\ Enter(t, "alloc", NoBlock, b)
  /\ taken' = taken \cup {b} \cup nested
  /\ inner' = inner \cup nested
  /\ UNCHANGED <<held, debts>>

(* strdup is not to be called once the report is due. *)
strdup(t, b) ==
  \/ ~is_exit_done /\ Allocate(t, b, {})
  \/ /\ is_exit_done /\ at[t] = "program"
     /\ alarm' = "strdup"
     /\ UNCHANGED <<libVars, heapVars, callVars, report, debts, atExit>>

(* realloc of a static block forgets the block: the content is not copied. *)
ReallocStatic(t, ptr, b) ==
  /\ alloc_is_static(ptr)
  /\ Enter(t, "alloc", NoBlock, b)
  /\ taken' = taken \cup {b}
  /\ held' = held \ {ptr}
  /\ UNCHANGED <<inner, debts>>

(* The system has moved the block, and given the old one back, before        *)
(* anything is recorded; getline does the same with a line that grows.       *)
ReallocMoves(t, ptr, b) ==
  /\ ~alloc_is_static(ptr)
  /\ Enter(t, "alloc", ptr, b)
  /\ taken' = (taken \ {ptr}) \cup {b}
  /\ held' = held \ {ptr}
  /\ UNCHANGED <<inner, debts>>

(* realloc to size 0 has freed the block. *)
ReallocFrees(t, ptr) ==
  /\ ~alloc_is_static(ptr)
  /\ Enter(t, "alloc", ptr, NoBlock)
  /\ taken' = taken \ {ptr}
  /\ held' = held \ {ptr}
  /\ UNCHANGED <<inner, debts>>

(* realloc had no memory: it returns NULL as well, and the block stays. *)
Debts == MapThenSumSet(LAMBDA b : debts[b], Blocks)
InDebt == \E b \in Blocks : debts[b] > 0

ReallocRefused(t, ptr) ==
  /\ ~alloc_is_static(ptr) /\ Debts < MaxDebts
  /\ Enter(t, "refused", ptr, NoBlock)
  /\ held' = held \ {ptr}
  /\ UNCHANGED <<taken, inner, debts>>

FreeBlock(t, ptr) ==
  /\ ~alloc_is_static(ptr)
  /\ Enter(t, "free", ptr, NoBlock)
  /\ held' = held \ {ptr}
  /\ UNCHANGED <<taken, inner, debts>>

FreeStatic(t, ptr) ==
  /\ alloc_is_static(ptr) /\ at[t] \in {"program", "init"}
  /\ held' = held \ {ptr}
  /\ UNCHANGED <<libVars, taken, inner, callVars, endVars>>

(* What was allocated at depth 2 is freed at depth 1: fclose frees the buffer *)
(* that getline had made for the file.                                        *)
FreeInner(t, b) ==
  /\ Debts < MaxDebts
  /\ Enter(t, "free", b, NoBlock)
  /\ inner' = inner \ {b}
  /\ debts' = [debts EXCEPT ![b] = @ + 1]
  /\ UNCHANGED <<taken, held>>

-------------------------------------------------------------------------------
(* alloc_free.  What comes behind it in the call, and what the program has   *)
(* then.                                                                     *)
Behind(t) == IF call[t] = "free" THEN "default_free"
             ELSE IF new[t] # NoBlock THEN "alloc_trace_new" ELSE "program"

LeaveFree(t) ==
  /\ at' = [at EXCEPT ![t] = Behind(t)]
  /\ old' = [old EXCEPT ![t] = IF call[t] = "free" THEN @ ELSE NoBlock]
  /\ call' = [call EXCEPT ![t] = IF @ = "free" THEN @ ELSE "alloc"]
  /\ held' = IF call[t] = "refused" THEN held \cup {old[t]} ELSE held
  /\ UNCHANGED <<is_init_done, is_exit_done, used, static_used, taken, inner, new, report, atExit>>

\* mutant: a free is looked up after the exit, too
AlwaysForgets == TRUE
Forgets       == ~is_exit_done

SkipFree(t) ==
  /\ at[t] = "alloc_free" /\ ~Forgets
  /\ LeaveFree(t)
  /\ UNCHANGED <<allocs, alloc_count, alloc_pool, alarm, debts>>

CheckFree(t) ==
  /\ at[t] = "alloc_free" /\ Forgets
  /\ at' = [at EXCEPT ![t] = "forget"]
  /\ UNCHANGED <<libVars, heapVars, call, old, new, endVars>>

\* mutant: the count stays when a record is removed
StillCounted == alloc_count
CountedDown  == alloc_count - 1

\* mutant: the search goes on behind the first record of the block
AllRemoved(b)   == [allocs EXCEPT ![b] = 0]
FirstRemoved(b) == [allocs EXCEPT ![b] = @ - 1]

Forget(t) ==
  /\ at[t] = "forget" /\ allocs[old[t]] > 0
  /\ allocs' = FirstRemoved(old[t])
  /\ alloc_pool' = alloc_pool + 1
  /\ alloc_count' = CountedDown
  /\ debts' = IF call[t] = "refused" THEN [debts EXCEPT ![old[t]] = @ + 1] ELSE debts
  /\ UNCHANGED alarm
  /\ LeaveFree(t)

BadMemory(t) ==
  /\ at[t] = "forget" /\ allocs[old[t]] = 0
  /\ alarm' = "freeing bad memory"
  /\ UNCHANGED <<libVars, heapVars, callVars, report, debts, atExit>>

(* The system frees the block; freeaddrinfo frees what it had allocated with *)
(* it, at depth 2 and so without a word here.                                *)
default_free(t, nested) ==
  /\ at[t] = "default_free" /\ nested \subseteq inner
  /\ taken' = taken \ ({old[t]} \cup nested)
  /\ inner' = inner \ nested
  /\ at' = [at EXCEPT ![t] = "program"]
  /\ old' = [old EXCEPT ![t] = NoBlock]
  /\ call' = [call EXCEPT ![t] = "alloc"]
  /\ UNCHANGED <<libVars, held, new, endVars>>

-------------------------------------------------------------------------------
(* alloc_trace_new: a record is taken under the lock, filled in without it,  *)
(* and linked under it again.  The program has the block when it returns.    *)
Return(t) ==
  /\ at' = [at EXCEPT ![t] = "program"]
  /\ new' = [new EXCEPT ![t] = NoBlock]
  /\ held' = held \cup {new[t]}
  /\ UNCHANGED <<is_init_done, is_exit_done, static_used, taken, inner,
                 call, old, endVars>>

\* mutant: a block is recorded after the exit, too
AlwaysTracks == TRUE
Tracks       == ~is_exit_done

SkipTrace(t) ==
  /\ at[t] = "alloc_trace_new" /\ ~Tracks
  /\ Return(t)
  /\ UNCHANGED <<allocs, alloc_count, alloc_pool, used>>

TakeRecord(t) ==
  /\ at[t] = "alloc_trace_new" /\ Tracks
  /\ alloc_pool' = IF alloc_pool > 0 THEN alloc_pool - 1 ELSE 0
  /\ used' = IF alloc_pool > 0 THEN used ELSE used + 1
  /\ at' = [at EXCEPT ![t] = "link"]
  /\ UNCHANGED <<is_init_done, is_exit_done, allocs, alloc_count, static_used,
                 heapVars, call, old, new, endVars>>

Link(t) ==
  /\ at[t] = "link"
  /\ allocs' = [allocs EXCEPT ![new[t]] = @ + 1]
  /\ alloc_count' = alloc_count + 1
  /\ UNCHANGED <<alloc_pool, used>>
  /\ Return(t)

-------------------------------------------------------------------------------
(* heaph_atexit: from here on nothing is recorded; the list is printed under *)
(* the lock, while other threads may be in the middle of a call.             *)
InCall(t) == IF at[t] \in {"alloc_free", "forget"} THEN {old[t], new[t]} \cap Blocks
             ELSE IF at[t] \in {"alloc_trace_new", "link"} THEN {new[t]}
             ELSE {}

Exit(t) ==
  /\ at[t] = "program" /\ is_init_done /\ ~is_exit_done
  /\ is_exit_done' = TRUE
  /\ at' = [at EXCEPT ![t] = "report"]
  /\ atExit' = [held |-> held \cap Blocks, inDebt |-> InDebt,
                inCalls |-> UNION {InCall(u) : u \in Threads}]
  /\ UNCHANGED <<is_init_done, allocs, alloc_count, alloc_pool, used, static_used,
                 heapVars, call, old, new, alarm, report, debts>>

(* The loop walks the records and counts the internal ones out of `count', of *)
(* which it expects more than zero at every record.  The traces and so which  *)
(* ones are internal are open: any number of them, in any places.             *)
Records == MapThenSumSet(LAMBDA b : allocs[b], Blocks)

Found(internal) == alloc_count - internal
Shown(n)        == IF n < report_limit THEN n ELSE report_limit

Report(t, mode, internal) ==
  /\ at[t] = "report" /\ internal <= Records
  /\ at' = [at EXCEPT ![t] = "program"]
  /\ LET silent == \/ mode = "quiet"
                   \/ mode = "leaks" /\ Found(internal) = 0
     IN report' = [mode |-> mode, printed |-> ~silent, records |-> allocs, suppressed |-> internal,
                   found |-> Found(internal), shown |-> Shown(Records - internal)]
  /\ UNCHANGED <<libVars, heapVars, call, old, new, alarm, debts, atExit>>

-------------------------------------------------------------------------------
Modes == {"verbose", "leaks", "quiet"}

Calls(t) ==
  \/ \E b \in Free :
       \/ \E nested \in SUBSET (Free \ {b}) : Allocate(t, b, nested)
       \/ strdup(t, b)
       \/ \E ptr \in held : ReallocStatic(t, ptr, b) \/ ReallocMoves(t, ptr, b)
  \/ \E ptr \in held :
       ReallocFrees(t, ptr) \/ ReallocRefused(t, ptr) \/ FreeBlock(t, ptr) \/ FreeStatic(t, ptr)
  \/ \E b \in inner : FreeInner(t, b)

Steps(t) ==
  \/ BeginTouch(t) \/ EndTouch(t) \/ \E ptr \in StaticBlocks : static_malloc(t, ptr)
  \/ SkipFree(t) \/ CheckFree(t) \/ Forget(t) \/ BadMemory(t)
  \/ \E nested \in SUBSET inner : default_free(t, nested)
  \/ SkipTrace(t) \/ TakeRecord(t) \/ Link(t)
  \/ Exit(t) \/ \E mode \in Modes, internal \in 0..alloc_count : Report(t, mode, internal)

(* An assertion that fails aborts the program. *)
Next == alarm = "none" /\ \E t \in Threads : Calls(t) \/ Steps(t)

Spec == Init /\ [][Next]_vars

-------------------------------------------------------------------------------
(* Properties. *)

Places == {"program", "init", "report", "alloc_free", "forget", "default_free",
           "alloc_trace_new", "link"}

TypeOK ==
  /\ is_init_done \in BOOLEAN /\ is_exit_done \in BOOLEAN
  /\ allocs \in [Blocks -> Nat] /\ debts \in [Blocks -> Nat]
  /\ taken \subseteq Blocks /\ inner \subseteq Blocks
  /\ held \subseteq Blocks \cup StaticBlocks /\ static_used \subseteq StaticBlocks
  /\ at \in [Threads -> Places] /\ call \in [Threads -> {"alloc", "free", "refused"}]
  /\ old \in [Threads -> Blocks \cup {NoBlock}] /\ new \in [Threads -> Blocks \cup {NoBlock}]

Forgetting(b) == {t \in Threads : at[t] \in {"alloc_free", "forget"} /\ old[t] = b}
Linking       == {t \in Threads : at[t] = "link"}

(* Until the exit, there is one record of a block for the program that holds  *)
(* it and one for every call that has yet to forget it: also when realloc has *)
(* freed a block that another thread is given, records and forgets before the *)
(* first has forgotten it.  Missing are those of the debts only.              *)
RecordsMatchBlocks ==
  ~is_exit_done => \A b \in Blocks :
    allocs[b] + debts[b] = Cardinality({b} \cap held) + Cardinality(Forgetting(b))

(* heaph_get_alloc_count() is the length of the list, of which no record is    *)
(* lost between list, pool and calls.  It is the number of blocks that are not *)
(* freed (README.md of the utility) when no call is under way.  With it go the *)
(* types: no count goes below zero.                                           *)
CountIsHeld ==
  /\ TypeOK
  /\ alloc_count = Records
  /\ used = Records + alloc_pool + Cardinality(Linking)
  /\ ~is_exit_done /\ ~InDebt /\ (\A t \in Threads : at[t] \in {"program", "init"}) =>
       alloc_count = Cardinality(held \cap Blocks)

(* "freeing bad memory" is said of no program that keeps to the rules, unless *)
(* a realloc was refused or what getline had allocated was freed before.      *)
NoFalseAlarm == alarm = "freeing bad memory" => InDebt

(* The report names every block the program held when exit began and nothing  *)
(* else, but for what a thread was just allocating or freeing, and is silent   *)
(* about a leak only when told to be or when all of them are internal.        *)
ReportIsRight ==
  report # NoReport /\ ~atExit.inDebt =>
    /\ \A b \in atExit.held : report.records[b] > 0
    /\ \A b \in Blocks : report.records[b] > 0 => b \in atExit.held \cup atExit.inCalls
    /\ atExit.inCalls = {} => report.found + report.suppressed = Cardinality(atExit.held)
    /\ \/ report.printed \/ report.mode = "quiet"
       \/ Cardinality(atExit.held) <= report.suppressed
===============================================================================
