------------------------------ MODULE Pipeline ------------------------------
(***************************************************************************)
(* pipe_list_exec of 2/pipe_list.c: the shell makes the pipes, forks one   *)
(* process per program, and each process arranges its descriptors before   *)
(* it becomes its program.  Who still holds which end of which pipe        *)
(* decides whether a program sees the end of its input, is stopped for     *)
(* writing in vain, or waits for ever; so every process has its table of   *)
(* descriptor numbers here, and pipe, dup2 and close work on numbers.      *)
(*                                                                         *)
(* A step is one system call another process can observe.  What a child    *)
(* does between fork and exec is one step: it changes only its own table,  *)
(* and the one end it gives up is of the pipe only it writes to.           *)
(***************************************************************************)
EXTENDS Naturals, Sequences, FiniteSets, FiniteSetsExt

CONSTANTS Chains,       \* the pipelines: sequences of kinds of programs
          MaxPrograms,  \* bound: the longest of them
          PipeSize,     \* what a pipe holds before a writer must wait
          Size          \* bound: what "echo" writes

(* What the programs do with their input and output. *)
Kinds == {"echo",   \* writes Size items and ends
          "log",    \* "echo" with its output redirected to a file
          "yes",    \* writes for ever
          "cat",    \* writes what it reads until its input ends
          "head",   \* writes the first item it reads and ends
          "stop"}   \* ends with code 1: cd or exit in a pipeline, or a failed exec

ASSUME ConstantsAssumption ==
  /\ MaxPrograms \in Nat \ {0} /\ PipeSize \in Nat \ {0} /\ Size \in Nat
  /\ Chains \subseteq UNION {[1..n -> Kinds] : n \in 1..MaxPrograms}

VARIABLES
  programs,  \* pipe_list: the kinds of the programs
  i,         \* the loops' index, from 1
  at,        \* where the shell is
  current,   \* current_pipe: two descriptor numbers
  previous,  \* previous_pipe[READ_END]
  code,      \* code, and in the end context.exit_code
  fd,        \* fd[p][n]: what number n of process p is open on; 0 is the shell
  phase,     \* phase[k]: the life of children[k]
  args,      \* args[k]: current and previous as child k inherited them
  left,      \* left[k]: what the program still has to write or to read
  held,      \* held[k]: it has read an item it has not written yet
  why,       \* history: why child k ended
  status,    \* its exit code
  buffer     \* buffer[j]: what is in pipe j, the one between programs j and j + 1

shellVars   == <<programs, i, at, current, previous, code>>
programVars == <<left, held>>
vars == <<shellVars, fd, phase, args, programVars, why, status, buffer>>

Slots     == 1..MaxPrograms
Processes == 0..MaxPrograms
Length    == Len(programs)
Numbers   == 0..7       \* descriptor numbers; the shell needs six of them
STDIN     == 0
STDOUT    == 1

Closed   == [to |-> "none", pipe |-> 0]
Terminal == [to |-> "terminal", pipe |-> 0]
ToFile   == [to |-> "file", pipe |-> 0]
ReadEnd(j)  == [to |-> "read", pipe |-> j]
WriteEnd(j) == [to |-> "write", pipe |-> j]
Files == {Closed, Terminal, ToFile} \cup [to : {"read", "write"}, pipe : Slots]

Holders(file) == {p \in Processes : \E n \in Numbers : fd[p][n] = file}

AllClosed == [n \in Numbers |-> Closed]
AtStart   == [n \in Numbers |-> IF n <= 2 THEN Terminal ELSE Closed]

Phases == {"unborn", "forked", "running", "ended", "reaped"}
Gone(k) == phase[k] \in {"ended", "reaped"}

(* current_pipe is not initialised; only a single program uses it unset. *)
Init ==
  /\ programs \in Chains
  /\ i = 1
  /\ at = IF Length = 1 THEN "fork" ELSE "pipe"
  /\ \E n \in (IF Length = 1 THEN Numbers ELSE {0}) : current = [read |-> n, write |-> 0]
  /\ previous = 0
  /\ code = 0
  /\ fd = [p \in Processes |-> IF p = 0 THEN AtStart ELSE AllClosed]
  /\ phase = [k \in Slots |-> "unborn"]
  /\ args = [k \in Slots |-> [read |-> 0, write |-> 0, previous |-> 0]]
  /\ left = [k \in Slots |-> 0]
  /\ held = [k \in Slots |-> FALSE]
  /\ why = [k \in Slots |-> "none"]
  /\ status = [k \in Slots |-> 0]
  /\ buffer = [j \in Slots |-> 0]

-----------------------------------------------------------------------------
(* The shell. *)

FreeNumbers == {n \in Numbers : fd[0][n] = Closed}

LastProgram == i = Length

(* pipe(): the two lowest free numbers. *)
MakePipe ==
  /\ at = "pipe"
  /\ LET r == Min(FreeNumbers)
         w == Min(FreeNumbers \ {r})
     IN /\ current' = [read |-> r, write |-> w]
        /\ fd' = [fd EXCEPT ![0][r] = ReadEnd(i), ![0][w] = WriteEnd(i)]
  /\ at' = "fork"
  /\ UNCHANGED <<programs, i, previous, code, phase, args, programVars, why, status, buffer>>

Work(kind) == CASE kind \in {"echo", "log"} -> Size
                [] kind = "head" -> 1
                [] OTHER -> 0

(* The child is a copy of the shell with its variables and descriptors. *)
Fork ==
  /\ at = "fork"
  /\ phase' = [phase EXCEPT ![i] = "forked"]
  /\ fd' = [fd EXCEPT ![i] = fd[0]]
  /\ args' = [args EXCEPT ![i] =
                [read |-> current.read, write |-> current.write, previous |-> previous]]
  /\ left' = [left EXCEPT ![i] = Work(programs[i])]
  /\ at' = "close_previous"
  /\ UNCHANGED <<programs, i, current, previous, code, held, why, status, buffer>>

\* mutant: the shell keeps what it read the previous pipe with
KeptPrevious == fd
WithoutPrevious == IF i > 1 THEN [fd EXCEPT ![0][previous] = Closed] ELSE fd

ClosePrevious ==
  /\ at = "close_previous"
  /\ fd' = WithoutPrevious
  /\ at' = "close_current"
  /\ UNCHANGED <<programs, i, current, previous, code, phase, args, programVars,
                 why, status, buffer>>

\* mutants: the shell keeps the end it could write with, or closes the other
KeptWriteEnd == fd
WithoutReadEnd == [fd EXCEPT ![0][current.read] = Closed]
WithoutWriteEnd == IF Length > 1 THEN [fd EXCEPT ![0][current.write] = Closed] ELSE fd

(* For the last program this number is closed already: close fails, unheeded. *)
CloseCurrent ==
  /\ at = "close_current"
  /\ fd' = WithoutWriteEnd
  /\ previous' = current.read
  /\ IF LastProgram
     THEN i' = 1 /\ at' = "wait"
     ELSE i' = i + 1 /\ at' = IF i + 1 < Length THEN "pipe" ELSE "fork"
  /\ UNCHANGED <<programs, current, code, phase, args, programVars, why, status, buffer>>

(* waitpid for one child after the other; the last code stays. *)
Wait ==
  /\ at = "wait"
  /\ phase[i] = "ended"
  /\ phase' = [phase EXCEPT ![i] = "reaped"]
  /\ code' = status[i]
  /\ IF i = Length THEN at' = "returned" /\ UNCHANGED i
                   ELSE i' = i + 1 /\ UNCHANGED at
  /\ UNCHANGED <<programs, current, previous, fd, args, programVars, why, status, buffer>>

(* assert_true after pipe or fork: the shell exits and leaves its children. *)
Die ==
  /\ at \in {"pipe", "fork"}
  /\ at' = "died"
  /\ fd' = [fd EXCEPT ![0] = AllClosed]
  /\ UNCHANGED <<programs, i, current, previous, code, phase, args, programVars,
                 why, status, buffer>>

ShellStep == MakePipe \/ Fork \/ ClosePrevious \/ CloseCurrent \/ Wait
-----------------------------------------------------------------------------
(* The children. *)

(* What dup2 and close make of child k's table, and, when its output is      *)
(* redirected, open, dup2 and close again.                                   *)
Dup2(table, from, to) ==
  IF table[from] = Closed THEN table ELSE [table EXCEPT ![to] = table[from]]

\* mutant: the child keeps the end it does not read
ReadEndKept(k, table) == table
ReadEndCut(k, table) == [table EXCEPT ![args[k].read] = Closed]

InputFromPrevious(k, table) == IF k > 1 THEN Dup2(table, args[k].previous, STDIN) ELSE table

(* open gives the lowest number; if that is standard output's own, dup2 does  *)
(* nothing and close takes the file away again.                              *)
Redirected(k, table) ==
  LET opensAsOutput == table[STDIN] # Closed /\ table[STDOUT] = Closed
  IN IF programs[k] = "log"
     THEN [table EXCEPT ![STDOUT] = IF opensAsOutput THEN Closed ELSE ToFile]
     ELSE table

Arranged(k) ==
  LET output == IF k < Length THEN Dup2(fd[k], args[k].write, STDOUT) ELSE fd[k]
  IN Redirected(k, ReadEndCut(k, InputFromPrevious(k, output)))

Exec(k) ==
  /\ phase[k] = "forked"
  /\ phase' = [phase EXCEPT ![k] = "running"]
  /\ fd' = [fd EXCEPT ![k] = Arranged(k)]
  /\ UNCHANGED <<shellVars, args, programVars, why, status, buffer>>

(* Ending closes every descriptor.  What WEXITSTATUS makes of a program that *)
(* a signal ended is 0.                                                      *)
End(k, cause, c) ==
  /\ phase' = [phase EXCEPT ![k] = "ended"]
  /\ fd' = [fd EXCEPT ![k] = AllClosed]
  /\ why' = [why EXCEPT ![k] = cause]
  /\ status' = [status EXCEPT ![k] = c]
  /\ UNCHANGED <<shellVars, args, programVars, buffer>>

Output(k) == fd[k][STDOUT]
Input(k)  == fd[k][STDIN]

Writing(k) ==
  /\ phase[k] = "running"
  /\ CASE programs[k] \in {"echo", "log"} -> left[k] > 0
       [] programs[k] = "yes" -> TRUE
       [] programs[k] \in {"cat", "head"} -> held[k]
       [] OTHER -> FALSE
Reading(k) ==
  /\ phase[k] = "running" /\ ~held[k]
  /\ programs[k] = "cat" \/ (programs[k] = "head" /\ left[k] > 0)

Write(k) ==
  /\ Writing(k)
  /\ \/ Output(k) \in {Terminal, ToFile} /\ UNCHANGED buffer
     \/ /\ Output(k).to = "write"
        /\ Holders(ReadEnd(Output(k).pipe)) # {}
        /\ buffer[Output(k).pipe] < PipeSize
        /\ buffer' = [buffer EXCEPT ![Output(k).pipe] = @ + 1]
  /\ left' = [left EXCEPT ![k] = IF @ > 0 THEN @ - 1 ELSE 0]
  /\ held' = [held EXCEPT ![k] = FALSE]
  /\ UNCHANGED <<shellVars, fd, phase, args, why, status>>

(* SIGPIPE *)
WriteInVain(k) ==
  /\ Writing(k)
  /\ Output(k).to = "write" /\ Holders(ReadEnd(Output(k).pipe)) = {}
  /\ End(k, "broken", 0)

Read(k) ==
  /\ Reading(k)
  /\ Input(k).to = "read" /\ buffer[Input(k).pipe] > 0
  /\ buffer' = [buffer EXCEPT ![Input(k).pipe] = @ - 1]
  /\ held' = [held EXCEPT ![k] = TRUE]
  /\ UNCHANGED <<shellVars, fd, phase, args, left, why, status>>

EndOfInput(k) ==
  /\ Reading(k)
  /\ Input(k).to = "read" /\ buffer[Input(k).pipe] = 0
  /\ Holders(WriteEnd(Input(k).pipe)) = {}
  /\ End(k, "eof", 0)

(* The terminal is at its end; what is read or written without a descriptor  *)
(* fails.                                                                    *)
Finish(k) ==
  \/ /\ phase[k] = "running" /\ ~Writing(k) /\ ~Reading(k)
     /\ End(k, "done", IF programs[k] = "stop" THEN 1 ELSE 0)
  \/ Reading(k) /\ Input(k) = Terminal /\ End(k, "done", 0)
  \/ Reading(k) /\ Input(k) = Closed /\ End(k, "done", 1)
  \/ Writing(k) /\ Output(k) = Closed /\ End(k, "done", 1)

Child(k) ==
  Exec(k) \/ Write(k) \/ WriteInVain(k) \/ Read(k) \/ EndOfInput(k) \/ Finish(k)

Next == ShellStep \/ Die \/ (\E k \in Slots : Child(k))

Spec == Init /\ [][Next]_vars

(* Every process is scheduled. *)
FairSpec == Spec /\ WF_vars(ShellStep) /\ \A k \in Slots : WF_vars(Child(k))

-----------------------------------------------------------------------------
(* Properties. *)

TypeOK ==
  /\ programs \in Chains
  /\ i \in 1..Length
  /\ at \in {"pipe", "fork", "close_previous", "close_current", "wait", "returned", "died"}
  /\ current \in [read : Numbers, write : Numbers]
  /\ previous \in Numbers
  /\ code \in 0..1
  /\ fd \in [Processes -> [Numbers -> Files]]
  /\ phase \in [Slots -> Phases]
  /\ args \in [Slots -> [read : Numbers, write : Numbers, previous : Numbers]]
  /\ left \in [Slots -> 0..(Size + 1)]
  /\ held \in [Slots -> BOOLEAN]
  /\ why \in [Slots -> {"none", "done", "eof", "broken"}]
  /\ status \in [Slots -> 0..1]
  /\ buffer \in [Slots -> 0..PipeSize]

(* A pipe can be written to by the program before it and read by the program  *)
(* behind it only: whatever numbers pipe() gave out again, no other child has *)
(* inherited an end (pipe_list.c:86-115).                                     *)
EndsAreNeighbours ==
  TypeOK /\ \A j \in Slots :
    /\ Holders(WriteEnd(j)) \subseteq {0, j}
    /\ Holders(ReadEnd(j)) \subseteq {0, j + 1} \cup {k \in {j} : phase[k] = "forked"}

(* When pipe_list_exec returns, the shell has the descriptors it began with,  *)
(* no child is left to wait for, and the code is the last program's.          *)
ShellIsLeftClean ==
  at = "returned" =>
    /\ fd[0] = AtStart
    /\ \A k \in 1..Length : phase[k] = "reaped"
    /\ code = status[Length]

(* The pipeline implements ProgramChain: data goes from each program to the    *)
(* next, the end of the input is seen when the program before has ended, and   *)
(* writing in vain stops a program only when the one behind cannot read.       *)
Stage(k) == CASE phase[k] = "unborn" -> "unstarted"
              [] Gone(k) -> why[k]
              [] OTHER -> "working"
Promise ==
  INSTANCE ProgramChain WITH
    length <- Length,
    stage <- [k \in Slots |-> Stage(k)],
    flow <- buffer,
    result <- IF at \in {"returned", "died"} THEN at ELSE "running"
ImplementsProgramChain == Promise!Spec

(* A program that never ends by itself is followed by one that does, and is   *)
(* connected to it.                                                           *)
Terminating ==
  \A k \in 1..Length : programs[k] = "yes" =>
    \E n \in (k + 1)..Length : programs[n] \in {"echo", "log", "head", "stop"}

(* Such a pipeline ends, and with it the call: each program sees the end of   *)
(* its input or is stopped, whichever ends first.                             *)
PipelineReturns == Terminating ~> (at \in {"returned", "died"})
=============================================================================
