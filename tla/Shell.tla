-------------------------------- MODULE Shell --------------------------------
(***************************************************************************)
(* The shell of 2/ above its pipelines: the loop of main (solution.c), what *)
(* evaluate makes of a line (evaluator.c), and command_exec (command.c),    *)
(* which walks a chain of && and || with one mode it rewrites at every      *)
(* entry.  A line that ends in & is walked by a child of the shell.         *)
(*                                                                          *)
(* The pipeline of an entry is run by pipe_list_exec, which is modelled in  *)
(* Pipeline; here it gives a code, NoCode for a cd that failed or an exit   *)
(* without an argument, and says whether the shell must exit.  A process    *)
(* shares nothing with the others, so an iteration of a loop is a step.     *)
(***************************************************************************)
EXTENDS Integers, Sequences

CONSTANTS Lines,      \* what may be typed: the operators behind its entries, and &
          MaxLines,   \* bound: lines read
          Codes       \* exit codes of pipelines

Operators == {"and", "or", "null"}

ASSUME LinesAssumption ==
  /\ MaxLines \in Nat
  /\ Codes \subseteq Nat
  /\ Lines \subseteq [chain : Seq(Operators) \ {<<>>}, background : BOOLEAN]
  /\ \A line \in Lines : \A n \in 1..(Len(line.chain) - 1) : line.chain[n] # "null"

VARIABLES
  lines,     \* how many lines main has read
  chain,     \* command: next_operator_type of its entries
  pos,       \* the index of the entry, from 1
  mode,      \* execution_mode
  lastCode,  \* context.exit_code
  leaves,    \* context.is_terminate
  stands,    \* where the process is
  exitCode,  \* exit_code of main
  done       \* history: the entries so far, whether they ran, and context.exit_code

lineVars == <<lines, chain, pos, mode, lastCode, leaves, stands, exitCode, done>>

NoCode       == -1             \* EXIT_NO_CODE
EXIT_FAILURE == 1
Shells       == 0..MaxLines    \* the shell is 0, the child for line l is l

RunAndChain    == 0
AndChainFailed == 1
CaughtOrOnly   == 8
ExecAfterOr    == 9         \* CaughtOrOnly | AndChainFailed
Modes == {RunAndChain, AndChainFailed, CaughtOrOnly, ExecAfterOr}

ShellInit ==
  /\ lines = 0
  /\ chain = [p \in Shells |-> <<>>]
  /\ pos = [p \in Shells |-> 1]
  /\ mode = [p \in Shells |-> RunAndChain]
  /\ lastCode = [p \in Shells |-> NoCode]
  /\ leaves = [p \in Shells |-> FALSE]
  /\ stands = [p \in Shells |-> "idle"]
  /\ exitCode = 0
  /\ done = [p \in Shells |-> <<>>]

(* tokenize_command and the start of evaluate.  For a line with & the shell   *)
(* forks, has no code and goes on; the child calls command_exec.              *)
Walker(line) == IF line.background THEN lines + 1 ELSE 0

ReadLine(line) ==
  /\ stands[0] = "idle" /\ lines < MaxLines
  /\ lines' = lines + 1
  /\ chain' = [chain EXCEPT ![Walker(line)] = line.chain]
  /\ pos' = [pos EXCEPT ![Walker(line)] = 1]
  /\ mode' = [mode EXCEPT ![Walker(line)] = RunAndChain]
  /\ lastCode' = [lastCode EXCEPT ![Walker(line)] = 0]
  /\ leaves' = [leaves EXCEPT ![Walker(line)] = FALSE]
  /\ stands' = [stands EXCEPT ![Walker(line)] = "entry"]
  /\ done' = [done EXCEPT ![Walker(line)] = <<>>]
  /\ UNCHANGED exitCode

(* The mode an entry leaves, from the code and its operator. *)
ModeByCode(m, c) == IF c # 0 THEN AndChainFailed ELSE m

ModeAfterOr(m) == IF m < CaughtOrOnly THEN m + CaughtOrOnly ELSE m

\* mutant: what || skipped stays skipped
ModeKept(m) == m
ModeAfterAnd(m) == IF m = CaughtOrOnly THEN RunAndChain ELSE m

ModeAfter(m, operator) ==
  IF operator = "and" THEN ModeAfterAnd(m)
  ELSE IF operator = "or" THEN ModeAfterOr(m) ELSE m

Runs(m) == m \in {RunAndChain, ExecAfterOr}

(* The rest of an iteration: m is the mode and c the code it goes on with. *)
GoOn(p, m, c) ==
  LET last == chain[p][pos[p]] = "null" \/ pos[p] = Len(chain[p])
  IN /\ mode' = [mode EXCEPT ![p] = ModeAfter(ModeByCode(m, c), chain[p][pos[p]])]
     /\ stands' = [stands EXCEPT ![p] = IF last THEN "out" ELSE "entry"]
     /\ pos' = [pos EXCEPT ![p] = IF last THEN @ ELSE @ + 1]

RunEntry(p, c) ==
  /\ stands[p] = "entry" /\ Runs(mode[p])
  /\ lastCode' = [lastCode EXCEPT ![p] = c]
  /\ done' = [done EXCEPT ![p] = Append(@, [ran |-> TRUE, code |-> c])]
  /\ GoOn(p, RunAndChain, c)
  /\ UNCHANGED <<lines, chain, leaves, exitCode>>

(* `exit' alone in its pipeline. *)
RunExit(p, c) ==
  /\ stands[p] = "entry" /\ Runs(mode[p])
  /\ lastCode' = [lastCode EXCEPT ![p] = c]
  /\ leaves' = [leaves EXCEPT ![p] = TRUE]
  /\ stands' = [stands EXCEPT ![p] = "out"]
  /\ done' = [done EXCEPT ![p] = Append(@, [ran |-> TRUE, code |-> c])]
  /\ UNCHANGED <<lines, chain, pos, mode, exitCode>>

SkipEntry(p) ==
  /\ stands[p] = "entry" /\ ~Runs(mode[p])
  /\ done' = [done EXCEPT ![p] = Append(@, [ran |-> FALSE, code |-> lastCode[p]])]
  /\ GoOn(p, mode[p], lastCode[p])
  /\ UNCHANGED <<lines, chain, lastCode, leaves, exitCode>>

(* command_exec has returned: the child of an & exits, main takes the code.   *)
\* mutant: main takes every code
EveryCode(c) == TRUE
IsCode(c) == c # NoCode

Return(p) ==
  /\ stands[p] = "out"
  /\ stands' = [stands EXCEPT ![p] = IF p = 0 /\ ~leaves[p] THEN "idle" ELSE "over"]
  /\ exitCode' = IF p = 0 /\ IsCode(lastCode[p]) THEN lastCode[p] ELSE exitCode
  /\ UNCHANGED <<lines, chain, pos, mode, lastCode, leaves, done>>

EndOfFile ==
  /\ stands[0] = "idle"
  /\ stands' = [stands EXCEPT ![0] = "over"]
  /\ UNCHANGED <<lines, chain, pos, mode, lastCode, leaves, exitCode, done>>

(* assert_true after a pipe or a fork that failed, of a pipeline or of a line *)
(* with &: the process exits.                                                 *)
Fail(p) ==
  /\ \/ stands[p] = "entry" /\ Runs(mode[p])
     \/ p = 0 /\ stands[p] = "idle" /\ lines < MaxLines
  /\ stands' = [stands EXCEPT ![p] = "over"]
  /\ exitCode' = IF p = 0 THEN EXIT_FAILURE ELSE exitCode
  /\ UNCHANGED <<lines, chain, pos, mode, lastCode, leaves, done>>

Walk(p) ==
  \/ \E c \in Codes \cup {NoCode} : RunEntry(p, c) \/ RunExit(p, c)
  \/ SkipEntry(p)
  \/ Return(p)
  \/ Fail(p)

ShellNext == (\E line \in Lines : ReadLine(line)) \/ (\E p \in Shells : Walk(p)) \/ EndOfFile

ShellSpec == ShellInit /\ [][ShellNext]_lineVars

-----------------------------------------------------------------------------
(* Properties. *)

ShellTypeOK ==
  /\ lines \in 0..MaxLines
  /\ chain \in [Shells -> Seq(Operators)]
  /\ pos \in [Shells -> Nat \ {0}]
  /\ mode \in [Shells -> Modes]
  /\ lastCode \in [Shells -> Codes \cup {0, NoCode}]
  /\ leaves \in [Shells -> BOOLEAN]
  /\ stands \in [Shells -> {"idle", "entry", "out", "over"}]
  /\ exitCode \in Codes \cup {0, EXIT_FAILURE}
  /\ done \in [Shells -> Seq([ran : BOOLEAN, code : Codes \cup {NoCode}])]

(* The mode a process comes to an entry with says of the operator before it   *)
(* and of the last code what bash asks of them: not that of the entry before  *)
(* alone, which may have been skipped in any of the four modes; and it stays   *)
(* one of the four, which are or'ed together from two bits (TypeOK).          *)
ModeTells(p) ==
  /\ pos[p] = 1 => mode[p] = RunAndChain
  /\ pos[p] > 1 /\ chain[p][pos[p] - 1] = "and" =>
       mode[p] = IF lastCode[p] = 0 THEN RunAndChain ELSE AndChainFailed
  /\ pos[p] > 1 /\ chain[p][pos[p] - 1] = "or" =>
       mode[p] = IF lastCode[p] = 0 THEN CaughtOrOnly ELSE ExecAfterOr
ModeTellsOperatorAndCode == ShellTypeOK /\ \A p \in Shells : stands[p] = "entry" => ModeTells(p)

Life(p) == IF stands[p] = "entry" THEN "working"
           ELSE IF stands[p] = "out" THEN (IF leaves[p] THEN "leaving" ELSE "finished")
           ELSE stands[p]
Rule == INSTANCE ShellRule WITH life <- [p \in Shells |-> Life(p)], status <- exitCode

(* Two things the shell does otherwise than bash.  A line that ends with a cd *)
(* that failed, or with an exit that names no code behind other entries, has  *)
(* the code -1, which main takes for none (pipe_list.c:75, solution.c:16):    *)
(* the status stays that of an earlier line.  And a line in the background    *)
(* leaves it alone, where bash sets it to 0.                                  *)
LosesCode ==
  /\ Return(0)
  /\ lastCode[0] = NoCode /\ (~leaves[0] \/ Len(done[0]) > 1)
  /\ UNCHANGED exitCode

KeepsStatus == \E line \in Lines : ReadLine(line) /\ line.background /\ exitCode # 0

(* The shell acts as ShellRule: of every chain it runs the entries bash runs, *)
(* in the background as in the foreground, leaves when an exit that runs      *)
(* tells it to and not when one in the background does, and returns the last  *)
(* code of its own (task_eng.txt:42-43, 49-53), but for exactly the two steps *)
(* above.                                                                     *)
ImplementsShellRule == Rule!Init /\ [][Rule!Next \/ LosesCode \/ KeepsStatus]_lineVars
=============================================================================
