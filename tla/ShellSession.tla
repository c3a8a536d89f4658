----------------------------- MODULE ShellSession -----------------------------
(***************************************************************************)
(* The whole loop of main of 2/: the lines that Shell works on are what     *)
(* ShellText reads from a text, one after the other, the next one when the  *)
(* one before has been evaluated.                                           *)
(***************************************************************************)
EXTENDS Shell, ShellText

CONSTANT Texts    \* what stdin may hold

VARIABLES input,     \* stdin
          position,  \* what the shell has come to in it
          bash,      \* history: the lines bash reads in it, or Other
          reading,   \* "open", "eof", "stuck", "refused" for a line bash would refuse, or
             \* "wild" when the shell has run over its tokens or read a null pointer
          commands   \* history: the commands read so far

sessionVars == <<input, bash, position, reading, commands>>

Bash  == INSTANCE BashText
Other == <<Token("other", <<>>)>>    \* of a text bash reads otherwise, or not at all

SessionInit ==
  /\ ShellInit
  /\ input \in Texts
  /\ \E typed \in {Bash!BashLines(input)} :
       bash = IF Bash!Ordinary(input, typed) THEN typed ELSE <<Other>>
  /\ position = 1 /\ reading = "open" /\ commands = <<>>

LineOf(command) ==
  [chain      |-> [n \in 1..Len(command.entries) |-> command.entries[n].operator],
   background |-> command.background]

(* What the loop comes to with a line. *)
Outcome(line) ==
  IF line.how = "stuck" THEN "stuck"
  ELSE IF ~Bash!Grammatical(line.tokens) THEN "refused"
  ELSE IF RunsOver(line.tokens) THEN "wild"
  ELSE IF line.how = "eof" THEN "eof" ELSE "open"

(* evaluate up to command_exec, or to the fork for an &, which may fail. *)
Evaluate(command) ==
  /\ commands' = Append(commands, command)
  /\ ReadLine(LineOf(command)) \/ (command.background /\ Fail(0))

(* An iteration of main's loop.  A line without tokens does nothing. *)
ReadAndEvaluate ==
  /\ stands[0] = "idle" /\ reading = "open"
  /\ \E line \in {tokenize_command(input, position)} :
       /\ position' = line.next
       /\ reading' = Outcome(line)
       /\ IF Outcome(line) \in {"open", "eof"} /\ line.tokens # <<>>
          THEN \E command \in {evaluate(line.tokens)} : Evaluate(command)
          ELSE UNCHANGED <<lineVars, commands>>
  /\ UNCHANGED <<input, bash>>

(* The entry that process p is to run is one program, and has no name:        *)
(* pipe_list_exec compares it with `cd'.  The process that does dies.         *)
Crashes(p) ==
  /\ stands[p] = "entry" /\ Runs(mode[p])
  /\ LET command == commands[IF p = 0 THEN Len(commands) ELSE p]
         programs == command.entries[pos[p]].pipeline
     IN Len(programs) = 1 /\ Nameless(programs[1])

Crash(p) ==
  /\ Crashes(p)
  /\ \/ p = 0 /\ reading # "wild" /\ reading' = "wild"
        /\ UNCHANGED <<lineVars, input, bash, position, commands>>
     \/ p # 0 /\ Fail(p) /\ UNCHANGED sessionVars

Evaluating(p) == Walk(p) /\ stands[p] # "idle" /\ ~Crashes(p) /\ UNCHANGED sessionVars

LeaveAtEOF == reading = "eof" /\ EndOfFile /\ UNCHANGED sessionVars

SessionNext == ReadAndEvaluate \/ LeaveAtEOF \/ \E p \in Shells : Evaluating(p) \/ Crash(p)

SessionSpec == SessionInit /\ [][SessionNext]_<<lineVars, sessionVars>>

-------------------------------------------------------------------------------
(* Properties.  What evaluate has cut is compared by writing it out again. *)
WithBars(parts, bar(_)) ==
  FlattenSeq([n \in 1..Len(parts) |-> IF n < Len(parts) THEN parts[n] \o bar(n) ELSE parts[n]])

Written(command) ==
  LET word(value) == Token("word", value)
      programTokens(p) ==
        [n \in 1..Len(p.argv) |-> word(p.argv[n])]
        \o IF p.output = <<>> THEN <<>>
           ELSE <<Token(IF p.append THEN ">>" ELSE ">", <<>>), word(p.output)>>
      pipeTokens(e) ==
        WithBars([n \in 1..Len(e.pipeline) |-> programTokens(e.pipeline[n])],
                 LAMBDA n : <<Token("|", <<>>)>>)
  IN WithBars([n \in 1..Len(command.entries) |-> pipeTokens(command.entries[n])],
              LAMBDA n : <<Token(IF command.entries[n].operator = "and" THEN "&&" ELSE "||", <<>>)>>)
     \o IF command.background THEN <<Token("&", <<>>)>> ELSE <<>>

(* The shell takes what is typed for the commands bash takes it for, token by  *)
(* token, and reads on to the end: quotes, escapes, comments and operators     *)
(* without spaces are seen where bash sees them (task_eng.txt:22-26, 43-46),   *)
(* in every text that has nothing of what BashText lists as known differences. *)
(* One thing it cannot do is redirect nothing, which bash can (`>a'): where it *)
(* goes wild, the line it has come to does that, in front or further on.       *)
ReadsAsBash ==
  bash # <<Other>> =>
    /\ reading \in {"open", "eof", "wild"}
    /\ Len(commands) <= Len(bash)
    /\ \A n \in 1..Len(commands) : Written(commands[n]) = bash[n]
    /\ reading = "eof" => Len(commands) = Len(bash)
    /\ reading = "wild" =>
         \/ stands[0] = "entry" /\ Bash!RedirectsNothing(bash[Len(commands)])
         \/ stands[0] = "idle" /\ Bash!RedirectsNothing(<<bash[Len(commands) + 1][1]>>)
===============================================================================
