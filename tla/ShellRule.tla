----------------------------- MODULE ShellRule -----------------------------
(***************************************************************************)
(* What the shell of 2/ promises of lines of && and ||, which is what      *)
(* /bin/bash does with them (task_eng.txt:22-26, 42-53): both operators    *)
(* bind alike and to the left, an entry runs when the last code and the    *)
(* operator before it say so, `exit' leaves the shell, and a line in the   *)
(* background disturbs nobody and sets the status to 0.  There are no      *)
(* modes here.  Shell is compared with this specification.                 *)
(*                                                                         *)
(* A code here is what the shell gets from a pipeline; bash counts a       *)
(* program that a signal ended as 128 and more (Shell gets 0), and goes on *)
(* when it cannot fork (here the shell ends, as assert_true has it).       *)
(***************************************************************************)
EXTENDS Integers, Sequences

CONSTANTS Lines,      \* what may be typed: [chain, background]
          MaxLines,   \* bound: lines read
          Codes       \* exit codes of pipelines

VARIABLES lines,    \* how many lines were read
          chain,    \* chain[p]: the operators behind the entries process p works on
          done,     \* done[p]: its entries so far, each with whether it ran and the
                    \* code of what ran last, NoCode if that named none
          life,     \* life[p]: where its line is
          status    \* what the shell will return

vars == <<lines, chain, done, life, status>>

NoCode    == -1
Processes == 0..MaxLines    \* the shell is 0, line l in the background is l

(* A cd that failed names no code, and counts as 1.  An exit that names none  *)
(* leaves with the code of what ran before it.                                *)
Code(entry) == IF entry.code = NoCode THEN 1 ELSE entry.code
LastCode(p) == Code(done[p][Len(done[p])])

Result(p) ==
  IF life[p] = "finished" \/ done[p][Len(done[p])].code # NoCode THEN LastCode(p)
  ELSE IF Len(done[p]) = 1 THEN status
  ELSE Code(done[p][Len(done[p]) - 1])

Selected(p) ==
  LET n == Len(done[p]) IN
  \/ n = 0
  \/ n > 0 /\ chain[p][n] = "and" /\ LastCode(p) = 0
  \/ n > 0 /\ chain[p][n] = "or" /\ LastCode(p) # 0

Init ==
  /\ lines = 0
  /\ chain = [p \in Processes |-> <<>>]
  /\ done = [p \in Processes |-> <<>>]
  /\ life = [p \in Processes |-> "idle"]
  /\ status = 0

ReadLine(line) ==
  /\ life[0] = "idle" /\ lines < MaxLines
  /\ lines' = lines + 1
  /\ LET p == IF line.background THEN lines + 1 ELSE 0
     IN /\ chain' = [chain EXCEPT ![p] = line.chain]
        /\ done' = [done EXCEPT ![p] = <<>>]
        /\ life' = [life EXCEPT ![p] = "working"]
  /\ status' = IF line.background THEN 0 ELSE status

RunThere(p, code, exits) ==
  /\ life[p] = "working" /\ Selected(p)
  /\ done' = [done EXCEPT ![p] = Append(@, [ran |-> TRUE, code |-> code])]
  /\ life' = [life EXCEPT ![p] =
                IF exits THEN "leaving"
                ELSE IF Len(done[p]) + 1 = Len(chain[p]) THEN "finished" ELSE "working"]
  /\ UNCHANGED <<lines, chain, status>>

Skip(p) ==
  /\ life[p] = "working" /\ ~Selected(p)
  /\ done' = [done EXCEPT ![p] = Append(@, [ran |-> FALSE, code |-> @[Len(@)].code])]
  /\ life' = [life EXCEPT ![p] =
                IF Len(done[p]) + 1 = Len(chain[p]) THEN "finished" ELSE "working"]
  /\ UNCHANGED <<lines, chain, status>>

\* The shell's status is the code of what ran last.
EndLine(p) ==
  /\ life[p] \in {"finished", "leaving"}
  /\ life' = [life EXCEPT ![p] = IF p = 0 /\ life[p] = "finished" THEN "idle" ELSE "over"]
  /\ status' = IF p = 0 THEN Result(p) ELSE status
  /\ UNCHANGED <<lines, chain, done>>

\* A process that cannot start what it must run ends with status 1.
Fail(p) ==
  /\ (life[p] = "working" /\ Selected(p)) \/ (p = 0 /\ life[p] = "idle")
  /\ life' = [life EXCEPT ![p] = "over"]
  /\ status' = IF p = 0 THEN 1 ELSE status
  /\ UNCHANGED <<lines, chain, done>>

EndOfInput ==
  /\ life[0] = "idle"
  /\ life' = [life EXCEPT ![0] = "over"]
  /\ UNCHANGED <<lines, chain, done, status>>

Next ==
  \/ \E line \in Lines : ReadLine(line)
  \/ \E p \in Processes :
       \/ \E code \in Codes \cup {NoCode}, exits \in BOOLEAN : RunThere(p, code, exits)
       \/ Skip(p)
       \/ EndLine(p)
       \/ Fail(p)
  \/ EndOfInput

Spec == Init /\ [][Next]_vars
=============================================================================
