----------------------------- MODULE ShellProofs -----------------------------
(***************************************************************************)
(* Of the pipelines: only neighbours hold the ends of a pipe, and the shell *)
(* is left clean, for pipelines of any length and programs of every kind,   *)
(* however the shell and its children interleave and wherever the shell     *)
(* dies; and the pipeline is a ProgramChain, in which every program is      *)
(* connected to its neighbours.  Of the chains above them: the modes of     *)
(* command_exec are the rule of the shell, for every set of lines, of any   *)
(* length and number, and every code.                                       *)
(***************************************************************************)
EXTENDS Pipeline, Shell, SequenceTheorems, WellFoundedInduction, TLAPS

-------------------------------------------------------------------------------
(* The shell's table is known number by number.                              *)
Free0 == 3..7    \* the numbers that are free at the start

HoldsPrevious == i > 1 /\ at \in {"pipe", "fork", "close_previous"}
HoldsCurrent  == i < Length /\ at \in {"fork", "close_previous", "close_current"}

ShellTable ==
  [n \in Numbers |->
     IF n <= 2 THEN Terminal
     ELSE IF HoldsPrevious /\ n = previous THEN ReadEnd(i - 1)
     ELSE IF HoldsCurrent /\ n = current.read THEN ReadEnd(i)
     ELSE IF HoldsCurrent /\ n = current.write THEN WriteEnd(i)
     ELSE Closed]

(* The numbers are those pipe() gave out, and differ; behind the last pipe    *)
(* `current' still has its numbers, the one for reading being `previous'.     *)
NumbersInv ==
  /\ at = "pipe" => i < Length
  /\ HoldsPrevious => previous \in Free0
  /\ HoldsCurrent => current.read \in Free0 /\ current.write \in Free0
                     /\ current.read # current.write
  /\ HoldsCurrent /\ HoldsPrevious => previous # current.read /\ previous # current.write
  /\ i > 1 /\ i = Length /\ at # "pipe" =>
       at \in {"wait", "returned", "died"} \/ current.write \in Free0

ShellInv == NumbersInv /\ (at # "died" => fd[0] = ShellTable)

(* What a program may hold: neither end of another's pipe. *)
Own(k) == {Closed, Terminal, ToFile, WriteEnd(k), ReadEnd(k - 1)}

(* A child that has just been forked also holds the end its successor reads,   *)
(* under the one number it is going to close; the ends it is going to use are  *)
(* under other numbers.                                                       *)
OwnBut(k, table, r) == \A n \in Numbers : table[n] \in Own(k) \/ (n = r /\ table[n] = ReadEnd(k))

ChildInv ==
  \A k \in Slots :
    /\ phase[k] \in {"unborn", "ended", "reaped"} => fd[k] = AllClosed
    /\ phase[k] = "running" => \A n \in Numbers : fd[k][n] \in Own(k)
    /\ phase[k] = "forked" =>
         /\ OwnBut(k, fd[k], args[k].read)
         /\ k < Length => fd[k][args[k].write] \in Own(k)
         /\ k > 1 => fd[k][args[k].previous] \in Own(k)

(* The children are waited for in order. *)
WaitInv ==
  /\ at = "wait" => /\ \A k \in 1..(i - 1) : phase[k] = "reaped"
                    /\ i > 1 => code = status[i - 1]
  /\ at = "returned" => /\ i = Length /\ \A k \in 1..Length : phase[k] = "reaped"
                        /\ code = status[Length]

Inv == TypeOK /\ ShellInv /\ ChildInv /\ WaitInv

-------------------------------------------------------------------------------
LEMMA Lengths == ASSUME programs \in Chains PROVE Length \in Slots /\ Length \in Nat
<1>1. PICK n \in 1..MaxPrograms : programs \in [1..n -> Kinds]
  BY ConstantsAssumption
<1>2. n \in Nat /\ MaxPrograms \in Nat
  BY ConstantsAssumption
<1>3. programs \in Seq(Kinds)
  BY <1>1, <1>2, SeqDef, Zenon
<1>4. DOMAIN programs = 1..n
  BY <1>1
<1>5. Len(programs) = n
  BY <1>2, <1>3, <1>4, LenProperties
<1> QED
  BY <1>2, <1>5 DEF Length, Slots

LEMMA Lowest ==
  ASSUME NEW S \in SUBSET Nat, S # {}
  PROVE  Min(S) \in S
<1>1. PICK m \in S : \A k \in S : ~(<<k, m>> \in OpToRel(<, Nat))
  BY NatLessThanWellFounded, WFMin
<1>2. \A k \in S : ~(k < m)
  BY <1>1 DEF OpToRel
<1>3. \A k \in S : m <= k
  BY <1>2
<1> QED
  BY <1>3, Zenon DEF Min

(* The kinds of files are different. *)
LEMMA Kinds4 ==
  /\ Closed # Terminal /\ Closed # ToFile /\ Terminal # ToFile
  /\ \A j, k : /\ ReadEnd(j) \notin {Closed, Terminal, ToFile}
               /\ WriteEnd(j) \notin {Closed, Terminal, ToFile}
               /\ ReadEnd(j) # WriteEnd(k)
               /\ ReadEnd(j) = ReadEnd(k) => j = k
               /\ WriteEnd(j) = WriteEnd(k) => j = k
  BY DEF Closed, Terminal, ToFile, ReadEnd, WriteEnd

LEMMA FilesTyped ==
  /\ Closed \in Files /\ Terminal \in Files /\ ToFile \in Files
  /\ \A j \in Slots : ReadEnd(j) \in Files /\ WriteEnd(j) \in Files
  /\ AllClosed \in [Numbers -> Files]
  BY DEF Files, Closed, Terminal, ToFile, ReadEnd, WriteEnd, AllClosed

(* Who holds what follows. *)
LEMMA InvIsEnough == Inv => EndsAreNeighbours
<1> SUFFICES ASSUME Inv, NEW j \in Slots
             PROVE  /\ Holders(WriteEnd(j)) \subseteq {0, j}
                    /\ Holders(ReadEnd(j)) \subseteq
                         {0, j + 1} \cup {k \in {j} : phase[k] = "forked"}
  BY DEF Inv, EndsAreNeighbours
<1>1. ASSUME NEW k \in Slots, NEW n \in Numbers
      PROVE  \/ fd[k][n] \in Own(k)
             \/ phase[k] = "forked" /\ fd[k][n] = ReadEnd(k)
  <2>1. CASE phase[k] = "forked"
    BY <2>1 DEF Inv, ChildInv, OwnBut
  <2>2. CASE phase[k] = "running"
    BY <2>2 DEF Inv, ChildInv
  <2>3. CASE phase[k] \in {"unborn", "ended", "reaped"}
    BY <2>3 DEF Inv, ChildInv, AllClosed, Own
  <2> QED
    BY <2>1, <2>2, <2>3 DEF Inv, TypeOK, Phases
<1>2. Processes = {0} \cup Slots /\ \A k \in Slots : k \in Nat
  BY ConstantsAssumption DEF Processes, Slots
<1>3. ASSUME NEW k \in Slots, k \in Holders(WriteEnd(j)) PROVE k = j
  <2>1. PICK n \in Numbers : fd[k][n] = WriteEnd(j)
    BY <1>3 DEF Holders
  <2> QED
    BY <1>1, <2>1, Kinds4 DEF Own
<1>4. ASSUME NEW k \in Slots, k \in Holders(ReadEnd(j))
      PROVE  k = j + 1 \/ (k = j /\ phase[k] = "forked")
  <2>1. PICK n \in Numbers : fd[k][n] = ReadEnd(j)
    BY <1>4 DEF Holders
  <2>2. j = k - 1 \/ (k = j /\ phase[k] = "forked")
    BY <1>1, <2>1, Kinds4 DEF Own
  <2> QED
    BY <1>2, <2>2
<1> QED
  BY <1>2, <1>3, <1>4 DEF Holders

LEMMA CleanEnd == Inv => ShellIsLeftClean
<1> SUFFICES ASSUME Inv, at = "returned" PROVE ShellIsLeftClean
  BY DEF ShellIsLeftClean
<1>1. fd[0] = AtStart
  BY DEF Inv, ShellInv, ShellTable, HoldsPrevious, HoldsCurrent, AtStart
<1> QED
  BY <1>1 DEF Inv, WaitInv, ShellIsLeftClean

LEMMA InitInv == Init => Inv
<1> SUFFICES ASSUME Init PROVE Inv
  OBVIOUS
<1>1. Length \in Slots /\ Length \in Nat /\ programs \in Chains /\ MaxPrograms \in Nat \ {0}
      /\ PipeSize \in Nat \ {0} /\ Size \in Nat
  BY Lengths, ConstantsAssumption DEF Init
<1>2. /\ i = 1 /\ at \in {"pipe", "fork"} /\ (at = "pipe" => Length # 1)
      /\ (at = "fork" => Length = 1) /\ previous = 0
      /\ current \in [read : Numbers, write : Numbers]
  BY <1>1 DEF Init, Numbers
<1>3. fd[0] = AtStart /\ AtStart \in [Numbers -> Files] /\ \A k \in Slots : fd[k] = AllClosed
  BY FilesTyped, ConstantsAssumption DEF Init, Processes, Slots, AtStart
<1>4. fd \in [Processes -> [Numbers -> Files]]
  BY <1>3, FilesTyped DEF Init
<1>5. TypeOK
  BY <1>1, <1>2, <1>4 DEF Init, TypeOK, Slots, Numbers, Phases
<1>6. ShellInv
  BY <1>1, <1>2, <1>3 DEF ShellInv, NumbersInv, HoldsPrevious, HoldsCurrent, ShellTable, AtStart, Slots
<1>7. ChildInv /\ WaitInv
  BY <1>2, <1>3 DEF Init, ChildInv, WaitInv
<1> QED
  BY <1>5, <1>6, <1>7 DEF Inv

-------------------------------------------------------------------------------
(* The shell. *)

(* A step of the shell that touches no child and gives no number away. *)
LEMMA ChildrenStay ==
  ASSUME Inv, UNCHANGED <<programs, phase, args>>, \A k \in Slots : fd'[k] = fd[k]
  PROVE  ChildInv'
<1>1. Length' = Length /\ \A k : Own(k)' = Own(k)
  BY DEF Length, Own, Closed, Terminal, ToFile, WriteEnd, ReadEnd
<1> SUFFICES ASSUME NEW k \in Slots
             PROVE  /\ phase'[k] \in {"unborn", "ended", "reaped"} => fd'[k] = AllClosed
                    /\ phase'[k] = "running" => \A n \in Numbers : fd'[k][n] \in Own(k)
                    /\ phase'[k] = "forked" =>
                         /\ OwnBut(k, fd'[k], args'[k].read)
                         /\ k < Length => fd'[k][args'[k].write] \in Own(k)
                         /\ k > 1 => fd'[k][args'[k].previous] \in Own(k)
  BY <1>1 DEF ChildInv, OwnBut, ReadEnd
<1> QED
  BY DEF Inv, ChildInv

LEMMA TablesOfShell ==
  ASSUME Inv, NEW table \in [Numbers -> Files], fd' = [fd EXCEPT ![0] = table]
  PROVE  /\ fd' \in [Processes -> [Numbers -> Files]] /\ fd'[0] = table
         /\ \A k \in Slots : fd'[k] = fd[k]
  BY ConstantsAssumption DEF Inv, TypeOK, Processes, Slots

LEMMA Facts ==
  ASSUME Inv
  PROVE  /\ Length \in Slots /\ Length \in Nat /\ i \in 1..Length /\ i \in Slots
         /\ fd[0] \in [Numbers -> Files]
         /\ current.read \in Numbers /\ current.write \in Numbers /\ previous \in Numbers
         /\ \A k \in Slots : k \in Nat /\ k \in Processes /\ k # 0
<1>1. Length \in Slots /\ Length \in Nat /\ MaxPrograms \in Nat
  BY Lengths, ConstantsAssumption DEF Inv, TypeOK
<1>2. i \in 1..Length /\ i \in Slots
  BY <1>1 DEF Inv, TypeOK, Slots
<1>3. fd[0] \in [Numbers -> Files]
  BY <1>1 DEF Inv, TypeOK, Processes
<1> QED
  BY <1>1, <1>2, <1>3 DEF Inv, TypeOK, Processes, Slots

LEMMA MakePipeInv == ASSUME Inv, MakePipe PROVE Inv'
<1> DEFINE r == Min(FreeNumbers)
           w == Min(FreeNumbers \ {r})
           table == [[fd[0] EXCEPT ![r] = ReadEnd(i)] EXCEPT ![w] = WriteEnd(i)]
<1>0. /\ Length \in Slots /\ Length \in Nat /\ i \in Nat /\ i \in Slots /\ i < Length /\ 1 <= i
      /\ fd[0] \in [Numbers -> Files] /\ fd[0] = ShellTable
  BY Facts DEF Inv, ShellInv, NumbersInv, MakePipe, Slots
<1>1. \A n \in Numbers :
        fd[0][n] = IF n <= 2 THEN Terminal ELSE IF i > 1 /\ n = previous THEN ReadEnd(i - 1) ELSE Closed
  BY <1>0 DEF ShellTable, HoldsPrevious, HoldsCurrent, MakePipe
<1>2. FreeNumbers = {n \in Free0 : ~(i > 1 /\ n = previous)}
  BY <1>1, Kinds4 DEF FreeNumbers, Free0, Numbers
<1>3. r \in FreeNumbers
  <2>1. FreeNumbers \in SUBSET Nat
    BY <1>2 DEF Free0
  <2>2. 3 \in FreeNumbers \/ 4 \in FreeNumbers
    BY <1>2 DEF Free0
  <2> QED BY <2>1, <2>2, Lowest
<1> HIDE DEF r
<1>4. w \in FreeNumbers /\ w # r
  <2>1. FreeNumbers \ {r} \in SUBSET Nat
    BY <1>2 DEF Free0
  <2>2. FreeNumbers \ {r} # {}
    <3>1. 3 \in FreeNumbers \ {r} \/ 4 \in FreeNumbers \ {r} \/ 5 \in FreeNumbers \ {r}
      BY <1>2 DEF Free0
    <3> QED BY <3>1
  <2> QED BY <2>1, <2>2, Lowest
<1> HIDE DEF w
<1>5. r \in Free0 /\ w \in Free0 /\ r \in Numbers /\ w \in Numbers
      /\ (i > 1 => previous # r /\ previous # w)
  BY <1>2, <1>3, <1>4 DEF Free0, Numbers
<1>6. /\ current' = [read |-> r, write |-> w] /\ at = "pipe" /\ at' = "fork"
      /\ fd' = [fd EXCEPT ![0] = table]
      /\ UNCHANGED <<programs, i, previous, code, phase, args, programVars, why, status, buffer>>
  BY DEF MakePipe, r, w
<1>7. table \in [Numbers -> Files]
  BY <1>0, <1>5, FilesTyped
<1>8. /\ fd' \in [Processes -> [Numbers -> Files]] /\ fd'[0] = table
      /\ \A k \in Slots : fd'[k] = fd[k]
  BY <1>6, <1>7, TablesOfShell
<1>9. TypeOK'
  BY <1>5, <1>6, <1>8 DEF Inv, TypeOK, programVars, Length
<1>10. HoldsCurrent' /\ (HoldsPrevious' <=> i > 1) /\ Length' = Length
  BY <1>0, <1>6 DEF HoldsCurrent, HoldsPrevious, Length
<1>11. /\ current'.read = r /\ current'.write = w /\ previous' = previous /\ i' = i
       /\ at' = "fork"
  BY <1>6
<1>12. NumbersInv'
  BY <1>0, <1>4, <1>5, <1>10, <1>11 DEF Inv, ShellInv, NumbersInv, HoldsPrevious, MakePipe
<1>13. fd'[0] = ShellTable'
  <2>1. ASSUME NEW n \in Numbers
        PROVE  table[n] = IF n <= 2 THEN Terminal
                          ELSE IF i > 1 /\ n = previous THEN ReadEnd(i - 1)
                          ELSE IF n = r THEN ReadEnd(i) ELSE IF n = w THEN WriteEnd(i) ELSE Closed
    <3>1. table[n] = IF n = w THEN WriteEnd(i) ELSE IF n = r THEN ReadEnd(i) ELSE fd[0][n]
      BY <1>0, <1>4, <1>5
    <3>2. n \in Int /\ r > 2 /\ w > 2 /\ r # w
      BY <1>4, <1>5 DEF Free0, Numbers
    <3> HIDE DEF table
    <3> QED BY <1>1, <1>5, <3>1, <3>2
  <2>2. table = [n \in Numbers |->
                   IF n <= 2 THEN Terminal
                   ELSE IF i > 1 /\ n = previous THEN ReadEnd(i - 1)
                   ELSE IF n = r THEN ReadEnd(i) ELSE IF n = w THEN WriteEnd(i) ELSE Closed]
    <3> HIDE DEF table
    <3> QED BY <1>7, <2>1
  <2> HIDE DEF table
  <2> QED
    BY <1>8, <1>10, <1>11, <2>2
    DEF ShellTable, Closed, Terminal, ReadEnd, WriteEnd
<1>14. ChildInv'
  BY <1>6, <1>8, ChildrenStay
<1> QED
  BY <1>6, <1>9, <1>12, <1>13, <1>14 DEF Inv, ShellInv, WaitInv

(* The child gets the shell's table, and with it the one end too many. *)
LEMMA ForkInv == ASSUME Inv, Fork PROVE Inv'
<1>0. /\ Length \in Slots /\ Length \in Nat /\ i \in 1..Length /\ i \in Slots /\ i # 0
      /\ fd[0] \in [Numbers -> Files] /\ fd[0] = ShellTable
      /\ current.read \in Numbers /\ current.write \in Numbers /\ previous \in Numbers
  BY Facts DEF Inv, ShellInv, Fork
<1>1. /\ at = "fork" /\ at' = "close_previous" /\ Length' = Length
      /\ phase' = [phase EXCEPT ![i] = "forked"] /\ fd' = [fd EXCEPT ![i] = fd[0]]
      /\ args' = [args EXCEPT ![i] = [read |-> current.read, write |-> current.write,
                                     previous |-> previous]]
      /\ left' = [left EXCEPT ![i] = Work(programs[i])]
      /\ UNCHANGED <<programs, i, current, previous, code, held, why, status, buffer>>
  BY DEF Fork, Length
<1>2. fd' \in [Processes -> [Numbers -> Files]] /\ fd'[0] = fd[0] /\ fd'[i] = fd[0]
      /\ \A k \in Slots \ {i} : fd'[k] = fd[k]
  BY <1>0, <1>1, Facts DEF Inv, TypeOK
<1>3. Work(programs[i]) \in 0..(Size + 1)
  BY ConstantsAssumption DEF Work
<1>4. TypeOK'
  BY <1>0, <1>1, <1>2, <1>3 DEF Inv, TypeOK, Phases
<1>5. ShellInv'
  BY <1>0, <1>1, <1>2
  DEF Inv, ShellInv, NumbersInv, ShellTable, HoldsPrevious, HoldsCurrent
<1>6. /\ OwnBut(i, fd[0], current.read)
      /\ i < Length => fd[0][current.write] \in Own(i)
      /\ i > 1 => fd[0][previous] \in Own(i)
  BY <1>0, <1>1 DEF OwnBut, Own, ShellTable, Inv, ShellInv, NumbersInv, HoldsPrevious,
                    HoldsCurrent, Free0
<1>7. ASSUME NEW k \in Slots
      PROVE  /\ phase'[k] \in {"unborn", "ended", "reaped"} => fd'[k] = AllClosed
             /\ phase'[k] = "running" => \A n \in Numbers : fd'[k][n] \in Own(k)
             /\ phase'[k] = "forked" =>
                  /\ OwnBut(k, fd'[k], args'[k].read)
                  /\ k < Length => fd'[k][args'[k].write] \in Own(k)
                  /\ k > 1 => fd'[k][args'[k].previous] \in Own(k)
  <2>1. CASE k = i
    BY <1>0, <1>1, <1>2, <1>6, <2>1 DEF Inv, TypeOK
  <2>2. CASE k # i
    <3>1. phase'[k] = phase[k] /\ args'[k] = args[k] /\ fd'[k] = fd[k]
      BY <1>1, <1>2, <2>2 DEF Inv, TypeOK
    <3> QED BY <3>1 DEF Inv, ChildInv
  <2> QED BY <2>1, <2>2
<1>8. ChildInv'
  BY <1>1, <1>7 DEF ChildInv, OwnBut, Own, Closed, Terminal, ToFile, WriteEnd, ReadEnd
<1> QED
  BY <1>1, <1>4, <1>5, <1>8 DEF Inv, WaitInv

LEMMA ClosePreviousInv == ASSUME Inv, ClosePrevious PROVE Inv'
<1> DEFINE table == IF i > 1 THEN [fd[0] EXCEPT ![previous] = Closed] ELSE fd[0]
<1>0. /\ Length \in Nat /\ i \in 1..Length /\ i \in Nat /\ previous \in Numbers
      /\ fd[0] \in [Numbers -> Files] /\ fd[0] = ShellTable /\ NumbersInv
  BY Facts DEF Inv, ShellInv, ClosePrevious
<1>1. /\ at = "close_previous" /\ at' = "close_current" /\ Length' = Length
      /\ UNCHANGED <<programs, i, previous, current, code, phase, args, programVars, why,
                     status, buffer>>
  BY DEF ClosePrevious, Length
<1>2. table \in [Numbers -> Files] /\ fd' = [fd EXCEPT ![0] = table]
  <2>1. table \in [Numbers -> Files]
    BY <1>0, FilesTyped
  <2>2. CASE i > 1
    <3>1. fd' = [fd EXCEPT ![0][previous] = Closed]
      BY <2>2 DEF ClosePrevious, WithoutPrevious
    <3> QED BY <2>1, <2>2, <3>1
  <2>3. CASE ~(i > 1)
    <3>1. fd' = fd
      BY <2>3 DEF ClosePrevious, WithoutPrevious
    <3> QED BY <2>1, <2>3, <3>1 DEF Inv, TypeOK
  <2> QED BY <2>2, <2>3, <2>1
<1>3. /\ fd' \in [Processes -> [Numbers -> Files]] /\ fd'[0] = table
      /\ \A k \in Slots : fd'[k] = fd[k]
  <2> HIDE DEF table
  <2> QED BY <1>2, TablesOfShell
<1>4. TypeOK'
  BY <1>1, <1>3 DEF Inv, TypeOK, programVars, Length
<1>5. ~HoldsPrevious' /\ (HoldsCurrent' <=> i < Length) /\ (HoldsCurrent <=> i < Length)
      /\ (HoldsPrevious <=> i > 1)
  BY <1>1 DEF HoldsPrevious, HoldsCurrent
<1>6. NumbersInv'
  BY <1>0, <1>1, <1>5 DEF NumbersInv
<1>7. fd'[0] = ShellTable'
  <2>1. ASSUME NEW n \in Numbers
        PROVE  table[n] = IF n <= 2 THEN Terminal
                          ELSE IF i < Length /\ n = current.read THEN ReadEnd(i)
                          ELSE IF i < Length /\ n = current.write THEN WriteEnd(i) ELSE Closed
    <3>1. fd[0][n] = IF n <= 2 THEN Terminal
                     ELSE IF i > 1 /\ n = previous THEN ReadEnd(i - 1)
                     ELSE IF i < Length /\ n = current.read THEN ReadEnd(i)
                     ELSE IF i < Length /\ n = current.write THEN WriteEnd(i) ELSE Closed
      BY <1>0, <1>5 DEF ShellTable
    <3>2. table[n] = IF i > 1 /\ n = previous THEN Closed ELSE fd[0][n]
      BY <1>0
    <3>3. /\ i > 1 => previous > 2
          /\ i > 1 /\ i < Length => previous # current.read /\ previous # current.write
      BY <1>0, <1>5 DEF NumbersInv, Free0
    <3> HIDE DEF table
    <3> QED BY <1>0, <3>1, <3>2, <3>3 DEF Numbers
  <2>2. ShellTable' = [n \in Numbers |->
                         IF n <= 2 THEN Terminal
                         ELSE IF i < Length /\ n = current.read THEN ReadEnd(i)
                         ELSE IF i < Length /\ n = current.write THEN WriteEnd(i) ELSE Closed]
    BY <1>1, <1>5 DEF ShellTable, Closed, Terminal, ReadEnd, WriteEnd
  <2> HIDE DEF table
  <2> QED BY <1>2, <1>3, <2>1, <2>2
<1>8. ChildInv'
  BY <1>1, <1>3, ChildrenStay
<1> QED
  BY <1>1, <1>4, <1>6, <1>7, <1>8 DEF Inv, ShellInv, WaitInv

(* The next program reads from what this one writes to.  Behind the last the  *)
(* number that is closed is free, or, if there is only one, none is closed.   *)
LEMMA CloseCurrentInv == ASSUME Inv, CloseCurrent PROVE Inv'
<1> DEFINE table == IF Length > 1 THEN [fd[0] EXCEPT ![current.write] = Closed] ELSE fd[0]
<1>0. /\ Length \in Nat /\ i \in 1..Length /\ i \in Nat /\ current.write \in Numbers
      /\ current.read \in Numbers
      /\ fd[0] \in [Numbers -> Files] /\ fd[0] = ShellTable /\ NumbersInv
  BY Facts DEF Inv, ShellInv, CloseCurrent
<1>1. /\ at = "close_current" /\ Length' = Length /\ previous' = current.read
      /\ UNCHANGED <<programs, current, code, phase, args, programVars, why, status, buffer>>
      /\ i = Length => i' = 1 /\ at' = "wait"
      /\ i < Length => i' = i + 1 /\ at' = IF i + 1 < Length THEN "pipe" ELSE "fork"
  BY <1>0 DEF CloseCurrent, Length, LastProgram
<1>2. table \in [Numbers -> Files] /\ fd' = [fd EXCEPT ![0] = table]
  <2>1. table \in [Numbers -> Files]
    BY <1>0, FilesTyped
  <2>2. CASE Length > 1
    <3>1. fd' = [fd EXCEPT ![0][current.write] = Closed]
      BY <2>2 DEF CloseCurrent, WithoutWriteEnd
    <3> QED BY <2>1, <2>2, <3>1
  <2>3. CASE ~(Length > 1)
    <3>1. fd' = fd
      BY <2>3 DEF CloseCurrent, WithoutWriteEnd
    <3> QED BY <2>1, <2>3, <3>1 DEF Inv, TypeOK
  <2> QED BY <2>2, <2>3, <2>1
<1>3. /\ fd' \in [Processes -> [Numbers -> Files]] /\ fd'[0] = table
      /\ \A k \in Slots : fd'[k] = fd[k]
  <2> HIDE DEF table
  <2> QED BY <1>2, TablesOfShell
<1>4. i' \in 1..Length /\ at' \in {"wait", "pipe", "fork"}
  BY <1>0, <1>1
<1>5. TypeOK'
  BY <1>0, <1>1, <1>3, <1>4 DEF Inv, TypeOK, programVars, Length
<1>6. ~HoldsCurrent' /\ (HoldsPrevious' <=> i < Length) /\ (HoldsCurrent <=> i < Length)
      /\ ~HoldsPrevious
  BY <1>0, <1>1 DEF HoldsPrevious, HoldsCurrent
<1>7. /\ i < Length => /\ current.read \in Free0 /\ current.write \in Free0
                       /\ current.read # current.write
      /\ Length > 1 => current.write \in Free0
  BY <1>0, <1>1, <1>6 DEF NumbersInv
<1>8. NumbersInv'
  BY <1>0, <1>1, <1>6, <1>7 DEF NumbersInv
<1>9. fd'[0] = ShellTable'
  <2>1. ASSUME NEW n \in Numbers
        PROVE  table[n] = IF n <= 2 THEN Terminal
                          ELSE IF i < Length /\ n = current.read THEN ReadEnd(i) ELSE Closed
    <3>1. fd[0][n] = IF n <= 2 THEN Terminal
                     ELSE IF i < Length /\ n = current.read THEN ReadEnd(i)
                     ELSE IF i < Length /\ n = current.write THEN WriteEnd(i) ELSE Closed
      BY <1>0, <1>6 DEF ShellTable
    <3>2. table[n] = IF Length > 1 /\ n = current.write THEN Closed ELSE fd[0][n]
      BY <1>0
    <3>3. Length > 1 => current.write > 2
      BY <1>7 DEF Free0
    <3> HIDE DEF table
    <3> QED BY <1>0, <1>7, <3>1, <3>2, <3>3 DEF Numbers
  <2>2. ShellTable' = [n \in Numbers |->
                         IF n <= 2 THEN Terminal
                         ELSE IF i < Length /\ n = current.read THEN ReadEnd(i) ELSE Closed]
    <3>1. i < Length => i' - 1 = i
      BY <1>0, <1>1
    <3> QED
      BY <1>1, <1>6, <3>1 DEF ShellTable, Closed, Terminal, ReadEnd, WriteEnd
  <2> HIDE DEF table
  <2> QED BY <1>2, <1>3, <2>1, <2>2
<1>10. ChildInv'
  BY <1>1, <1>3, ChildrenStay
<1>11. WaitInv'
  BY <1>0, <1>1 DEF WaitInv
<1> QED
  BY <1>5, <1>8, <1>9, <1>10, <1>11 DEF Inv, ShellInv

LEMMA WaitInvStep == ASSUME Inv, Wait PROVE Inv'
<1>0. /\ Length \in Nat /\ i \in 1..Length /\ i \in Slots /\ i \in Nat /\ fd[0] = ShellTable
      /\ Length \in Slots
  BY Facts DEF Inv, ShellInv, Wait
<1>1. /\ at = "wait" /\ phase[i] = "ended" /\ phase' = [phase EXCEPT ![i] = "reaped"]
      /\ code' = status[i] /\ Length' = Length
      /\ i = Length => at' = "returned" /\ i' = i
      /\ i # Length => at' = "wait" /\ i' = i + 1
      /\ UNCHANGED <<programs, current, previous, fd, args, programVars, why, status, buffer>>
  BY DEF Wait, Length
<1>2. i' \in 1..Length /\ at' \in {"wait", "returned"}
  BY <1>0, <1>1
<1>3. TypeOK'
  BY <1>0, <1>1, <1>2 DEF Inv, TypeOK, Phases, programVars, Length
<1>4. ShellTable' = ShellTable
  BY <1>1, <1>2 DEF ShellTable, HoldsPrevious, HoldsCurrent, Closed, Terminal, ReadEnd, WriteEnd
<1>5. ShellInv'
  BY <1>0, <1>1, <1>2, <1>4 DEF ShellInv, NumbersInv, HoldsPrevious, HoldsCurrent
<1>6. ASSUME NEW k \in Slots
      PROVE  /\ phase'[k] \in {"unborn", "ended", "reaped"} => fd'[k] = AllClosed
             /\ phase'[k] = "running" => \A n \in Numbers : fd'[k][n] \in Own(k)
             /\ phase'[k] = "forked" =>
                  /\ OwnBut(k, fd'[k], args'[k].read)
                  /\ k < Length => fd'[k][args'[k].write] \in Own(k)
                  /\ k > 1 => fd'[k][args'[k].previous] \in Own(k)
  BY <1>0, <1>1 DEF Inv, TypeOK, ChildInv
<1>7. ChildInv'
  BY <1>1, <1>6 DEF ChildInv, OwnBut, Own, Closed, Terminal, ToFile, WriteEnd, ReadEnd
<1>8. WaitInv'
  <2>1. \A k \in 1..i : k \in Slots /\ phase'[k] = "reaped"
    BY <1>0, <1>1, ConstantsAssumption DEF Inv, TypeOK, WaitInv, Slots
  <2> QED
    BY <1>0, <1>1, <2>1 DEF WaitInv
<1> QED
  BY <1>3, <1>5, <1>7, <1>8 DEF Inv

LEMMA DieInv == ASSUME Inv, Die PROVE Inv'
<1>1. /\ at' = "died" /\ fd' = [fd EXCEPT ![0] = AllClosed] /\ Length' = Length
      /\ UNCHANGED <<programs, i, current, previous, code, phase, args, programVars, why,
                     status, buffer>>
  BY DEF Die, Length
<1>2. fd' \in [Processes -> [Numbers -> Files]] /\ \A k \in Slots : fd'[k] = fd[k]
  BY <1>1, FilesTyped, TablesOfShell
<1>3. TypeOK'
  BY <1>1, <1>2 DEF Inv, TypeOK, programVars, Length
<1>4. ChildInv'
  BY <1>1, <1>2, ChildrenStay
<1> QED
  BY <1>1, <1>3, <1>4 DEF Inv, ShellInv, NumbersInv, HoldsPrevious, HoldsCurrent, WaitInv

-------------------------------------------------------------------------------
(* The children. *)

(* A child's step leaves the shell alone and moves one child, which was not    *)
(* yet waited for.                                                            *)
LEMMA ChildMoves ==
  ASSUME Inv, NEW k \in Slots, NEW f, NEW table \in [Numbers -> Files], NEW c \in 0..1,
         phase[k] \in {"forked", "running"}, f \in {"running", "ended"},
         phase' = [phase EXCEPT ![k] = f], fd' = [fd EXCEPT ![k] = table],
         \/ f = "ended" /\ table = AllClosed
         \/ f = "running" /\ \A n \in Numbers : table[n] \in Own(k),
         status' = status \/ status' = [status EXCEPT ![k] = c],
         UNCHANGED <<shellVars, args, programVars, buffer>>,
         why' \in [Slots -> {"none", "done", "eof", "broken"}]
  PROVE  Inv'
<1>0. /\ Length \in Slots /\ Length \in Nat /\ k # 0 /\ k \in Processes /\ 0 \in Processes
      /\ i \in 1..Length /\ Length' = Length
      /\ UNCHANGED <<programs, i, at, current, previous, code>>
      /\ \A q \in 1..Length : q \in Slots
  BY Facts, ConstantsAssumption DEF shellVars, Length, Processes, Slots
<1>1. /\ fd' \in [Processes -> [Numbers -> Files]] /\ fd'[0] = fd[0] /\ fd'[k] = table
      /\ \A q \in Slots \ {k} : fd'[q] = fd[q]
  BY <1>0, Facts DEF Inv, TypeOK
<1>2. /\ phase'[k] = f /\ phase' \in [Slots -> Phases]
      /\ \A q \in Slots \ {k} : phase'[q] = phase[q]
  BY DEF Inv, TypeOK, Phases
<1>3. /\ status' \in [Slots -> 0..1] /\ \A q \in Slots \ {k} : status'[q] = status[q]
  BY DEF Inv, TypeOK
<1>4. TypeOK'
  BY <1>0, <1>1, <1>2, <1>3 DEF Inv, TypeOK, programVars
<1>5. ShellTable' = ShellTable /\ NumbersInv' = NumbersInv
  BY <1>0 DEF ShellTable, NumbersInv, HoldsPrevious, HoldsCurrent, Closed, Terminal, ReadEnd, WriteEnd
<1>6. ShellInv'
  BY <1>0, <1>1, <1>5 DEF Inv, ShellInv
<1>7. ASSUME NEW q \in Slots
      PROVE  /\ phase'[q] \in {"unborn", "ended", "reaped"} => fd'[q] = AllClosed
             /\ phase'[q] = "running" => \A n \in Numbers : fd'[q][n] \in Own(q)
             /\ phase'[q] = "forked" =>
                  /\ OwnBut(q, fd'[q], args[q].read)
                  /\ q < Length => fd'[q][args[q].write] \in Own(q)
                  /\ q > 1 => fd'[q][args[q].previous] \in Own(q)
  <2>1. CASE q = k
    BY <1>1, <1>2, <2>1
  <2>2. CASE q # k
    BY <1>1, <1>2, <2>2 DEF Inv, ChildInv
  <2> QED BY <2>1, <2>2
<1>8. ChildInv'
  BY ZenonT(30), <1>0, <1>7 DEF ChildInv, OwnBut, Own, AllClosed, Closed, Terminal, ToFile, WriteEnd, ReadEnd
<1>9. WaitInv'
  <2>1. ASSUME NEW q \in Slots, phase[q] = "reaped"
        PROVE  phase'[q] = "reaped" /\ status'[q] = status[q]
    BY <1>2, <1>3, <2>1
  <2>2. CASE at = "wait"
    <3>1. \A q \in 1..(i - 1) : q \in Slots /\ phase[q] = "reaped"
      BY <1>0, <2>2 DEF Inv, WaitInv
    <3>2. \A q \in 1..(i - 1) : phase'[q] = "reaped"
      BY <2>1, <3>1
    <3>3. i > 1 => code = status[i - 1] /\ i - 1 \in 1..(i - 1)
      BY <1>0, <2>2 DEF Inv, WaitInv
    <3>4. i > 1 => code' = status'[i - 1]
      BY <1>0, <2>1, <3>1, <3>3
    <3> QED BY <1>0, <2>2, <3>2, <3>4 DEF WaitInv
  <2>3. CASE at = "returned"
    BY <1>0, <2>1, <2>3 DEF Inv, WaitInv
  <2>4. CASE at \notin {"wait", "returned"}
    BY <1>0, <2>4 DEF WaitInv
  <2> QED BY <2>2, <2>3, <2>4
<1> QED
  BY <1>4, <1>6, <1>8, <1>9 DEF Inv

LEMMA EndInv ==
  ASSUME Inv, NEW k \in Slots, NEW cause \in {"done", "eof", "broken"}, NEW c \in 0..1,
         phase[k] = "running", End(k, cause, c)
  PROVE  Inv'
<1>1. why' \in [Slots -> {"none", "done", "eof", "broken"}]
  BY DEF End, Inv, TypeOK
<1> QED
  BY <1>1, FilesTyped, ChildMoves DEF End

(* dup2 of an end that is the child's own spoils nothing. *)
LEMMA Dup2Own ==
  ASSUME NEW k, NEW r, NEW from \in Numbers, NEW to \in Numbers,
         NEW table \in [Numbers -> Files], OwnBut(k, table, r), table[from] \in Own(k)
  PROVE  /\ Dup2(table, from, to) \in [Numbers -> Files]
         /\ OwnBut(k, Dup2(table, from, to), r)
         /\ \A n \in Numbers : table[n] \in Own(k) => Dup2(table, from, to)[n] \in Own(k)
  BY DEF Dup2, OwnBut

LEMMA ExecInv == ASSUME Inv, NEW k \in Slots, Exec(k) PROVE Inv'
<1> DEFINE r == args[k].read
           table1 == IF k < Length THEN Dup2(fd[k], args[k].write, STDOUT) ELSE fd[k]
           table2 == InputFromPrevious(k, table1)
           table3 == ReadEndCut(k, table2)
<1>0. /\ k \in Nat /\ k \in Processes /\ fd[k] \in [Numbers -> Files] /\ phase[k] = "forked"
      /\ r \in Numbers /\ args[k].write \in Numbers /\ args[k].previous \in Numbers
      /\ STDIN \in Numbers /\ STDOUT \in Numbers
  BY Facts DEF Inv, TypeOK, Exec, STDIN, STDOUT, Numbers
<1>1. /\ OwnBut(k, fd[k], r)
      /\ k < Length => fd[k][args[k].write] \in Own(k)
      /\ k > 1 => fd[k][args[k].previous] \in Own(k)
  BY <1>0 DEF Inv, ChildInv
<1> HIDE DEF r
<1>2. /\ table1 \in [Numbers -> Files] /\ OwnBut(k, table1, r)
      /\ k > 1 => table1[args[k].previous] \in Own(k)
  BY <1>0, <1>1, Dup2Own
<1> HIDE DEF table1
<1>3. table2 \in [Numbers -> Files] /\ OwnBut(k, table2, r)
  BY <1>0, <1>2, Dup2Own DEF InputFromPrevious
<1> HIDE DEF table2
<1>4. /\ table3 \in [Numbers -> Files] /\ \A n \in Numbers : table3[n] \in Own(k)
  BY <1>0, <1>3, FilesTyped DEF ReadEndCut, OwnBut, Own, r
<1> HIDE DEF table3
<1>5. /\ Redirected(k, table3) \in [Numbers -> Files]
      /\ \A n \in Numbers : Redirected(k, table3)[n] \in Own(k)
  BY <1>0, <1>4, FilesTyped DEF Redirected, Own
<1>6. Arranged(k) = Redirected(k, table3)
  BY DEF Arranged, table1, table2, table3
<1>7. why' \in [Slots -> {"none", "done", "eof", "broken"}]
  BY DEF Exec, Inv, TypeOK
<1>8. /\ phase' = [phase EXCEPT ![k] = "running"] /\ fd' = [fd EXCEPT ![k] = Arranged(k)]
      /\ UNCHANGED <<shellVars, args, programVars, status, buffer>>
  BY DEF Exec
<1> DEFINE table == Arranged(k)
<1>9. table \in [Numbers -> Files] /\ \A n \in Numbers : table[n] \in Own(k)
  BY <1>5, <1>6
<1>10. fd' = [fd EXCEPT ![k] = table]
  BY <1>8
<1> HIDE DEF table
<1>11. /\ 0 \in 0..1 /\ "running" \in {"running", "ended"} /\ phase[k] \in {"forked", "running"}
       /\ status' = status \/ status' = [status EXCEPT ![k] = 0]
       /\ UNCHANGED <<shellVars, args, programVars, buffer>>
  BY <1>0, <1>8
<1> QED
  BY <1>7, <1>8, <1>9, <1>10, <1>11, ChildMoves, Zenon

LEMMA DataInv ==
  ASSUME Inv, NEW k \in Slots, Write(k) \/ Read(k)
  PROVE  Inv'
<1>1. /\ UNCHANGED <<shellVars, fd, phase, args, why, status>> /\ Length' = Length
      /\ Size \in Nat /\ PipeSize \in Nat
  BY ConstantsAssumption DEF Write, Read, shellVars, Length
<1>2. buffer' \in [Slots -> 0..PipeSize]
  <2>1. \A j \in Slots : buffer[j] \in 0..PipeSize
    BY DEF Inv, TypeOK
  <2>2. CASE buffer' = buffer
    BY <2>2 DEF Inv, TypeOK
  <2>3. ASSUME NEW j, buffer[j] < PipeSize, buffer' = [buffer EXCEPT ![j] = @ + 1]
        PROVE  buffer' \in [Slots -> 0..PipeSize]
    <3>1. CASE j \in Slots
      <4>1. buffer[j] + 1 \in 0..PipeSize
        BY <1>1, <2>1, <2>3, <3>1
      <4> QED BY <2>3, <4>1 DEF Inv, TypeOK
    <3>2. CASE j \notin Slots
      <4>1. buffer \in [Slots -> 0..PipeSize]
        BY DEF Inv, TypeOK
      <4> QED BY <2>3, <3>2, <4>1
    <3> QED BY <3>1, <3>2
  <2>4. ASSUME NEW j, buffer[j] > 0, buffer' = [buffer EXCEPT ![j] = @ - 1]
        PROVE  buffer' \in [Slots -> 0..PipeSize]
    <3>1. CASE j \in Slots
      <4>1. buffer[j] - 1 \in 0..PipeSize
        BY <1>1, <2>1, <2>4, <3>1
      <4> QED BY <2>4, <4>1 DEF Inv, TypeOK
    <3>2. CASE j \notin Slots
      <4>1. buffer \in [Slots -> 0..PipeSize]
        BY DEF Inv, TypeOK
      <4> QED BY <2>4, <3>2, <4>1
    <3> QED BY <3>1, <3>2
  <2> QED BY <2>2, <2>3, <2>4 DEF Write, Read
<1>3. left' \in [Slots -> 0..(Size + 1)] /\ held' \in [Slots -> BOOLEAN]
  <2>1. left[k] \in 0..(Size + 1) /\ (left[k] > 0 => left[k] - 1 \in 0..(Size + 1))
    BY <1>1 DEF Inv, TypeOK
  <2>2. CASE Write(k)
    BY <2>1, <2>2 DEF Write, Inv, TypeOK
  <2>3. CASE Read(k)
    BY <2>3 DEF Read, Inv, TypeOK
  <2> QED BY <2>2, <2>3
<1>4. TypeOK'
  BY <1>1, <1>2, <1>3 DEF Inv, TypeOK, shellVars
<1>5. ShellInv' /\ WaitInv'
  BY <1>1 DEF Inv, ShellInv, NumbersInv, WaitInv, ShellTable, HoldsPrevious, HoldsCurrent,
              shellVars, Closed, Terminal, ReadEnd, WriteEnd
<1>6. ChildInv'
  BY <1>1, ChildrenStay DEF shellVars
<1> QED
  BY <1>4, <1>5, <1>6 DEF Inv

LEMMA ChildInvStep == ASSUME Inv, NEW k \in Slots, Child(k) PROVE Inv'
<1>1. CASE WriteInVain(k)
  BY <1>1, EndInv DEF WriteInVain, Writing
<1>2. CASE EndOfInput(k)
  BY <1>2, EndInv DEF EndOfInput, Reading
<1>3. CASE Finish(k)
  BY <1>3, EndInv DEF Finish, Reading, Writing
<1> QED
  BY <1>1, <1>2, <1>3, ExecInv, DataInv DEF Child

LEMMA NextInv == Inv /\ [Next]_vars => Inv'
<1> SUFFICES ASSUME Inv, [Next]_vars PROVE Inv'
  OBVIOUS
<1>1. CASE ShellStep
  BY <1>1, MakePipeInv, ForkInv, ClosePreviousInv, CloseCurrentInv, WaitInvStep DEF ShellStep
<1>2. CASE UNCHANGED vars
  <2>1. TypeOK' /\ ShellInv' /\ WaitInv'
    BY <1>2 DEF Inv, TypeOK, ShellInv, NumbersInv, WaitInv, ShellTable, HoldsPrevious,
                HoldsCurrent, vars, shellVars, programVars, Length, Closed, Terminal, ReadEnd, WriteEnd
  <2>2. ChildInv'
    BY <1>2, ChildrenStay DEF vars, shellVars
  <2> QED BY <2>1, <2>2 DEF Inv
<1> QED
  BY <1>1, <1>2, DieInv, ChildInvStep DEF Next

-------------------------------------------------------------------------------
(* For pipelines of any length: the ends of a pipe are with the two programs it  *)
(* connects and the shell only (pipe_list.c:86-122), so that no third process  *)
(* keeps one from seeing the end of its input or of its readers.               *)
THEOREM NeighboursHoldTheEnds == Spec => []EndsAreNeighbours
  BY InitInv, NextInv, InvIsEnough, PTL DEF Spec

(* For pipelines of any length: when pipe_list_exec returns, the shell has the   *)
(* descriptors it began with, every child has been waited for, and the code is *)
(* the last program's (pipe_list.c:125-133).                                   *)
THEOREM NothingIsLeftOpen == Spec => []ShellIsLeftClean
  BY InitInv, NextInv, CleanEnd, PTL DEF Spec

-------------------------------------------------------------------------------
(* The promise.  EndsAreNeighbours says who may hold an end; that data flows   *)
(* and that an end of input or a broken pipe means what it should, also needs  *)
(* who does hold one: a program that is started and not over holds the end it  *)
(* writes to and the end it reads, under numbers nothing has overwritten, and  *)
(* the shell holds the end that the next one is going to read.                 *)
Started(k) ==
  \/ k < i
  \/ k = i /\ at \in {"close_previous", "close_current"}
  \/ k <= Length /\ at \in {"wait", "returned"}

Connected(k) ==
  /\ \A n \in Numbers : fd[k][n] = WriteEnd(k) => k < Length
  /\ phase[k] \in {"forked", "running"} /\ k < Length =>
       /\ args[k].write \in Free0 /\ args[k].write # args[k].read
       /\ fd[k][args[k].write] = WriteEnd(k)
  /\ phase[k] = "forked" /\ k > 1 =>
       /\ args[k].previous \in Free0 /\ args[k].read \in Free0
       /\ fd[k][args[k].previous] = ReadEnd(k - 1)
  /\ phase[k] = "running" /\ k > 1 => fd[k][STDIN] = ReadEnd(k - 1)

LifeInv ==
  /\ \A k \in Slots : phase[k] = "unborn" <=> ~Started(k)
  /\ \A k \in Slots : Gone(k) => why[k] \in {"done", "eof", "broken"}

(* For the last program `current' still is what `previous' has become. *)
LastNumbers == i > 1 /\ i = Length /\ at \in {"fork", "close_previous"} => current.read = previous

LinkInv == (\A k \in Slots : Connected(k)) /\ LifeInv /\ LastNumbers

LEMMA InitLinks == Init => LinkInv
<1> SUFFICES ASSUME Init PROVE LinkInv
  OBVIOUS
<1>1. /\ Length \in Nat /\ i = 1 /\ at \in {"pipe", "fork"}
      /\ \A k \in Slots : phase[k] = "unborn" /\ fd[k] = AllClosed /\ k \in Nat /\ k >= 1
  BY Lengths, ConstantsAssumption DEF Init, Processes, Slots
<1>2. \A k \in Slots : Connected(k)
  BY <1>1, Kinds4 DEF Connected, AllClosed
<1> QED
  BY <1>1, <1>2 DEF LinkInv, LifeInv, LastNumbers, Started, Gone

(* A child whose table stays, or that is over. *)
LEMMA ConnectedStays ==
  ASSUME NEW k \in Slots, Connected(k), programs' = programs, args'[k] = args[k],
         \/ fd'[k] = fd[k] /\ phase'[k] = phase[k]
         \/ fd'[k] \in {fd[k], AllClosed} /\ phase'[k] \in {"ended", "reaped"}
  PROVE  Connected(k)'
<1>1. \A n \in Numbers : AllClosed[n] # WriteEnd(k)
  BY Kinds4 DEF AllClosed
<1> QED
  BY <1>1 DEF Connected, Length, ReadEnd, WriteEnd, AllClosed, Closed

(* The steps of the shell that change its own table only. *)
LEMMA ShellLinks ==
  ASSUME Inv, LinkInv, MakePipe \/ ClosePrevious \/ CloseCurrent \/ Die
  PROVE  LinkInv'
<1>1. /\ Length' = Length /\ UNCHANGED <<programs, phase, args, why>>
      /\ \A k \in Slots : k \in Nat /\ k >= 1 /\ k # 0
      /\ Length \in Nat /\ i \in 1..Length /\ i \in Nat /\ Length <= MaxPrograms
  BY Facts, ConstantsAssumption DEF MakePipe, ClosePrevious, CloseCurrent, Die, Length, Slots
<1>2. \A k \in Slots : fd'[k] = fd[k]
  <2>1. fd \in [Processes -> [Numbers -> Files]] /\ \A k \in Slots : k \in Processes
    BY Facts DEF Inv, TypeOK
  <2>2. CASE MakePipe
    BY <1>1, <2>1, <2>2 DEF MakePipe
  <2>3. CASE ClosePrevious \/ CloseCurrent
    BY <1>1, <2>1, <2>3 DEF ClosePrevious, CloseCurrent, WithoutPrevious, WithoutWriteEnd
  <2>4. CASE Die
    BY <1>1, <2>1, <2>4 DEF Die
  <2> QED
    BY <2>2, <2>3, <2>4
<1>3. \A k \in Slots : Connected(k)'
  BY <1>1, <1>2, ConnectedStays DEF LinkInv
<1>4. \A k \in Slots : Started(k)' <=> Started(k)
  <2>1. CASE MakePipe \/ ClosePrevious
    BY <1>1, <2>1 DEF MakePipe, ClosePrevious, Started
  <2>2. CASE Die
    BY <1>1, <2>2 DEF Die, Started
  <2>3. CASE CloseCurrent /\ i = Length
    <3>1. i' = 1 /\ at' = "wait" /\ at = "close_current"
      BY <2>3 DEF CloseCurrent, LastProgram
    <3> QED BY <1>1, <2>3, <3>1 DEF Started
  <2>4. CASE CloseCurrent /\ i # Length
    <3>1. i' = i + 1 /\ at' \in {"pipe", "fork"} /\ at = "close_current"
      BY <2>4 DEF CloseCurrent, LastProgram
    <3> QED BY <1>1, <3>1 DEF Started
  <2> QED BY <2>1, <2>2, <2>3, <2>4
<1>5. LifeInv'
  BY <1>1, <1>4 DEF LinkInv, LifeInv, Gone
<1>6. LastNumbers'
  <2>1. CASE MakePipe
    BY <1>1, <2>1 DEF Inv, ShellInv, NumbersInv, MakePipe, LastNumbers
  <2>2. CASE ClosePrevious \/ Die
    BY <2>2 DEF ClosePrevious, Die, LastNumbers
  <2>3. CASE CloseCurrent
    BY <2>3 DEF CloseCurrent, LastNumbers
  <2> QED BY <2>1, <2>2, <2>3
<1> QED
  BY <1>3, <1>5, <1>6 DEF LinkInv

(* The child gets the shell's table: both ends it is going to use are there. *)
LEMMA ForkLinks == ASSUME Inv, LinkInv, Fork PROVE LinkInv'
<1>1. /\ Length \in Nat /\ i \in 1..Length /\ i \in Slots /\ i \in Nat
      /\ fd[0] = ShellTable /\ NumbersInv
      /\ \A k \in Slots : k \in Nat /\ k \in Processes /\ k # 0
  BY Facts DEF Inv, ShellInv, Fork
<1>2. /\ at = "fork" /\ at' = "close_previous" /\ Length' = Length
      /\ UNCHANGED <<programs, i, current, previous, why>>
      /\ phase'[i] = "forked" /\ fd'[i] = fd[0]
      /\ args'[i] = [read |-> current.read, write |-> current.write, previous |-> previous]
      /\ \A k \in Slots \ {i} : phase'[k] = phase[k] /\ fd'[k] = fd[k] /\ args'[k] = args[k]
  BY <1>1 DEF Fork, Length, Inv, TypeOK
<1>3. ASSUME NEW k \in Slots, k = i PROVE Connected(k)'
  <2>1. ASSUME NEW n \in Numbers, fd'[i][n] = WriteEnd(i) PROVE i < Length
    BY <1>1, <1>2, <2>1, Kinds4 DEF ShellTable, HoldsCurrent
  <2>2. ASSUME i < Length
        PROVE  /\ current.write \in Free0 /\ current.write # current.read
               /\ fd'[i][current.write] = WriteEnd(i)
    <3>1. HoldsCurrent /\ (HoldsPrevious <=> i > 1)
      BY <1>2, <2>2 DEF HoldsCurrent, HoldsPrevious
    <3>2. /\ current.write \in Free0 /\ current.write # current.read
          /\ i > 1 => previous # current.write
      BY <1>1, <3>1 DEF NumbersInv
    <3>3. current.write > 2 /\ current.write \in Numbers /\ current.write \in Int
      BY <3>2 DEF Free0, Numbers
    <3> QED BY <1>1, <1>2, <3>1, <3>2, <3>3 DEF ShellTable
  <2>3. ASSUME i > 1
        PROVE  /\ previous \in Free0 /\ current.read \in Free0
               /\ fd'[i][previous] = ReadEnd(i - 1)
    <3>1. HoldsPrevious
      BY <1>2, <2>3 DEF HoldsPrevious
    <3>2. previous \in Free0
      BY <1>1, <3>1 DEF NumbersInv
    <3>3. current.read \in Free0
      <4>1. CASE i < Length
        BY <1>1, <1>2, <4>1 DEF NumbersInv, HoldsCurrent
      <4>2. CASE i = Length
        BY <1>2, <2>3, <3>2, <4>2 DEF LinkInv, LastNumbers
      <4> QED BY <1>1, <4>1, <4>2
    <3>4. previous > 2 /\ previous \in Numbers /\ previous \in Int
      BY <3>2 DEF Free0, Numbers
    <3> QED BY <1>1, <1>2, <3>1, <3>2, <3>3, <3>4 DEF ShellTable
  <2> QED
    BY <1>2, <1>3, <2>1, <2>2, <2>3 DEF Connected, ReadEnd, WriteEnd
<1>4. \A k \in Slots \ {i} : Connected(k)'
  BY <1>2, ConnectedStays DEF LinkInv
<1>5. \A k \in Slots : phase'[k] = "unborn" <=> ~Started(k)'
  BY <1>1, <1>2 DEF LinkInv, LifeInv, Started
<1>6. LifeInv'
  BY <1>2, <1>5 DEF LinkInv, LifeInv, Gone
<1>7. LastNumbers'
  BY <1>2 DEF LinkInv, LastNumbers
<1> QED
  BY <1>3, <1>4, <1>6, <1>7 DEF LinkInv

LEMMA WaitLinks == ASSUME Inv, LinkInv, Wait PROVE LinkInv'
<1>1. /\ Length \in Nat /\ i \in 1..Length /\ i \in Slots
      /\ \A k \in Slots : k \in Nat /\ k >= 1
  BY Facts DEF Slots
<1>2. /\ at = "wait" /\ phase[i] = "ended" /\ phase' = [phase EXCEPT ![i] = "reaped"]
      /\ Length' = Length /\ at' \in {"wait", "returned"} /\ i' \in 1..Length
      /\ UNCHANGED <<programs, fd, args, why>>
  BY <1>1 DEF Wait, Length
<1>3. phase'[i] = "reaped" /\ \A k \in Slots \ {i} : phase'[k] = phase[k]
  BY <1>1, <1>2 DEF Inv, TypeOK
<1>4. \A k \in Slots : Connected(k)'
  BY <1>2, <1>3, ConnectedStays DEF LinkInv
<1>5. \A k \in Slots : Started(k)' <=> Started(k)
  BY <1>1, <1>2 DEF Started
<1>6. LifeInv'
  BY <1>2, <1>3, <1>5 DEF LinkInv, LifeInv, Gone
<1> QED
  BY <1>2, <1>4, <1>6 DEF LinkInv, LastNumbers

(* A child's step leaves the others alone. *)
LEMMA OneMoves ==
  ASSUME Inv, LinkInv, NEW k \in Slots, phase[k] # "unborn", phase'[k] # "unborn",
         UNCHANGED <<shellVars, args>>,
         \A q \in Slots \ {k} : fd'[q] = fd[q] /\ phase'[q] = phase[q] /\ why'[q] = why[q],
         Connected(k)', Gone(k)' => why'[k] \in {"done", "eof", "broken"}
  PROVE  LinkInv'
<1>1. UNCHANGED <<programs, i, at, current, previous, args>> /\ Length' = Length
  BY DEF shellVars, Length
<1>2. \A q \in Slots : Connected(q)'
  BY <1>1, ConnectedStays DEF LinkInv
<1>3. LifeInv'
  BY <1>1 DEF LinkInv, LifeInv, Gone, Started
<1> QED
  BY <1>1, <1>2, <1>3 DEF LinkInv, LastNumbers

LEMMA EndLinks ==
  ASSUME Inv, LinkInv, NEW k \in Slots, NEW cause \in {"done", "eof", "broken"}, NEW c,
         phase[k] = "running", End(k, cause, c)
  PROVE  LinkInv'
<1>1. /\ phase'[k] = "ended" /\ fd'[k] = AllClosed /\ why'[k] = cause
      /\ UNCHANGED <<shellVars, args>> /\ programs' = programs
      /\ \A q \in Slots \ {k} : fd'[q] = fd[q] /\ phase'[q] = phase[q] /\ why'[q] = why[q]
  BY Facts DEF End, Inv, TypeOK, shellVars
<1>2. Connected(k)'
  BY <1>1, ConnectedStays DEF LinkInv
<1> QED
  BY <1>1, <1>2, OneMoves

(* What the arranging leaves under the numbers that matter. *)
LEMMA ExecLinks == ASSUME Inv, LinkInv, NEW k \in Slots, Exec(k) PROVE LinkInv'
<1> DEFINE r == args[k].read
           w == args[k].write
           p == args[k].previous
           table1 == IF k < Length THEN Dup2(fd[k], w, STDOUT) ELSE fd[k]
           table2 == IF k > 1 THEN Dup2(table1, p, STDIN) ELSE table1
           table3 == [table2 EXCEPT ![r] = Closed]
           table == Redirected(k, table3)
<1>1. /\ k \in Nat /\ fd[k] \in [Numbers -> Files] /\ phase[k] = "forked" /\ Connected(k)
      /\ r \in Numbers /\ w \in Numbers /\ p \in Numbers /\ Length \in Nat
      /\ STDIN \in Numbers /\ STDOUT \in Numbers /\ STDIN # STDOUT
      /\ STDIN \notin Free0 /\ STDOUT \notin Free0
  BY Facts DEF Inv, TypeOK, Exec, STDIN, STDOUT, Numbers, LinkInv, Free0
<1>2. /\ \A n \in Numbers : fd[k][n] = WriteEnd(k) => k < Length
      /\ k < Length => w \in Free0 /\ w # r /\ fd[k][w] = WriteEnd(k)
      /\ k > 1 => p \in Free0 /\ r \in Free0 /\ fd[k][p] = ReadEnd(k - 1)
  BY <1>1 DEF Connected
<1>3. Arranged(k) = table
  BY DEF Arranged, ReadEndCut, InputFromPrevious
<1>4. /\ fd'[k] = Arranged(k) /\ phase'[k] = "running" /\ programs' = programs
      /\ args' = args /\ why' = why /\ UNCHANGED <<shellVars, args>> /\ Length' = Length
      /\ \A q \in Slots \ {k} : fd'[q] = fd[q] /\ phase'[q] = phase[q] /\ why'[q] = why[q]
  BY Facts DEF Exec, Inv, TypeOK, shellVars, Length
<1> HIDE DEF r, w, p
<1>5. /\ table1 \in [Numbers -> Files]
      /\ \A n \in Numbers : table1[n] = WriteEnd(k) => k < Length
      /\ k < Length => table1[w] = WriteEnd(k)
      /\ k > 1 => table1[p] = ReadEnd(k - 1)
  BY <1>1, <1>2 DEF Dup2
<1> HIDE DEF table1
<1>6. /\ table2 \in [Numbers -> Files]
      /\ \A n \in Numbers : table2[n] = WriteEnd(k) => k < Length
      /\ k < Length => table2[w] = WriteEnd(k)
      /\ k > 1 => table2[STDIN] = ReadEnd(k - 1)
  BY <1>1, <1>2, <1>5, Kinds4 DEF Dup2
<1> HIDE DEF table2
<1>7. /\ table3 \in [Numbers -> Files]
      /\ \A n \in Numbers : table3[n] = WriteEnd(k) => k < Length
      /\ k < Length => table3[w] = WriteEnd(k)
      /\ k > 1 => table3[STDIN] = ReadEnd(k - 1)
  BY <1>1, <1>2, <1>6, Kinds4, FilesTyped
<1> HIDE DEF table3
<1>8. /\ \A n \in Numbers : table[n] = WriteEnd(k) => k < Length
      /\ k < Length => table[w] = WriteEnd(k)
      /\ k > 1 => table[STDIN] = ReadEnd(k - 1)
  BY <1>1, <1>2, <1>7, Kinds4 DEF Redirected
<1> HIDE DEF table
<1>9. Connected(k)'
  BY <1>2, <1>3, <1>4, <1>8 DEF Connected, ReadEnd, WriteEnd, r, w
<1> QED
  BY <1>1, <1>4, <1>9, OneMoves DEF Gone

LEMMA NextLinks == Inv /\ LinkInv /\ [Next]_vars => LinkInv'
<1> SUFFICES ASSUME Inv, LinkInv, [Next]_vars PROVE LinkInv'
  OBVIOUS
<1>1. CASE ShellStep \/ Die
  BY <1>1, ShellLinks, ForkLinks, WaitLinks DEF ShellStep
<1>2. ASSUME NEW k \in Slots, Child(k) PROVE LinkInv'
  <2>1. CASE WriteInVain(k)
    BY <2>1, EndLinks DEF WriteInVain, Writing
  <2>2. CASE EndOfInput(k)
    BY <2>2, EndLinks DEF EndOfInput, Reading
  <2>3. CASE Finish(k)
    BY <2>3, EndLinks DEF Finish, Reading, Writing
  <2>4. CASE Write(k) \/ Read(k)
    BY <2>4, ConnectedStays
    DEF Write, Read, shellVars, LinkInv, LifeInv, LastNumbers, Gone, Started, Length
  <2> QED
    BY <1>2, <2>1, <2>2, <2>3, <2>4, ExecLinks DEF Child
<1>3. CASE UNCHANGED vars
  BY <1>3, ConnectedStays
  DEF vars, shellVars, LinkInv, LifeInv, LastNumbers, Gone, Started, Length
<1> QED
  BY <1>1, <1>2, <1>3 DEF Next

-------------------------------------------------------------------------------
(* The steps of the promise. *)

LEMMA Stages ==
  ASSUME Inv, LinkInv, NEW k \in Slots
  PROVE  /\ Stage(k) = "unstarted" <=> phase[k] = "unborn"
         /\ Stage(k) = "working" <=> phase[k] \in {"forked", "running"}
         /\ Gone(k) => Stage(k) \in {"done", "eof", "broken"}
         /\ phase[k] \in Phases
  BY DEF Inv, TypeOK, Phases, LinkInv, LifeInv, Stage, Gone

(* A program runs only if it is one of the pipeline's, and those before it     *)
(* have been started.                                                          *)
LEMMA RunningIsStarted ==
  ASSUME Inv, LinkInv, NEW k \in Slots, phase[k] # "unborn"
  PROVE  /\ k \in 1..Length /\ k \in Nat /\ Length \in Nat
         /\ \A q \in 1..k : q \in Slots /\ phase[q] # "unborn"
<1>1. /\ Length \in Nat /\ Length <= MaxPrograms /\ i \in 1..Length /\ k \in 1..MaxPrograms
      /\ MaxPrograms \in Nat /\ Started(k)
  BY Facts, ConstantsAssumption DEF LinkInv, LifeInv, Slots
<1>2. k \in 1..Length
  BY <1>1 DEF Started
<1>3. ASSUME NEW q \in 1..k PROVE q \in Slots /\ Started(q)
  BY <1>1 DEF Slots, Started
<1> QED
  BY <1>1, <1>2, <1>3 DEF LinkInv, LifeInv

(* The ends a running program has as its input and its output. *)
LEMMA InputIsBefore ==
  ASSUME Inv, LinkInv, NEW k \in Slots, phase[k] = "running", Input(k).to = "read"
  PROVE  /\ k > 1 /\ k - 1 \in Slots /\ Input(k).pipe = k - 1
         /\ k - 1 \in 1..Length /\ k \in 1..Length /\ phase[k - 1] # "unborn"
<1>1. /\ fd[k][STDIN] \in Own(k) /\ fd[k][STDIN] \in Files /\ k \in Nat
      /\ STDIN \in Numbers
  BY Facts DEF Inv, TypeOK, ChildInv, STDIN, Numbers
<1>2. fd[k][STDIN] = ReadEnd(k - 1)
  BY <1>1 DEF Own, Input, Closed, Terminal, ToFile, WriteEnd
<1>3. Input(k).pipe = k - 1
  BY <1>2 DEF Input, ReadEnd
<1>4. k - 1 \in Slots
  BY <1>1, <1>2 DEF Files, ReadEnd, Closed, Terminal, ToFile
<1>5. k > 1 /\ k - 1 \in 1..k
  BY <1>1, <1>4, ConstantsAssumption DEF Slots
<1>6. /\ k \in 1..Length /\ Length \in Nat
      /\ \A q \in 1..k : q \in Slots /\ phase[q] # "unborn"
  BY RunningIsStarted
<1> QED
  BY <1>1, <1>3, <1>4, <1>5, <1>6

LEMMA OutputIsBehind ==
  ASSUME Inv, LinkInv, NEW k \in Slots, phase[k] = "running", Output(k).to = "write"
  PROVE  k < Length /\ k + 1 \in Slots /\ Output(k).pipe = k /\ k \in 1..Length
<1>1. /\ fd[k][STDOUT] \in Own(k) /\ STDOUT \in Numbers /\ Connected(k)
      /\ k \in 1..MaxPrograms /\ MaxPrograms \in Nat /\ Length \in Nat /\ Length \in Slots
  BY Facts, ConstantsAssumption DEF Inv, ChildInv, STDOUT, Numbers, LinkInv, Slots
<1>2. fd[k][STDOUT] = WriteEnd(k)
  BY <1>1 DEF Own, Output, Closed, Terminal, ToFile, ReadEnd
<1> QED
  BY <1>1, <1>2 DEF Connected, Output, WriteEnd, Slots

(* An end of input is there only when the program before is over: until then   *)
(* it holds the end it writes to.                                             *)
LEMMA WriterIsOver ==
  ASSUME Inv, LinkInv, NEW k \in Slots, phase[k] # "unborn", k < Length,
         Holders(WriteEnd(k)) = {}
  PROVE  Stage(k) \in {"done", "eof", "broken"}
<1>1. CASE phase[k] \in {"forked", "running"}
  <2>1. args[k].write \in Numbers /\ fd[k][args[k].write] = WriteEnd(k)
    BY <1>1 DEF LinkInv, Connected, Free0, Numbers
  <2>2. k \in Holders(WriteEnd(k))
    BY <2>1, Facts DEF Holders
  <2> QED BY <2>2
<1>2. CASE phase[k] \notin {"forked", "running"}
  BY <1>2, Stages DEF Phases, Gone
<1> QED
  BY <1>1, <1>2

(* A pipe is broken only when the program behind is over, or will never be     *)
(* started: until it is, the shell holds the end it is going to read.          *)
LEMMA ReaderIsOver ==
  ASSUME Inv, LinkInv, NEW k \in Slots, phase[k] # "unborn", k < Length,
         k + 1 \in Slots, Holders(ReadEnd(k)) = {}
  PROVE  \/ Stage(k + 1) \in {"done", "eof", "broken"}
         \/ Stage(k + 1) = "unstarted" /\ at = "died"
<1>0. /\ k \in Nat /\ k + 1 > 1 /\ k + 1 - 1 = k /\ Length \in Nat /\ i \in 1..Length
      /\ k + 1 \in Processes /\ 0 \in Processes
  BY Facts, ConstantsAssumption DEF Slots, Processes
<1> DEFINE n == k + 1
<1>1. CASE phase[n] \in {"forked", "running"}
  <2>1. Connected(n)
    BY DEF LinkInv
  <2>2. \E m \in Numbers : fd[n][m] = ReadEnd(k)
    <3>1. CASE phase[n] = "forked"
      BY <1>0, <2>1, <3>1 DEF Connected, Free0, Numbers
    <3>2. CASE phase[n] = "running"
      BY <1>0, <2>1, <3>2 DEF Connected, STDIN, Numbers
    <3> QED BY <1>1, <3>1, <3>2
  <2>3. n \in Holders(ReadEnd(k))
    BY <1>0, <2>2 DEF Holders
  <2> QED BY <2>3
<1>2. CASE phase[n] = "unborn" /\ at # "died"
  <2>1. Started(k) /\ ~Started(n)
    BY <1>2 DEF LinkInv, LifeInv
  <2>2. \/ k = i - 1 /\ at \in {"pipe", "fork"}
        \/ k = i /\ at \in {"close_previous", "close_current"}
    BY <1>0, <1>2, <2>1 DEF Started, Inv, TypeOK
  <2>3. fd[0] = ShellTable /\ NumbersInv
    BY <1>2 DEF Inv, ShellInv
  <2>4. CASE k = i - 1 /\ at \in {"pipe", "fork"}
    <3>1. HoldsPrevious /\ previous \in Free0
      BY <1>0, <2>3, <2>4 DEF HoldsPrevious, NumbersInv
    <3>2. previous \in Numbers /\ previous > 2 /\ previous \in Int
      BY <3>1 DEF Free0, Numbers
    <3>3. fd[0][previous] = ReadEnd(k)
      BY <2>3, <2>4, <3>1, <3>2 DEF ShellTable
    <3>4. 0 \in Holders(ReadEnd(k))
      BY <1>0, <3>2, <3>3 DEF Holders
    <3> QED BY <3>4
  <2>5. CASE k = i /\ at \in {"close_previous", "close_current"}
    <3>1. HoldsCurrent /\ current.read \in Free0 /\ (HoldsPrevious => previous # current.read)
      BY <1>0, <2>3, <2>5 DEF HoldsCurrent, NumbersInv
    <3>2. current.read \in Numbers /\ current.read > 2 /\ current.read \in Int
      BY <3>1 DEF Free0, Numbers
    <3>3. fd[0][current.read] = ReadEnd(k)
      BY <2>3, <2>5, <3>1, <3>2 DEF ShellTable
    <3>4. 0 \in Holders(ReadEnd(k))
      BY <1>0, <3>2, <3>3 DEF Holders
    <3> QED BY <3>4
  <2> QED BY <2>2, <2>4, <2>5
<1>3. CASE phase[n] = "unborn" /\ at = "died"
  BY <1>3, Stages
<1>4. CASE phase[n] \in {"ended", "reaped"}
  BY <1>4, Stages DEF Gone
<1> QED
  BY <1>1, <1>2, <1>3, <1>4, Stages DEF Phases

LEMMA PromiseInit == Init => Promise!Init
<1> SUFFICES ASSUME Init PROVE Promise!Init
  OBVIOUS
<1>1. Length \in Slots /\ at \in {"pipe", "fork"}
  BY Lengths DEF Init
<1>2. [k \in Slots |-> Stage(k)] = [k \in Slots |-> "unstarted"]
  <2> SUFFICES ASSUME NEW k \in Slots PROVE Stage(k) = "unstarted"
    OBVIOUS
  <2>1. phase[k] = "unborn"
    BY DEF Init
  <2> QED BY <2>1 DEF Stage, Gone
<1> QED
  BY <1>1, <1>2 DEF Promise!Init, Init, Slots

(* How the mapped variables change. *)
LEMMA StagesStay ==
  ASSUME Inv, LinkInv, programs' = programs, buffer' = buffer, why' = why,
         \A k \in Slots : Stage(k)' = Stage(k),
         at' = at \/ (at \notin {"returned", "died"} /\ at' \notin {"returned", "died"})
  PROVE  UNCHANGED Promise!vars
  BY DEF Promise!vars, Length

LEMMA StageMoves ==
  ASSUME Inv, LinkInv, NEW k \in Slots, NEW f, Stage(k)' = f,
         \A q \in Slots \ {k} : Stage(q)' = Stage(q)
  PROVE  [q \in Slots |-> Stage(q)]' = [[q \in Slots |-> Stage(q)] EXCEPT ![k] = f]
<1> DEFINE old == [q \in Slots |-> Stage(q)]
<1>1. ASSUME NEW q \in Slots PROVE Stage(q)' = [old EXCEPT ![k] = f][q]
  BY DEF old
<1>2. [old EXCEPT ![k] = f] = [q \in Slots |-> [old EXCEPT ![k] = f][q]]
  BY DEF old
<1> QED
  BY <1>1, <1>2

LEMMA ForkPromise == ASSUME Inv, LinkInv, Fork PROVE Promise!Next
<1>1. PICK k \in Slots : k = i
  BY Facts
<1>2. /\ k \in Nat /\ Length \in Nat /\ k \in 1..Length /\ at = "fork" /\ at' = "close_previous"
      /\ Length' = Length /\ buffer' = buffer /\ why' = why
      /\ phase' = [phase EXCEPT ![k] = "forked"]
  BY <1>1, Facts DEF Fork, Length
<1>3. phase[k] = "unborn"
  BY <1>1, <1>2 DEF LinkInv, LifeInv, Started
<1>4. ASSUME k > 1 PROVE k - 1 \in Slots /\ phase[k - 1] # "unborn"
  <2>1. k - 1 \in Slots /\ k - 1 < i
    BY <1>1, <1>2, <1>4, ConstantsAssumption DEF Slots
  <2> QED BY <2>1 DEF LinkInv, LifeInv, Started
<1>5. phase'[k] = "forked" /\ \A q \in Slots \ {k} : phase'[q] = phase[q]
  BY <1>2 DEF Inv, TypeOK
<1>6. Stage(k)' = "working" /\ \A q \in Slots \ {k} : Stage(q)' = Stage(q)
  BY <1>2, <1>5 DEF Stage, Gone
<1>7. Stage(k) = "unstarted" /\ (k > 1 => Stage(k - 1) # "unstarted")
  BY <1>3, <1>4, Stages
<1>8. [q \in Slots |-> Stage(q)]' = [[q \in Slots |-> Stage(q)] EXCEPT ![k] = "working"]
  BY <1>6, StageMoves
<1>9. Promise!Start(k)
  BY <1>2, <1>4, <1>7, <1>8 DEF Promise!Start, Promise!Programs
<1> QED
  BY <1>9 DEF Promise!Next, Slots

LEMMA WaitPromise ==
  ASSUME Inv, LinkInv, Wait
  PROVE  Promise!Next \/ UNCHANGED Promise!vars
<1>1. PICK k \in Slots : k = i
  BY Facts
<1>2. /\ k \in Nat /\ Length \in Nat /\ k \in 1..Length /\ at = "wait"
      /\ Length' = Length /\ buffer' = buffer /\ why' = why /\ programs' = programs
      /\ phase[k] = "ended" /\ phase' = [phase EXCEPT ![k] = "reaped"]
      /\ k = Length => at' = "returned"
      /\ k # Length => at' = "wait"
      /\ \A q \in 1..(k - 1) : phase[q] = "reaped"
  BY <1>1, Facts DEF Wait, Length, Inv, WaitInv
<1>3. \A q \in Slots : Stage(q)' = Stage(q)
  BY <1>2 DEF Inv, TypeOK, Stage, Gone
<1>4. CASE k # Length
  BY <1>2, <1>3, <1>4, StagesStay
<1>5. CASE k = Length
  <2>1. \A q \in 1..Length : q \in Slots /\ Gone(q)
    BY <1>2, <1>5, RunningIsStarted DEF Gone
  <2>2. \A q \in 1..Length : Stage(q) \in {"done", "eof", "broken"} /\ q \in Slots
    BY <2>1, Stages
  <2>3. [q \in Slots |-> Stage(q)]' = [q \in Slots |-> Stage(q)]
    BY <1>3
  <2>4. Promise!Return
    BY <1>2, <1>5, <2>2, <2>3 DEF Promise!Return, Promise!Over, Promise!Ended, Promise!Programs
  <2> QED BY <2>4 DEF Promise!Next
<1> QED
  BY <1>4, <1>5

LEMMA DiePromise == ASSUME Inv, LinkInv, Die PROVE Promise!Next
<1>1. /\ i \in 1..Length /\ i \in Slots /\ i \in Nat /\ at \in {"pipe", "fork"} /\ at' = "died"
      /\ Length' = Length /\ phase' = phase /\ why' = why /\ buffer' = buffer
  BY Facts DEF Die, Length
<1>2. phase[i] = "unborn"
  BY <1>1 DEF LinkInv, LifeInv, Started
<1>3. Stage(i) = "unstarted"
  BY <1>1, <1>2, Stages
<1>4. [q \in Slots |-> Stage(q)]' = [q \in Slots |-> Stage(q)]
  BY <1>1 DEF Stage, Gone
<1>5. Promise!Die
  BY <1>1, <1>3, <1>4 DEF Promise!Die, Promise!Programs
<1> QED
  BY <1>5 DEF Promise!Next

(* Whatever a program ends by, the chain sees it end by that. *)
LEMMA EndPromise ==
  ASSUME Inv, LinkInv, NEW k \in Slots, NEW cause \in {"done", "eof", "broken"}, NEW c,
         phase[k] = "running", End(k, cause, c)
  PROVE  Promise!EndsBy(k, cause) /\ Length' = Length /\ buffer' = buffer /\ at' = at
<1>1. /\ Length' = Length /\ buffer' = buffer /\ at' = at
      /\ phase' = [phase EXCEPT ![k] = "ended"] /\ why' = [why EXCEPT ![k] = cause]
  BY DEF End, shellVars, Length
<1>2. Stage(k)' = cause /\ \A q \in Slots \ {k} : Stage(q)' = Stage(q)
  BY <1>1 DEF Inv, TypeOK, Stage, Gone
<1>3. Stage(k) = "working"
  BY Stages
<1>4. [q \in Slots |-> Stage(q)]' = [[q \in Slots |-> Stage(q)] EXCEPT ![k] = cause]
  BY <1>2, StageMoves
<1> QED
  BY <1>1, <1>3, <1>4 DEF Promise!EndsBy

LEMMA ChildPromise ==
  ASSUME Inv, LinkInv, NEW k \in Slots, Child(k)
  PROVE  Promise!Next \/ UNCHANGED Promise!vars
<1>0. /\ k \in 1..MaxPrograms /\ k \in Nat /\ Length \in Nat /\ Length \in Slots
      /\ MaxPrograms \in Nat
  BY Facts, ConstantsAssumption DEF Slots
<1>1. CASE Exec(k)
  <2>1. /\ phase[k] = "forked" /\ phase' = [phase EXCEPT ![k] = "running"]
        /\ programs' = programs /\ buffer' = buffer /\ why' = why /\ at' = at
    BY <1>1 DEF Exec, shellVars
  <2>2. \A q \in Slots : Stage(q)' = Stage(q)
    BY <2>1 DEF Inv, TypeOK, Stage, Gone
  <2> QED BY <2>1, <2>2, StagesStay
<1>2. CASE Write(k)
  <2>1. /\ phase[k] = "running" /\ Length' = Length /\ at' = at
        /\ programs' = programs /\ phase' = phase /\ why' = why
    BY <1>2 DEF Write, Writing, shellVars, Length
  <2>2. \A q \in Slots : Stage(q)' = Stage(q)
    BY <2>1 DEF Stage, Gone
  <2>3. CASE buffer' = buffer
    BY <2>1, <2>2, <2>3, StagesStay
  <2>4. CASE /\ Output(k).to = "write" /\ buffer[Output(k).pipe] < PipeSize
             /\ buffer' = [buffer EXCEPT ![Output(k).pipe] = @ + 1]
    <3>1. k < Length /\ Output(k).pipe = k
      BY <2>1, <2>4, OutputIsBehind
    <3>2. Stage(k) = "working"
      BY <2>1, Stages
    <3>3. [q \in Slots |-> Stage(q)]' = [q \in Slots |-> Stage(q)]
      BY <2>2
    <3>4. Promise!Put(k)
      BY <2>1, <2>4, <3>1, <3>2, <3>3 DEF Promise!Put
    <3> QED BY <1>0, <3>4 DEF Promise!Next
  <2> QED BY <1>2, <2>3, <2>4 DEF Write
<1>3. CASE Read(k)
  <2>1. /\ phase[k] = "running" /\ Length' = Length /\ at' = at
        /\ programs' = programs /\ phase' = phase /\ why' = why
        /\ Input(k).to = "read" /\ buffer[Input(k).pipe] > 0
        /\ buffer' = [buffer EXCEPT ![Input(k).pipe] = @ - 1]
    BY <1>3 DEF Read, Reading, shellVars, Length
  <2>2. k > 1 /\ k \in 1..Length /\ Input(k).pipe = k - 1
    BY <2>1, InputIsBefore
  <2>3. Stage(k) = "working"
    BY <2>1, Stages
  <2>4. [q \in Slots |-> Stage(q)]' = [q \in Slots |-> Stage(q)]
    BY <2>1 DEF Stage, Gone
  <2>5. Promise!Take(k)
    BY <2>1, <2>2, <2>3, <2>4 DEF Promise!Take, Promise!Programs
  <2> QED BY <1>0, <2>5 DEF Promise!Next
<1>4. CASE WriteInVain(k)
  <2>1. /\ phase[k] = "running" /\ Output(k).to = "write" /\ Holders(ReadEnd(Output(k).pipe)) = {}
        /\ End(k, "broken", 0)
    BY <1>4 DEF WriteInVain, Writing
  <2>2. k < Length /\ k + 1 \in Slots /\ Output(k).pipe = k
    BY <2>1, OutputIsBehind
  <2>3. \/ Stage(k + 1) \in {"done", "eof", "broken"}
        \/ Stage(k + 1) = "unstarted" /\ at = "died"
    BY <2>1, <2>2, ReaderIsOver
  <2>4. Promise!EndsBy(k, "broken") /\ Length' = Length /\ buffer' = buffer /\ at' = at
    BY <2>1, EndPromise
  <2>5. Promise!WriteInVain(k)
    BY <1>0, <2>2, <2>3, <2>4
    DEF Promise!WriteInVain, Promise!Over, Promise!Ended, Promise!Programs
  <2> QED BY <1>0, <2>5 DEF Promise!Next
<1>5. CASE EndOfInput(k)
  <2>1. /\ phase[k] = "running" /\ Input(k).to = "read" /\ buffer[Input(k).pipe] = 0
        /\ Holders(WriteEnd(Input(k).pipe)) = {} /\ End(k, "eof", 0)
    BY <1>5 DEF EndOfInput, Reading
  <2>2. /\ k > 1 /\ k - 1 \in Slots /\ Input(k).pipe = k - 1 /\ k \in 1..Length
        /\ k - 1 \in 1..Length /\ phase[k - 1] # "unborn"
    BY <2>1, InputIsBefore
  <2>3. Stage(k - 1) \in {"done", "eof", "broken"}
    BY <1>0, <2>1, <2>2, WriterIsOver
  <2>4. Promise!EndsBy(k, "eof") /\ Length' = Length /\ buffer' = buffer /\ at' = at
    BY <2>1, EndPromise
  <2>5. Promise!EndOfInput(k)
    BY <2>1, <2>2, <2>3, <2>4
    DEF Promise!EndOfInput, Promise!Over, Promise!Ended, Promise!Programs
  <2> QED BY <1>0, <2>5 DEF Promise!Next
<1>6. CASE Finish(k)
  <2>1. PICK c \in {0, 1} : phase[k] = "running" /\ End(k, "done", c)
    BY <1>6 DEF Finish, Reading, Writing
  <2>2. k \in 1..Length
    BY <2>1, RunningIsStarted
  <2>3. Promise!EndsBy(k, "done") /\ Length' = Length /\ buffer' = buffer /\ at' = at
    BY <2>1, EndPromise
  <2>4. Promise!Finish(k)
    BY <2>2, <2>3 DEF Promise!Finish, Promise!Programs
  <2> QED BY <1>0, <2>4 DEF Promise!Next
<1> QED
  BY <1>1, <1>2, <1>3, <1>4, <1>5, <1>6 DEF Child

LEMMA PromiseNext ==
  ASSUME Inv, LinkInv, [Next]_vars
  PROVE  [Promise!Next]_(Promise!vars)
<1>1. CASE MakePipe \/ ClosePrevious \/ CloseCurrent
  <2>1. /\ programs' = programs /\ buffer' = buffer /\ why' = why /\ phase' = phase
        /\ at \notin {"returned", "died"} /\ at' \notin {"returned", "died"}
    BY <1>1 DEF MakePipe, ClosePrevious, CloseCurrent
  <2>2. \A q \in Slots : Stage(q)' = Stage(q)
    BY <2>1 DEF Stage, Gone
  <2> QED BY <2>1, <2>2, StagesStay
<1>2. CASE UNCHANGED vars
  <2>1. /\ programs' = programs /\ buffer' = buffer /\ why' = why /\ phase' = phase /\ at' = at
    BY <1>2 DEF vars, shellVars
  <2>2. \A q \in Slots : Stage(q)' = Stage(q)
    BY <2>1 DEF Stage, Gone
  <2> QED BY <2>1, <2>2, StagesStay
<1> QED
  BY <1>1, <1>2, ForkPromise, WaitPromise, DiePromise, ChildPromise DEF Next, ShellStep

(* For pipelines of any length and any programs: what pipe_list_exec           *)
(* (pipe_list.c:86-133) makes out of numbers and ends is the chain of          *)
(* programs it is meant to be.  Each program reads what the one before it      *)
(* wrote and nothing else, sees the end of its input only when that one is     *)
(* over and everything is read, is stopped for writing in vain only when the   *)
(* one behind it cannot read, and the call returns when all are over.          *)
THEOREM PipelineIsAChain == Spec => ImplementsProgramChain
<1>1. Init => Promise!Init
  BY PromiseInit
<1>2. Inv /\ LinkInv /\ [Next]_vars => [Promise!Next]_(Promise!vars)
  BY PromiseNext
<1> QED
  BY <1>1, <1>2, InitInv, NextInv, InitLinks, NextLinks, PTL
  DEF Spec, ImplementsProgramChain, Promise!Spec

-------------------------------------------------------------------------------
(* The chains of && and ||. *)
(* Only the last entry of a chain may have no operator behind it. *)
Chained(p) == \A n \in 1..(Len(chain[p]) - 1) : chain[p][n] # "null"

(* At an entry: as many entries are done as were passed, the last of them    *)
(* with the code at hand, and the mode tells what to do with this one.       *)
AtEntry(p) ==
  /\ pos[p] \in 1..Len(chain[p])
  /\ pos[p] = Len(done[p]) + 1
  /\ pos[p] > 1 => done[p][Len(done[p])].code = lastCode[p]
  /\ ~leaves[p]
  /\ ModeTells(p)

Steps == [ran : BOOLEAN, code : Codes \cup {NoCode}]

(* Behind the loop: something is done, the last of it with the code at hand. *)
AtEnd(p) == done[p] # <<>> /\ done[p][Len(done[p])].code = lastCode[p]

ProcessInv(p) ==
  /\ Chained(p)
  /\ stands[p] = "entry" => AtEntry(p)
  /\ stands[p] = "out" => AtEnd(p)

LineInv == ShellTypeOK /\ \A p \in Shells : ProcessInv(p)


(* The bits of the mode are only ever those of the four modes. *)
LEMMA ModeStays ==
  ASSUME NEW m \in Modes, NEW o, NEW c
  PROVE  /\ ModeByCode(m, c) \in Modes
         /\ ModeAfter(ModeByCode(m, c), o) \in Modes
  BY DEF Modes, ModeByCode, ModeAfter, ModeAfterAnd, ModeAfterOr,
         RunAndChain, AndChainFailed, CaughtOrOnly, ExecAfterOr

(* What a list of entries becomes by one more. *)
LEMMA OneMoreStep ==
  ASSUME NEW s \in Seq(Steps), NEW ran \in BOOLEAN, NEW c \in Codes \cup {NoCode}
  PROVE  /\ Append(s, [ran |-> ran, code |-> c]) \in Seq(Steps)
         /\ Append(s, [ran |-> ran, code |-> c]) # <<>>
         /\ Len(Append(s, [ran |-> ran, code |-> c])) = Len(s) + 1
         /\ Append(s, [ran |-> ran, code |-> c])[Len(s) + 1].code = c
<1> DEFINE e == [ran |-> ran, code |-> c]
<1>1. e \in Steps /\ e.code = c
  BY DEF Steps
<1> HIDE DEF e
<1>2. /\ Append(s, e) \in Seq(Steps) /\ Append(s, e) # <<>>
      /\ Len(Append(s, e)) = Len(s) + 1 /\ Append(s, e)[Len(s) + 1] = e
  BY <1>1, AppendProperties
<1>3. Append(s, e)[Len(s) + 1].code = c
  BY <1>1, <1>2
<1> QED
  BY <1>2, <1>3 DEF e

(* Before the first line nobody is at an entry. *)
LEMMA LineInitInv == ShellInit => LineInv
<1> SUFFICES ASSUME ShellInit PROVE LineInv
  OBVIOUS
<1>1. ShellTypeOK
  BY LinesAssumption DEF ShellInit, ShellTypeOK, Shells, Modes, RunAndChain, NoCode
<1>2. ASSUME NEW p \in Shells PROVE ProcessInv(p)
  BY <1>2 DEF ShellInit, ProcessInv, Chained
<1> QED
  BY <1>1, <1>2 DEF LineInv

(* A process that did not move keeps what the invariant says of it. *)
LEMMA Untouched ==
  ASSUME NEW p \in Shells, ProcessInv(p),
         chain'[p] = chain[p], pos'[p] = pos[p], mode'[p] = mode[p], lastCode'[p] = lastCode[p],
         leaves'[p] = leaves[p], stands'[p] = stands[p], done'[p] = done[p]
  PROVE  ProcessInv(p)'
  BY DEF ProcessInv, Chained, AtEntry, AtEnd, ModeTells

(* A line is read: its chain is one of Lines, and its first entry is next. *)
LEMMA ReadLineInv ==
  ASSUME LineInv, NEW line \in Lines, ReadLine(line)
  PROVE  LineInv'
<1> DEFINE q == Walker(line)
<1>1. q \in Shells /\ lines' \in 0..MaxLines
  BY LinesAssumption DEF LineInv, ShellTypeOK, ReadLine, Walker, Shells
<1>2. /\ line.chain \in Seq(Operators)
      /\ line.chain # <<>>
      /\ \A n \in 1..(Len(line.chain) - 1) : line.chain[n] # "null"
  BY LinesAssumption
<1>3. ShellTypeOK'
  <2>1. chain' \in [Shells -> Seq(Operators)] /\ pos' \in [Shells -> Nat \ {0}]
    BY <1>1, <1>2 DEF LineInv, ShellTypeOK, ReadLine
  <2>2. mode' \in [Shells -> Modes]
    BY <1>1 DEF LineInv, ShellTypeOK, ReadLine, Modes
  <2>3. /\ lastCode' \in [Shells -> Codes \cup {0, NoCode}]
        /\ leaves' \in [Shells -> BOOLEAN]
        /\ stands' \in [Shells -> {"idle", "entry", "out", "over"}]
        /\ exitCode' \in Codes \cup {0, EXIT_FAILURE}
    BY <1>1 DEF LineInv, ShellTypeOK, ReadLine
  <2>4. done' \in [Shells -> Seq(Steps)]
    <3>1. <<>> \in Seq(Steps)
      OBVIOUS
    <3> QED
      BY <1>1, <3>1 DEF LineInv, ShellTypeOK, ReadLine, Steps
  <2> QED
    BY <1>1, <2>1, <2>2, <2>3, <2>4 DEF ShellTypeOK, Steps
<1>4. ASSUME NEW p \in Shells PROVE ProcessInv(p)'
  <2>1. CASE p = q
    <3>1. /\ chain'[p] = line.chain /\ pos'[p] = 1 /\ mode'[p] = RunAndChain
          /\ leaves'[p] = FALSE /\ stands'[p] = "entry" /\ done'[p] = <<>>
      BY <1>1, <2>1 DEF LineInv, ShellTypeOK, ReadLine
    <3>2. Len(line.chain) \in Nat \ {0}
      BY <1>2
    <3> QED
      BY <3>1, <3>2, <1>2 DEF ProcessInv, Chained, AtEntry, ModeTells
  <2>2. CASE p # q
    BY <2>2, <1>4, <1>1, Untouched DEF LineInv, ShellTypeOK, ReadLine
  <2> QED
    BY <2>1, <2>2
<1> QED
  BY <1>3, <1>4 DEF LineInv

(* What an entry leaves behind, run or skipped: m is the mode and c the code  *)
(* the loop goes on with.  They must belong together: after a run the mode is *)
(* RunAndChain, and a skipped entry keeps what the rule said of it.           *)
LEMMA GoOnInv ==
  ASSUME LineInv, NEW p \in Shells, stands[p] = "entry",
         NEW m \in Modes, NEW c \in Codes \cup {0, NoCode}, NEW ran \in BOOLEAN,
         GoOn(p, m, c), lastCode'[p] = c, c \in Codes \cup {NoCode},
         done' = [done EXCEPT ![p] = Append(@, [ran |-> ran, code |-> c])],
         UNCHANGED <<chain, leaves>>,
         m = RunAndChain \/ (m = AndChainFailed /\ c # 0) \/ (m = CaughtOrOnly /\ c = 0)
  PROVE  ProcessInv(p)'
<1> USE DEF LineInv, ShellTypeOK
<1>1. AtEntry(p) /\ Chained(p)
  BY DEF ProcessInv
<1>2. done'[p] = Append(done[p], [ran |-> ran, code |-> c])
  OBVIOUS
<1>3. /\ Len(done'[p]) = Len(done[p]) + 1
      /\ done'[p] # <<>>
      /\ done'[p][Len(done'[p])].code = c
  <2>1. done[p] \in Seq(Steps)
    BY DEF Steps
  <2> HIDE DEF LineInv, ShellTypeOK
  <2> QED
    BY <1>2, <2>1, OneMoreStep
<1>4. Chained(p)'
  BY <1>1 DEF Chained
<1>5. CASE stands'[p] = "out"
  BY <1>5, <1>3, <1>4 DEF ProcessInv, AtEnd
<1>6. CASE stands'[p] # "out"
  <2>1. /\ stands'[p] = "entry"
        /\ pos'[p] = pos[p] + 1
        /\ chain[p][pos[p]] # "null" /\ pos[p] # Len(chain[p])
        /\ mode'[p] = ModeAfter(ModeByCode(m, c), chain[p][pos[p]])
    BY <1>6 DEF GoOn
  <2>2. chain[p][pos[p]] \in {"and", "or"}
    BY <2>1, <1>1 DEF AtEntry, Operators
  <2>3. ModeTells(p)'
    <3>1. c \in Int
      BY LinesAssumption DEF NoCode
    <3>2. pos'[p] # 1 /\ pos'[p] - 1 = pos[p] /\ chain' = chain
      BY <2>1, <1>1 DEF AtEntry
    <3> QED
      BY <2>1, <2>2, <3>1, <3>2
      DEF ModeTells, ModeAfter, ModeAfterAnd, ModeAfterOr, ModeByCode,
          RunAndChain, AndChainFailed, CaughtOrOnly, ExecAfterOr
  <2> QED
    BY <1>1, <1>3, <1>4, <2>1, <2>3 DEF ProcessInv, AtEntry
<1> QED
  BY <1>5, <1>6

(* The mode of a skipped entry and the code at hand belong together. *)
LEMMA SkippedMode ==
  ASSUME LineInv, NEW p \in Shells, stands[p] = "entry", ~Runs(mode[p])
  PROVE  /\ pos[p] > 1
         /\ (mode[p] = AndChainFailed /\ lastCode[p] # 0) \/ (mode[p] = CaughtOrOnly /\ lastCode[p] = 0)
<1>1. AtEntry(p) /\ mode[p] \in Modes
  BY DEF LineInv, ProcessInv, ShellTypeOK
<1>2. pos[p] > 1
  BY <1>1 DEF AtEntry, ModeTells, Runs
<1>3. chain[p][pos[p] - 1] \in {"and", "or"}
  BY <1>1, <1>2 DEF LineInv, ShellTypeOK, ProcessInv, Chained, AtEntry, Operators
<1> QED
  BY <1>1, <1>2, <1>3 DEF AtEntry, ModeTells, Runs, Modes,
              RunAndChain, AndChainFailed, CaughtOrOnly, ExecAfterOr

(* An entry that is done keeps the types. *)
LEMMA GoOnTypeOK ==
  ASSUME ShellTypeOK, NEW p \in Shells, stands[p] = "entry",
         NEW m \in Modes, NEW c \in Codes \cup {NoCode}, NEW ran \in BOOLEAN,
         GoOn(p, m, c), lastCode' \in [Shells -> Codes \cup {0, NoCode}],
         done' = [done EXCEPT ![p] = Append(@, [ran |-> ran, code |-> c])],
         UNCHANGED <<lines, chain, leaves, exitCode>>
  PROVE  ShellTypeOK'
<1>1. ModeAfter(ModeByCode(m, c), chain[p][pos[p]]) \in Modes
  BY ModeStays
<1>2. mode' \in [Shells -> Modes]
  BY <1>1 DEF GoOn, ShellTypeOK
<1>3. /\ stands' \in [Shells -> {"idle", "entry", "out", "over"}]
      /\ pos' \in [Shells -> Nat \ {0}]
  BY DEF GoOn, ShellTypeOK
<1>4. done' \in [Shells -> Seq([ran : BOOLEAN, code : Codes \cup {NoCode}])]
  BY OneMoreStep DEF ShellTypeOK, Steps
<1> QED
  BY <1>2, <1>3, <1>4 DEF ShellTypeOK

(* An entry that runs. *)
LEMMA RunEntryInv ==
  ASSUME LineInv, NEW p \in Shells, NEW c \in Codes \cup {NoCode}, RunEntry(p, c)
  PROVE  LineInv'
<1>1. RunAndChain \in Modes
  BY DEF Modes
<1>2. lastCode' \in [Shells -> Codes \cup {0, NoCode}] /\ lastCode'[p] = c
  BY DEF RunEntry, LineInv, ShellTypeOK
<1>3. ShellTypeOK'
  BY <1>1, <1>2, GoOnTypeOK DEF RunEntry, LineInv
<1>4. ProcessInv(p)'
  BY <1>1, <1>2, GoOnInv DEF RunEntry
<1>5. ASSUME NEW q \in Shells, q # p PROVE ProcessInv(q)'
  BY <1>5, Untouched DEF RunEntry, GoOn, LineInv, ShellTypeOK
<1> QED
  BY <1>3, <1>4, <1>5 DEF LineInv

(* An `exit' that runs. *)
LEMMA RunExitInv ==
  ASSUME LineInv, NEW p \in Shells, NEW c \in Codes \cup {NoCode}, RunExit(p, c)
  PROVE  LineInv'
<1> USE DEF RunExit, LineInv
<1>1. /\ done[p] \in Seq(Steps)
      /\ done'[p] = Append(done[p], [ran |-> TRUE, code |-> c])
      /\ TRUE \in BOOLEAN
  BY DEF ShellTypeOK, Steps
<1>2. done'[p] \in Seq(Steps) /\ done'[p] # <<>> /\ done'[p][Len(done'[p])].code = c
  <2> DEFINE t == Append(done[p], [ran |-> TRUE, code |-> c])
  <2>1. t \in Seq(Steps) /\ t # <<>> /\ Len(t) = Len(done[p]) + 1 /\ t[Len(done[p]) + 1].code = c
    BY <1>1, OneMoreStep
  <2> HIDE DEF t, RunExit, LineInv
  <2>2. done'[p] = t
    BY <1>1 DEF t
  <2> QED
    BY <2>1, <2>2
<1>3. ShellTypeOK'
  <2>1. done' \in [Shells -> Seq(Steps)]
    BY <1>2 DEF ShellTypeOK, Steps
  <2> QED
    BY <2>1 DEF ShellTypeOK, Steps
<1>4. ProcessInv(p)'
  BY <1>2 DEF ShellTypeOK, ProcessInv, Chained, AtEnd
<1>5. ASSUME NEW q \in Shells, q # p PROVE ProcessInv(q)'
  BY <1>5, Untouched DEF ShellTypeOK
<1> QED
  BY <1>3, <1>4, <1>5

(* An entry that is skipped. *)
LEMMA SkipEntryInv ==
  ASSUME LineInv, NEW p \in Shells, SkipEntry(p)
  PROVE  LineInv'
<1>1. /\ stands[p] = "entry" /\ ~Runs(mode[p]) /\ mode[p] \in Modes
      /\ lastCode' = lastCode /\ lastCode \in [Shells -> Codes \cup {0, NoCode}]
  BY DEF SkipEntry, LineInv, ShellTypeOK
<1>2. lastCode[p] \in Codes \cup {NoCode}
  <2>1. AtEntry(p) /\ pos[p] > 1
    BY <1>1, SkippedMode DEF LineInv, ProcessInv
  <2>2. done[p] \in Seq(Steps)
    BY DEF LineInv, ShellTypeOK, Steps
  <2>4. Len(done[p]) \in 1..Len(done[p])
    BY <2>1, <2>2 DEF AtEntry
  <2>3. done[p][Len(done[p])] \in Steps
    BY <2>2, <2>4, ElementOfSeq
  <2> QED
    BY <2>1, <2>3 DEF AtEntry, Steps
<1>3. ShellTypeOK'
  BY <1>1, <1>2, GoOnTypeOK DEF SkipEntry, LineInv
<1>4. ProcessInv(p)'
  BY <1>1, <1>2, SkippedMode, GoOnInv DEF SkipEntry
<1>5. ASSUME NEW q \in Shells, q # p PROVE ProcessInv(q)'
  BY <1>5, Untouched DEF SkipEntry, GoOn, LineInv, ShellTypeOK
<1> QED
  BY <1>3, <1>4, <1>5 DEF LineInv

(* A chain that is over, a process that dies, and the end of the input. *)
LEMMA LeavingInv ==
  ASSUME LineInv, (\E p \in Shells : Return(p) \/ Fail(p)) \/ EndOfFile
  PROVE  LineInv'
<1>1. ShellTypeOK'
  <2>1. \A p \in Shells : lastCode[p] \in Codes \cup {0, NoCode}
    BY DEF LineInv, ShellTypeOK
  <2> QED
    BY <2>1, ZenonT(30) DEF LineInv, ShellTypeOK, Return, Fail, IsCode, EndOfFile
<1>2. ASSUME NEW q \in Shells PROVE ProcessInv(q)'
  <2>1. /\ UNCHANGED <<chain, pos, mode, lastCode, leaves, done>>
        /\ stands'[q] = stands[q] \/ stands'[q] \in {"idle", "over"}
    <3>1. ASSUME NEW p \in Shells, Return(p) \/ Fail(p)
          PROVE  /\ UNCHANGED <<chain, pos, mode, lastCode, leaves, done>>
                 /\ stands'[q] = stands[q] \/ stands'[q] \in {"idle", "over"}
      BY <3>1 DEF Return, Fail, LineInv, ShellTypeOK
    <3>2. CASE EndOfFile
      BY <3>2 DEF EndOfFile, LineInv, ShellTypeOK
    <3> QED BY <3>1, <3>2
  <2>2. ProcessInv(q)
    BY DEF LineInv
  <2>3. CASE stands'[q] = stands[q]
    BY <2>1, <2>2, <2>3, Untouched
  <2>4. CASE stands'[q] \in {"idle", "over"}
    BY <2>1, <2>2, <2>4 DEF ProcessInv, Chained
  <2> QED BY <2>1, <2>3, <2>4
<1> QED
  BY <1>1, <1>2 DEF LineInv

(* Every step keeps the invariant. *)
LEMMA LineNextInv == LineInv /\ [ShellNext]_lineVars => LineInv'
<1> SUFFICES ASSUME LineInv, [ShellNext]_lineVars PROVE LineInv'
  OBVIOUS
<1>1. CASE UNCHANGED lineVars
  BY <1>1 DEF lineVars, LineInv, ShellTypeOK, ProcessInv, Chained, AtEntry, AtEnd, ModeTells
<1> QED
  BY <1>1, ReadLineInv, RunEntryInv, RunExitInv, SkipEntryInv, LeavingInv DEF ShellNext, Walk

(* The invariant holds in every state. *)
THEOREM ShellInvariant == ShellSpec => []LineInv
  BY LineInitInv, LineNextInv, PTL DEF ShellSpec

(* The mode is always one of the four of command.h, whatever was or'ed in, and
   the rest is well-typed. *)
THEOREM ShellTypes == ShellSpec => []ShellTypeOK
<1>1. LineInv => ShellTypeOK
  BY DEF LineInv
<1> QED
  BY <1>1, ShellInvariant, PTL

(* command_exec comes to every entry with the mode the operator before it and
   the last code ask for. *)
THEOREM ModesAreRight == ShellSpec => []ModeTellsOperatorAndCode
<1>1. LineInv => ModeTellsOperatorAndCode
  BY DEF LineInv, ProcessInv, AtEntry, ModeTellsOperatorAndCode
<1> QED
  BY <1>1, ShellInvariant, PTL

-----------------------------------------------------------------------------
(* Every step of the shell is one of ShellRule. *)

Lives == [p \in Shells |-> Life(p)]

(* Where a step of one process takes it, and nobody else. *)
LEMMA LifeMoves ==
  ASSUME NEW p \in Shells, NEW x, Life(p)' = x,
         \A q \in Shells \ {p} : stands'[q] = stands[q] /\ leaves'[q] = leaves[q]
  PROVE  Lives' = [Lives EXCEPT ![p] = x]
<1>1. \A q \in Shells \ {p} : Life(q)' = Life(q)
  BY DEF Life
<1> QED
  BY <1>1 DEF Lives

(* The mode lets an entry run exactly when the rule selects it.  For a cd that *)
(* failed the rule counts 1 where the shell has -1; neither is 0.              *)
LEMMA RunsIsSelected ==
  ASSUME LineInv, NEW p \in Shells, stands[p] = "entry"
  PROVE  /\ Runs(mode[p]) <=> Rule!Selected(p)
         /\ pos[p] > 1 => done[p][Len(done[p])].code = lastCode[p]
<1>1. AtEntry(p) /\ mode[p] \in Modes /\ Len(done[p]) \in Nat /\ Len(done[p]) = pos[p] - 1
  BY DEF LineInv, ProcessInv, ShellTypeOK, AtEntry
<1>2. pos[p] > 1 => done[p][Len(done[p])].code = lastCode[p]
  BY <1>1 DEF AtEntry
<1>0. pos[p] > 1 => (Rule!LastCode(p) = 0 <=> lastCode[p] = 0)
  BY <1>2 DEF Rule!LastCode, Rule!Code, Rule!NoCode
<1>3. CASE pos[p] = 1
  BY <1>1, <1>3 DEF AtEntry, ModeTells, Runs, Rule!Selected
<1>4. CASE pos[p] # 1
  <2>1. pos[p] > 1 /\ chain[p][pos[p] - 1] \in {"and", "or"}
    BY <1>1, <1>4 DEF LineInv, ShellTypeOK, ProcessInv, Chained, AtEntry, Operators
  <2> QED
    BY <2>1, <1>1, <1>0 DEF AtEntry, ModeTells, Runs, Rule!Selected,
       RunAndChain, AndChainFailed, CaughtOrOnly, ExecAfterOr
<1> QED
  BY <1>2, <1>3, <1>4

(* A chain goes on until its last entry is done. *)
LEMMA LifeGoesOn ==
  ASSUME LineInv, NEW p \in Shells, stands[p] = "entry",
         NEW m, NEW c, GoOn(p, m, c), leaves' = leaves
  PROVE  /\ Lives[p] = "working"
         /\ Lives' = [Lives EXCEPT ![p] =
                        IF Len(done[p]) + 1 = Len(chain[p]) THEN "finished" ELSE "working"]
<1>1. AtEntry(p) /\ Chained(p)
  BY DEF LineInv, ProcessInv
<1>2. (chain[p][pos[p]] = "null" \/ pos[p] = Len(chain[p])) <=> Len(done[p]) + 1 = Len(chain[p])
  BY <1>1 DEF AtEntry, Chained, LineInv, ShellTypeOK
<1>3. Life(p)' = IF Len(done[p]) + 1 = Len(chain[p]) THEN "finished" ELSE "working"
  BY <1>1, <1>2 DEF GoOn, Life, AtEntry, LineInv, ShellTypeOK
<1>4. \A q \in Shells \ {p} : stands'[q] = stands[q] /\ leaves'[q] = leaves[q]
  BY DEF GoOn, LineInv, ShellTypeOK
<1>5. Lives[p] = "working"
  BY DEF Lives, Life
<1> HIDE DEF LineInv, GoOn
<1> QED
  BY <1>3, <1>4, <1>5, LifeMoves

(* The shell acts as ShellRule: it runs the entries the rule selects, no other,
   leaves and returns what the rule says (main, evaluate, command_exec), save
   for the status of a line that ends without a code and of one with an &. *)
THEOREM ShellFollowsTheRule == ShellSpec => ImplementsShellRule
<1>1. ShellInit => Rule!Init
  BY DEF ShellInit, Rule!Init, Rule!Processes, Shells, Life
<1>2. LineInv /\ [ShellNext]_lineVars => [Rule!Next \/ LosesCode \/ KeepsStatus]_lineVars
  <2> SUFFICES ASSUME LineInv, [ShellNext]_lineVars
               PROVE  Rule!Next \/ LosesCode \/ KeepsStatus \/ UNCHANGED lineVars
    OBVIOUS
  <2> USE DEF Rule!Processes, Rule!NoCode
  <2>1. ASSUME NEW line \in Lines, ReadLine(line)
        PROVE  Rule!ReadLine(line) \/ KeepsStatus
    <3>0. Walker(line) \in Shells
      BY <2>1, LinesAssumption DEF ReadLine, Walker, Shells, LineInv, ShellTypeOK
    <3> PICK w \in Shells : w = Walker(line)
      BY <3>0
    <3>1. /\ stands[0] = "idle" /\ 0 \in Shells
          /\ stands' = [stands EXCEPT ![w] = "entry"]
          /\ leaves' = [leaves EXCEPT ![w] = FALSE]
      BY <2>1, LinesAssumption DEF ReadLine, Shells
    <3>2. Life(w)' = "working"
      BY <3>1 DEF Life, LineInv, ShellTypeOK
    <3>3. \A q \in Shells \ {w} : stands'[q] = stands[q] /\ leaves'[q] = leaves[q]
      BY <3>1 DEF LineInv, ShellTypeOK
    <3>4. Lives' = [Lives EXCEPT ![w] = "working"]
      BY <3>2, <3>3, LifeMoves
    <3>5. Lives[0] = "idle"
      BY <3>1 DEF Lives, Life
    <3>6. CASE line.background /\ exitCode # 0
      BY <2>1, <3>6 DEF KeepsStatus
    <3>7. CASE ~(line.background /\ exitCode # 0)
      <4>1. Rule!ReadLine(line)
        BY <2>1, <3>4, <3>5, <3>7 DEF ReadLine, Walker, Rule!ReadLine, Lives
      <4> QED BY <4>1
    <3> QED
      BY <3>6, <3>7
  <2>2. ASSUME NEW p \in Shells, NEW c \in Codes \cup {NoCode}, RunEntry(p, c)
        PROVE  Rule!RunThere(p, c, FALSE)
    <3>1. /\ Lives[p] = "working"
          /\ Lives' = [Lives EXCEPT ![p] =
                        IF Len(done[p]) + 1 = Len(chain[p]) THEN "finished" ELSE "working"]
      BY <2>2, LifeGoesOn DEF RunEntry
    <3>2. Rule!Selected(p)
      BY <2>2, RunsIsSelected DEF RunEntry
    <3> QED
      BY <2>2, <3>1, <3>2 DEF RunEntry, Rule!RunThere, Lives
  <2>3. ASSUME NEW p \in Shells, NEW c \in Codes \cup {NoCode}, RunExit(p, c)
        PROVE  Rule!RunThere(p, c, TRUE)
    <3>1. Life(p)' = "leaving" /\ Lives[p] = "working"
      BY <2>3 DEF RunExit, Life, Lives, LineInv, ShellTypeOK
    <3>2. \A q \in Shells \ {p} : stands'[q] = stands[q] /\ leaves'[q] = leaves[q]
      BY <2>3 DEF RunExit, LineInv, ShellTypeOK
    <3>3. Lives' = [Lives EXCEPT ![p] = "leaving"]
      BY <3>1, <3>2, LifeMoves
    <3>4. Rule!Selected(p)
      BY <2>3, RunsIsSelected DEF RunExit
    <3> QED
      BY <2>3, <3>1, <3>3, <3>4 DEF RunExit, Rule!RunThere, Lives
  <2>4. ASSUME NEW p \in Shells, SkipEntry(p)
        PROVE  Rule!Skip(p)
    <3>1. /\ Lives[p] = "working"
          /\ Lives' = [Lives EXCEPT ![p] =
                        IF Len(done[p]) + 1 = Len(chain[p]) THEN "finished" ELSE "working"]
      BY <2>4, LifeGoesOn DEF SkipEntry
    <3>2. ~Rule!Selected(p) /\ done[p][Len(done[p])].code = lastCode[p]
      BY <2>4, RunsIsSelected, SkippedMode DEF SkipEntry
    <3> QED
      BY <2>4, <3>1, <3>2 DEF SkipEntry, Rule!Skip, Lives
  <2>5. ASSUME NEW p \in Shells, Return(p)
        PROVE  Rule!EndLine(p) \/ LosesCode
    <3>1. Lives[p] \in {"finished", "leaving"} /\ (Lives[p] = "finished" <=> ~leaves[p])
      BY <2>5 DEF Return, Lives, Life
    <3>2. Life(p)' = IF p = 0 /\ Lives[p] = "finished" THEN "idle" ELSE "over"
      BY <2>5, <3>1 DEF Return, Life, LineInv, ShellTypeOK
    <3>3. \A q \in Shells \ {p} : stands'[q] = stands[q] /\ leaves'[q] = leaves[q]
      BY <2>5 DEF Return, LineInv, ShellTypeOK
    <3>4. Lives' = [Lives EXCEPT ![p] = IF p = 0 /\ Lives[p] = "finished" THEN "idle" ELSE "over"]
      BY <3>2, <3>3, LifeMoves
    <3>5. /\ done[p][Len(done[p])].code = lastCode[p]
          /\ Len(done[p]) \in Nat /\ Len(done[p]) >= 1
      BY <2>5 DEF Return, LineInv, ProcessInv, AtEnd, ShellTypeOK
    <3>6. CASE p = 0 /\ lastCode[p] = NoCode /\ (~leaves[p] \/ Len(done[p]) > 1)
      BY <2>5, <3>6 DEF LosesCode, Return, IsCode
    <3>7. CASE ~(p = 0 /\ lastCode[p] = NoCode /\ (~leaves[p] \/ Len(done[p]) > 1))
      <4>1. exitCode' = IF p = 0 THEN Rule!Result(p) ELSE exitCode
        <5> DEFINE last == done[p][Len(done[p])]
        <5>1. Rule!Result(p) = IF Lives[p] = "finished" \/ last.code # NoCode THEN Rule!Code(last)
                               ELSE IF Len(done[p]) = 1 THEN exitCode
                               ELSE Rule!Code(done[p][Len(done[p]) - 1])
          BY DEF Rule!Result, Rule!LastCode, Lives, NoCode
        <5>2. last.code = lastCode[p] /\ (last.code # NoCode => Rule!Code(last) = lastCode[p])
          BY <3>5 DEF Rule!Code, NoCode
        <5> HIDE DEF last
        <5>3. exitCode' = IF p = 0 /\ lastCode[p] # NoCode THEN lastCode[p] ELSE exitCode
          BY <2>5 DEF Return, IsCode
        <5>4. CASE p # 0
          BY <5>3, <5>4
        <5>5. CASE lastCode[p] # NoCode
          BY <5>1, <5>2, <5>3, <5>5
        <5>6. CASE p = 0 /\ lastCode[p] = NoCode
          <6>0. leaves[p] /\ ~(Len(done[p]) > 1)
            BY <3>7, <5>6, Zenon
          <6>1. Len(done[p]) = 1
            <7> DEFINE x == Len(done[p])
            <7>1. x \in Nat /\ x >= 1 /\ ~(x > 1)
              BY <3>5, <6>0, Zenon
            <7> HIDE DEF x
            <7>2. x = 1
              BY <7>1
            <7> QED BY <7>2 DEF x
          <6>2. Lives[p] # "finished"
            BY <3>1, <6>0, Zenon
          <6> QED BY <5>1, <5>2, <5>3, <5>6, <6>1, <6>2
        <5> QED BY <5>4, <5>5, <5>6
      <4>2. Rule!EndLine(p)
        BY <2>5, <3>1, <3>4, <4>1 DEF Return, Rule!EndLine, Lives
      <4> QED BY <4>2
    <3> QED
      BY <3>6, <3>7
  <2>9. ASSUME NEW p \in Shells, Fail(p)
        PROVE  Rule!Fail(p)
    <3>1. Life(p)' = "over"
      BY <2>9 DEF Fail, Life, LineInv, ShellTypeOK
    <3>2. \A q \in Shells \ {p} : stands'[q] = stands[q] /\ leaves'[q] = leaves[q]
      BY <2>9 DEF Fail, LineInv, ShellTypeOK
    <3>3. Lives' = [Lives EXCEPT ![p] = "over"]
      BY <3>1, <3>2, LifeMoves
    <3>4. CASE stands[p] = "entry" /\ Runs(mode[p])
      <4>1. Rule!Selected(p) /\ Lives[p] = "working"
        BY <3>4, RunsIsSelected DEF Lives, Life
      <4> QED
        BY <2>9, <3>3, <4>1 DEF Fail, EXIT_FAILURE, Rule!Fail, Lives
    <3>5. CASE p = 0 /\ stands[p] = "idle"
      <4>1. Lives[p] = "idle"
        BY <3>5 DEF Lives, Life
      <4> QED
        BY <2>9, <3>3, <3>5, <4>1 DEF Fail, EXIT_FAILURE, Rule!Fail, Lives
    <3> QED
      BY <2>9, <3>4, <3>5 DEF Fail
  <2>6. CASE EndOfFile
    <3>1. 0 \in Shells
      BY LinesAssumption DEF Shells
    <3>2. Life(0)' = "over" /\ Lives[0] = "idle"
      BY <2>6, <3>1 DEF EndOfFile, Life, Lives, LineInv, ShellTypeOK
    <3>3. \A q \in Shells \ {0} : stands'[q] = stands[q] /\ leaves'[q] = leaves[q]
      BY <2>6, <3>1 DEF EndOfFile, LineInv, ShellTypeOK
    <3>4. Lives' = [Lives EXCEPT ![0] = "over"]
      BY <3>1, <3>2, <3>3, LifeMoves
    <3>5. Rule!EndOfInput
      BY <2>6, <3>2, <3>4 DEF EndOfFile, Rule!EndOfInput, Lives
    <3> QED
      BY <3>5 DEF Rule!Next
  <2>7. CASE UNCHANGED lineVars
    BY <2>7
  <2>8. Shells = 0..MaxLines /\ NoCode = -1
    BY DEF Shells, NoCode
  <2> QED
    BY <2>1, <2>2, <2>3, <2>4, <2>5, <2>6, <2>7, <2>8, <2>9 DEF ShellNext, Walk, Rule!Next
<1> QED
  BY <1>1, <1>2, ShellInvariant, PTL DEF ShellSpec, ImplementsShellRule
=============================================================================
