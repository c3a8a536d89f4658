----------------------------- MODULE OpenFiles ------------------------------
(***************************************************************************)
(* What 3/userfs.h promises of names and descriptors: a name stands for at *)
(* most one file, a descriptor stays on the file it was opened on, whether *)
(* or not that file keeps its name, and a file is there as long as a name  *)
(* or a descriptor leads to it.                                            *)
(***************************************************************************)
EXTENDS Naturals

CONSTANTS Names, Files, NoFile, Fds

VARIABLES directory,   \* the file of each name
          descriptor   \* the file of each descriptor

vars == <<directory, descriptor>>

Live == {f \in Files : (\E n \in Names : directory[n] = f)
                       \/ \E fd \in Fds : descriptor[fd] = f}

Init ==
  /\ directory = [n \in Names |-> NoFile]
  /\ descriptor = [fd \in Fds |-> NoFile]

Open(n, fd) ==
  /\ directory[n] # NoFile
  /\ descriptor[fd] = NoFile
  /\ descriptor' = [descriptor EXCEPT ![fd] = directory[n]]
  /\ UNCHANGED directory

Create(n, f, fd) ==
  /\ directory[n] = NoFile
  /\ f \notin Live
  /\ descriptor[fd] = NoFile
  /\ directory' = [directory EXCEPT ![n] = f]
  /\ descriptor' = [descriptor EXCEPT ![fd] = f]

Close(fd) ==
  /\ descriptor[fd] # NoFile
  /\ descriptor' = [descriptor EXCEPT ![fd] = NoFile]
  /\ UNCHANGED directory

Delete(n) ==
  /\ directory[n] # NoFile
  /\ directory' = [directory EXCEPT ![n] = NoFile]
  /\ UNCHANGED descriptor

Destroy ==
  /\ directory' = [n \in Names |-> NoFile]
  /\ descriptor' = [fd \in Fds |-> NoFile]

Next ==
  \/ \E n \in Names, fd \in Fds : Open(n, fd) \/ \E f \in Files : Create(n, f, fd)
  \/ \E fd \in Fds : Close(fd)
  \/ \E n \in Names : Delete(n)
  \/ Destroy

Spec == Init /\ [][Next]_vars
=============================================================================
