------------------------------- MODULE UserFS -------------------------------
(***************************************************************************)
(* The names and descriptors of 3/userfs.c: the doubly linked list of      *)
(* files behind file_list, which every name is looked up in, the           *)
(* reference counts that keep a deleted file for the descriptors still on  *)
(* it, and the growing table of descriptors.                               *)
(*                                                                         *)
(* What the files hold is in UserFile.                                     *)
(***************************************************************************)
EXTENDS Integers, FiniteSets, FiniteSetsExt

CONSTANTS Names,
          Files,      \* places calloc can put a file object at
          NoFile,     \* the null pointer
          TableStep,  \* by how much create_filedesc lets the table grow
          MaxOpens    \* bound: calls of ufs_open that succeed

ASSUME UserFSAssumption ==
  /\ IsFiniteSet(Files)
  /\ NoFile \notin Files
  /\ TableStep \in Nat \ {0}
  /\ MaxOpens \in Nat

VARIABLES
  fileList,      \* file_list
  next, prev,    \* the links of the files
  name,          \* file->name
  refs,          \* file->refs
  removed,       \* file->is_removed
  allocated,     \* the file objects there are
  table,         \* file_descriptors: the file of each descriptor, or null
  capacity,      \* file_descriptor_capacity
  count,         \* file_descriptor_count
  state          \* "up", "destroyed", or "wild" once a call has read past the table

listVars == <<fileList, next, prev, name>>
fileVars == <<refs, removed, allocated>>
tableVars == <<table, capacity, count>>
vars == <<listVars, fileVars, tableVars, state>>

Pointers == Files \cup {NoFile}
Places(n) == 0..(n - 1)

Init ==
  /\ fileList = NoFile
  /\ next = [f \in Files |-> NoFile]
  /\ prev = [f \in Files |-> NoFile]
  /\ name \in [Files -> Names]
  /\ refs = [f \in Files |-> 0]
  /\ removed = [f \in Files |-> FALSE]
  /\ allocated = {}
  /\ table = [fd \in Places(0) |-> NoFile]
  /\ capacity = 0
  /\ count = 0
  /\ state = "up"

(* The loops over file_list: the i-th file the next pointers lead to. *)
Walk[i \in 0..Cardinality(Files)] ==
  IF i = 0 THEN fileList
  ELSE IF Walk[i - 1] = NoFile THEN NoFile ELSE next[Walk[i - 1]]
Found(n) == {i \in DOMAIN Walk : Walk[i] # NoFile /\ name[Walk[i]] = n}
FileOf(n) == IF Found(n) = {} THEN NoFile ELSE Walk[Min(Found(n))]
Listed == {Walk[i] : i \in DOMAIN Walk} \ {NoFile}
LastFile == Walk[Max({i \in DOMAIN Walk : Walk[i] # NoFile})]

-----------------------------------------------------------------------------
(* add_file: the new file goes to the end of the list. *)
AddFile(f, n) ==
  /\ f \notin allocated
  /\ name' = [name EXCEPT ![f] = n]
  /\ allocated' = allocated \cup {f}
  /\ removed' = [removed EXCEPT ![f] = FALSE]
  /\ IF fileList = NoFile
     THEN /\ fileList' = f
          /\ next' = [next EXCEPT ![f] = NoFile]
          /\ prev' = [prev EXCEPT ![f] = NoFile]
     ELSE /\ next' = [next EXCEPT ![f] = NoFile, ![LastFile] = f]
          /\ prev' = [prev EXCEPT ![f] = LastFile]
          /\ UNCHANGED fileList

TableFull == count = capacity

At(fd) == IF fd \in DOMAIN table THEN table[fd] ELSE NoFile

\* mutant: the first place is taken, empty or not
FirstPlace(n) == 0
(* The search looks one place past the end, where nothing is in the table.   *)
FreePlace(n) == Min({fd \in Places(n) : At(fd) = NoFile} \cup {n})

OneMoreRef(r) == r + 1

(* create_filedesc: the table grows when as many descriptors were ever made  *)
(* as it has places, then the first empty place is taken.                    *)
CreateFiledesc(f, r) ==
  /\ capacity' = IF TableFull THEN capacity + TableStep ELSE capacity
  /\ LET fd == FreePlace(capacity')
     IN table' = [i \in Places(capacity') \cup {fd} |-> IF i = fd THEN f ELSE At(i)]
  /\ refs' = [refs EXCEPT ![f] = OneMoreRef(r)]
  /\ count' = count + 1

Up == state = "up" /\ UNCHANGED state

Open(n) ==
  /\ Up /\ count < MaxOpens
  /\ FileOf(n) # NoFile
  /\ CreateFiledesc(FileOf(n), refs[FileOf(n)])
  /\ UNCHANGED <<listVars, removed, allocated>>

Create(n, f) ==
  /\ Up /\ count < MaxOpens
  /\ FileOf(n) = NoFile
  /\ AddFile(f, n)
  /\ CreateFiledesc(f, 0)

(* handle_err_no_file, which every call with a descriptor begins with: the   *)
(* place after the last one is looked at too.                                *)
Valid(fd) == fd \in DOMAIN table /\ table[fd] # NoFile

(* What lies there may look like a descriptor.                               *)
UsePlacePastTable ==
  /\ state = "up"
  /\ state' = "wild"
  /\ UNCHANGED <<listVars, fileVars, tableVars>>

\* mutant: a removed file goes when another descriptor is still on it
FreesRemovedEarly(f, left) == removed[f]
FreesOnClose(f, left) == removed[f] /\ left = 0

Close(fd) ==
  /\ Up
  /\ Valid(fd)
  /\ LET f == table[fd]
         left == refs[f] - 1
     IN /\ refs' = [refs EXCEPT ![f] = left]
        /\ allocated' = IF FreesOnClose(f, left) THEN allocated \ {f} ELSE allocated
  /\ table' = [table EXCEPT ![fd] = NoFile]
  /\ UNCHANGED <<listVars, removed, capacity, count>>

\* mutant: the file behind keeps its pointer to the one deleted
KeepPrev(f) == prev
UnlinkPrev(f) ==
  IF next[f] = NoFile THEN prev ELSE [prev EXCEPT ![next[f]] = prev[f]]

Unlink(f) ==
  /\ IF prev[f] # NoFile
     THEN next' = [next EXCEPT ![prev[f]] = next[f]] /\ UNCHANGED fileList
     ELSE fileList' = next[f] /\ UNCHANGED next
  /\ prev' = UnlinkPrev(f)
  /\ UNCHANGED name

Delete(n) ==
  /\ Up
  /\ FileOf(n) # NoFile
  /\ LET f == FileOf(n)
     IN /\ Unlink(f)
        /\ IF refs[f] = 0
           THEN allocated' = allocated \ {f} /\ UNCHANGED removed
           ELSE removed' = [removed EXCEPT ![f] = TRUE] /\ UNCHANGED allocated
  /\ UNCHANGED <<refs, tableVars>>

(* The files of the list are freed, and the descriptors. *)
Destroy ==
  /\ state = "up"
  /\ state' = "destroyed"
  /\ allocated' = allocated \ Listed
  /\ fileList' = NoFile
  /\ table' = [fd \in DOMAIN table |-> NoFile]
  /\ UNCHANGED <<next, prev, name, refs, removed, capacity, count>>

Next ==
  \/ \E n \in Names : Open(n) \/ Delete(n) \/ \E f \in Files : Create(n, f)
  \/ \E fd \in DOMAIN table : Close(fd)
  \/ UsePlacePastTable
  \/ Destroy

Spec == Init /\ [][Next]_vars

-----------------------------------------------------------------------------
OnFile(f) == {fd \in DOMAIN table : table[fd] = f}

TypeOK ==
  /\ fileList \in Pointers
  /\ next \in [Files -> Pointers]
  /\ prev \in [Files -> Pointers]
  /\ name \in [Files -> Names]
  /\ refs \in [Files -> Nat]
  /\ removed \in [Files -> BOOLEAN]
  /\ allocated \subseteq Files
  /\ table \in [Places(capacity) -> Pointers]
  /\ capacity \in Nat
  /\ count \in 0..MaxOpens /\ count <= capacity
  /\ state \in {"up", "destroyed", "wild"}

(* The links go both ways, lead only to files that exist and still have a    *)
(* name, and no two of those have the same.                                  *)
ListIsSound ==
  /\ TypeOK
  /\ state = "up" =>
       /\ \A f \in Listed :
            /\ f \in allocated /\ ~removed[f]
            /\ next[f] # NoFile => prev[next[f]] = f
            /\ f = fileList <=> prev[f] = NoFile
       /\ \A f, g \in Listed : name[f] = name[g] => f = g

(* A file exists exactly as long as its name or a descriptor leads to it:    *)
(* neither is left behind when it is freed, and it does not outlive both.    *)
(* There is always a place for a new descriptor: closing one does not lower  *)
(* the count the table grows by, so that it never counts too few.            *)
FilesLiveWhileUsed ==
  state = "up" =>
    /\ allocated = Listed \cup {f \in Files : OnFile(f) # {}}
    /\ \A f \in allocated : refs[f] = Cardinality(OnFile(f))
    /\ Cardinality({fd \in DOMAIN table : table[fd] # NoFile}) <= count

Names2Files ==
  INSTANCE OpenFiles WITH
    Fds <- 0..(MaxOpens + TableStep),
    directory  <- [n \in Names |-> FileOf(n)],
    descriptor <- [fd \in 0..(MaxOpens + TableStep) |->
                     At(fd)]

(* Opening, closing and deleting affect the one name and the one descriptor  *)
(* they are about: a file created under a deleted name is another file, and  *)
(* the descriptors of the old one stay on it.                                *)
ImplementsOpenFiles == Names2Files!Spec
=============================================================================
