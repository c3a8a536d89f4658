------------------------------ MODULE FlatFile ------------------------------
(***************************************************************************)
(* What 3/userfs.h promises of an open file, with no blocks: a sequence of *)
(* bytes and a position in it for every descriptor.  Reads and writes go   *)
(* on from the position.                                                   *)
(*                                                                         *)
(* One freedom is here because UserFile needs it, and it is less than the  *)
(* task says (3/task_eng.txt:127): a descriptor that asked for more than   *)
(* the file has, or could take, may go astray.  It is then at the start of *)
(* the file, and where a shrinking leaves it is not said.                  *)
(***************************************************************************)
EXTENDS Integers, Sequences

CONSTANTS Descriptors, Bytes, Buffers, MaxRead, MaxSize

VARIABLES content,  \* the bytes of the file
          open,     \* the descriptors that are open
          pos,      \* the position of each
          astray,   \* those that have met the end of the file or of the room
          result    \* what the last call returned

vars == <<content, open, pos, astray, result>>

Init ==
  /\ content = <<>>
  /\ open = {}
  /\ pos = [d \in Descriptors |-> 0]
  /\ astray = {}
  /\ result = [call |-> "none", code |-> 0, data |-> <<>>, size |-> 0]

Returns(call, code, data) ==
  result' = [call |-> call, code |-> code, data |-> data, size |-> 0]
Resized(code, n) ==
  result' = [call |-> "resize", code |-> code, data |-> <<>>, size |-> n]

Open(d) ==
  /\ Returns("open", 0, <<>>)
  /\ d \notin open
  /\ open' = open \cup {d}
  /\ pos' = [pos EXCEPT ![d] = 0]
  /\ astray' = astray \ {d}
  /\ UNCHANGED content

Close(d) ==
  /\ Returns("close", 0, <<>>)
  /\ d \in open
  /\ open' = open \ {d}
  /\ pos' = [pos EXCEPT ![d] = 0]
  /\ astray' = astray \ {d}
  /\ UNCHANGED content

(* The n first bytes of b over those from position p. *)
Overwritten(p, b, n) ==
  [i \in 1..(IF p + n > Len(content) THEN p + n ELSE Len(content)) |->
     IF i \in (p + 1)..(p + n) THEN b[i - p] ELSE content[i]]

Moves(d, p) == pos' = [pos EXCEPT ![d] = p]
Strays(d)   == pos' = [pos EXCEPT ![d] = 0] /\ astray' = astray \cup {d}

Write(d, b) ==
  /\ d \in open
  /\ \/ /\ Returns("write", Len(b), <<>>)
        /\ pos[d] + Len(b) <= MaxSize
        /\ content' = Overwritten(pos[d], b, Len(b))
        /\ Moves(d, pos[d] + Len(b))
        /\ astray' \in {astray, astray \ {d}}
     \/ /\ Returns("write", -1, <<>>)
        /\ pos[d] + Len(b) > MaxSize
        /\ content' = Overwritten(pos[d], b, MaxSize - pos[d])
        /\ Strays(d)
  /\ UNCHANGED open

Read(d, n) ==
  /\ d \in open
  /\ LET left == Len(content) - pos[d]
         k    == IF n < left THEN n ELSE left
     IN /\ Returns("read", k, SubSeq(content, pos[d] + 1, pos[d] + k))
        /\ \/ Moves(d, pos[d] + k) /\ UNCHANGED astray
           \/ k < n /\ Strays(d)
  /\ UNCHANGED <<content, open>>

(* The descriptor was opened for the other thing. *)
Refuse(d, call) ==
  /\ Returns(call, -1, <<>>)
  /\ d \in open
  /\ UNCHANGED <<content, open, pos, astray>>

(* A size below the current one: the bytes from there on are gone, and the   *)
(* descriptors D that were behind the new end are at it.                     *)
Truncate(n, D) ==
  /\ Resized(0, n)
  /\ n <= Len(content)
  /\ content' = SubSeq(content, 1, n)
  /\ pos' \in [Descriptors -> 0..n]
  /\ \A d \in D : pos'[d] = IF pos[d] < n THEN pos[d] ELSE n
  /\ astray' \in SUBSET astray
  /\ UNCHANGED open

Shrink(n) == Truncate(n, open \ astray)

(* A size not below the current one: room is made, and nothing moves.        *)
Grow(n) ==
  /\ Resized(0, n)
  /\ n >= Len(content)
  /\ UNCHANGED <<content, open, pos, astray>>

RefuseResize ==
  /\ Resized(-1, MaxSize + 1)
  /\ UNCHANGED <<content, open, pos, astray>>

Next ==
  \/ \E d \in Descriptors : Open(d) \/ Close(d)
  \/ \E d \in Descriptors, b \in Buffers : Write(d, b)
  \/ \E d \in Descriptors, n \in 0..MaxRead : Read(d, n)
  \/ \E d \in Descriptors, call \in {"read", "write"} : Refuse(d, call)
  \/ \E n \in 0..MaxSize : Shrink(n) \/ Grow(n)
  \/ RefuseResize

Spec == Init /\ [][Next]_vars
=============================================================================
