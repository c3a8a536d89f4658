------------------------------ MODULE UserFile ------------------------------
(***************************************************************************)
(* One file of 3/userfs.c and the descriptors open on it: the list of      *)
(* blocks, how much of each is occupied, and where in the list every       *)
(* descriptor is.  ufs_write, ufs_read and ufs_resize are one step each,   *)
(* since nothing in userfs.c runs concurrently; their loops over the       *)
(* blocks are solved for the byte they stop at.                            *)
(*                                                                         *)
(* A byte of the file has an address that its block and its offset in the  *)
(* block give, whatever the blocks before it hold.  Which file a name or a *)
(* descriptor stands for is in UserFS.                                     *)
(***************************************************************************)
EXTENDS Integers, Sequences, FiniteSetsExt

CONSTANTS Descriptors,  \* the descriptors of this file
          Modes,        \* what a client opens it for, of "ro", "wo" and "rw"
          Bytes, Zero,  \* what a byte can be; Zero is what calloc leaves
          BlockSize,    \* BLOCK_SIZE
          MaxBlocks,    \* MAX_FILE_SIZE / BLOCK_SIZE
          Buffers,      \* what a client writes
          MaxRead,      \* bound: bytes a client asks for in one read
          MaxIndex      \* bound: a descriptor whose index is past it is only closed

ASSUME FileAssumption ==
  /\ Modes \subseteq {"ro", "wo", "rw"}
  /\ Zero \in Bytes
  /\ BlockSize \in Nat \ {0}
  /\ MaxBlocks \in Nat \ {0}
  /\ Buffers \subseteq Seq(Bytes)
  /\ MaxRead \in Nat
  /\ MaxIndex \in Nat

VARIABLES
  occupied,  \* block->occupied along file->block_list; its length is blocks_count
  memory,    \* the blocks' memory end to end: byte a - 1 of the blocks is memory[a]
  mode,      \* desc->permissions, or "closed"
  block,     \* desc->current_block: 1 is file->block_list, 0 the null pointer
  index,     \* desc->current_block_index
  offset,    \* desc->offset
  result     \* what the last call returned

descVars == <<mode, block, index, offset>>
vars == <<occupied, memory, descVars, result>>

MaxSize     == MaxBlocks * BlockSize
BlocksCount == Len(occupied)
BlocksFor(n) == (n + BlockSize - 1) \div BlockSize   \* blocks that n bytes fill

Returns(call, code, data) ==
  result' = [call |-> call, code |-> code, data |-> data, size |-> 0]
Resized(code, n) ==   \* n is the size that was asked for
  result' = [call |-> "resize", code |-> code, data |-> <<>>, size |-> n]

Init ==
  /\ occupied = <<>>
  /\ memory = <<>>
  /\ mode = [d \in Descriptors |-> "closed"]
  /\ block = [d \in Descriptors |-> 0]
  /\ index = [d \in Descriptors |-> -1]
  /\ offset = [d \in Descriptors |-> 0]
  /\ result = [call |-> "none", code |-> 0, data |-> <<>>, size |-> 0]

(* create_filedesc: at the first block, if there is one. *)
Open(d, m) ==
  /\ mode[d] = "closed"
  /\ mode' = [mode EXCEPT ![d] = m]
  /\ block' = [block EXCEPT ![d] = IF BlocksCount > 0 THEN 1 ELSE 0]
  /\ index' = [index EXCEPT ![d] = IF BlocksCount > 0 THEN 0 ELSE -1]
  /\ offset' = [offset EXCEPT ![d] = 0]
  /\ Returns("open", 0, <<>>)
  /\ UNCHANGED <<occupied, memory>>

Close(d) ==
  /\ mode[d] # "closed"
  /\ mode' = [mode EXCEPT ![d] = "closed"]
  /\ block' = [block EXCEPT ![d] = 0]
  /\ index' = [index EXCEPT ![d] = -1]
  /\ offset' = [offset EXCEPT ![d] = 0]
  /\ Returns("close", 0, <<>>)
  /\ UNCHANGED <<occupied, memory>>

(* init_filedesc_current_block, which every read and write begins with: a    *)
(* descriptor without a block, new or run off the end, gets the first one.   *)
LacksBlock(d) == block[d] = 0 /\ BlocksCount > 0
Seat(d)       == IF LacksBlock(d) THEN 1 ELSE block[d]
SeatIndex(d)  == IF LacksBlock(d) THEN index[d] + 1 ELSE index[d]
Address(d)    == IF Seat(d) = 0 THEN 0 ELSE (Seat(d) - 1) * BlockSize + offset[d]

Place(d, b, i, o) ==
  /\ block' = [block EXCEPT ![d] = b]
  /\ index' = [index EXCEPT ![d] = i]
  /\ offset' = [offset EXCEPT ![d] = o]
  /\ UNCHANGED mode

(* A descriptor stops behind the last byte it handled and does not yet step  *)
(* to the next block; one that handled none stays.                           *)
StayPut(d) == Place(d, Seat(d), SeatIndex(d), offset[d])
StepTo(d, b, o) == Place(d, b, SeatIndex(d) + b - Seat(d), o)

Permits(d, m) == mode[d] \in {m, "rw"} /\ index[d] <= MaxIndex
Refuse(d, call) == index[d] <= MaxIndex /\ StayPut(d) /\ Returns(call, -1, <<>>) /\ UNCHANGED <<occupied, memory>>

\* mutant: what is occupied ends where the last write ended
EndOfWrite(old, end) == end
Occupation(old, end) == Max({old, end})

(* The memory and the occupation after the bytes of b are written up to e.   *)
Fill(b, s, e) ==
  LET count == Max({BlocksCount, BlocksFor(e)}) IN
  /\ memory' = [a \in 1..(count * BlockSize) |->
                  IF a > s /\ a <= e THEN b[a - s]
                  ELSE IF a <= Len(memory) THEN memory[a] ELSE Zero]
  /\ occupied' = [i \in 1..count |->
                    LET old == IF i <= BlocksCount THEN occupied[i] ELSE 0
                    IN IF i * BlockSize > s /\ (i - 1) * BlockSize < e
                       THEN Occupation(old, Min({BlockSize, e - (i - 1) * BlockSize}))
                       ELSE old]

(* The index is counted on from block to block, and set when one is added.   *)
IndexAt(d, b) == IF b > BlocksCount THEN b - 1 ELSE SeatIndex(d) + b - Seat(d)

Write(d, b) ==
  /\ Permits(d, "wo")
  /\ LET s == Address(d)
         e == Min({s + Len(b), MaxSize})
     IN /\ Fill(b, s, e)
        /\ \/ /\ b = <<>>
              /\ StayPut(d)
              /\ Returns("write", 0, <<>>)
           \/ /\ b # <<>> /\ s + Len(b) <= MaxSize
              /\ Place(d, BlocksFor(e), IndexAt(d, BlocksFor(e)),
                       e - (BlocksFor(e) - 1) * BlockSize)
              /\ Returns("write", Len(b), <<>>)
           \/ /\ s + Len(b) > MaxSize   \* UFS_ERR_NO_MEM, what fits being written
              /\ Place(d, 0, IndexAt(d, MaxBlocks) + 1, 0)
              /\ Returns("write", -1, <<>>)

WriteRefused(d) == mode[d] = "ro" /\ Refuse(d, "write")

(* A read ends early in the first block it comes to that is not full, or     *)
(* runs off the last one.                                                    *)
Gaps(s) == {i \in 1..BlocksCount : i * BlockSize > s /\ occupied[i] < BlockSize}
ReadableTo(s) ==
  IF Gaps(s) = {} THEN BlocksCount * BlockSize
  ELSE (Min(Gaps(s)) - 1) * BlockSize + occupied[Min(Gaps(s))]

Read(d, n) ==
  /\ Permits(d, "ro")
  /\ LET s == Address(d)
         k == Max({0, Min({n, ReadableTo(s) - s})})
     IN /\ \/ /\ n = 0 \/ BlocksCount = 0
              /\ StayPut(d)
           \/ /\ k = n /\ n > 0
              /\ StepTo(d, BlocksFor(s + n), s + n - (BlocksFor(s + n) - 1) * BlockSize)
           \/ /\ k < n /\ Gaps(s) # {}
              /\ LET i == Min(Gaps(s))
                 IN StepTo(d, i, Max({occupied[i], s - (i - 1) * BlockSize}))
           \/ /\ k < n /\ Gaps(s) = {} /\ BlocksCount > 0
              /\ Place(d, 0, SeatIndex(d) + BlocksCount - Seat(d) + 1, 0)
        /\ Returns("read", k, SubSeq(memory, s + 1, s + k))
  /\ UNCHANGED <<occupied, memory>>

ReadRefused(d) == mode[d] = "wo" /\ Refuse(d, "read")

(* ufs_resize: any descriptor will do, its permissions are not looked at.    *)
AnyOpen == \E d \in Descriptors : mode[d] # "closed"

ResizeRefused ==
  /\ AnyOpen
  /\ Resized(-1, MaxSize + 1)
  /\ UNCHANGED <<occupied, memory, descVars>>

(* Blocks are added, empty; a size within the last block changes nothing.    *)
Grow(n) ==
  /\ AnyOpen
  /\ BlocksFor(n) >= BlocksCount
  /\ occupied' = occupied \o [i \in 1..(BlocksFor(n) - BlocksCount) |-> 0]
  /\ memory' = memory \o [a \in 1..((BlocksFor(n) - BlocksCount) * BlockSize) |-> Zero]
  /\ Resized(0, n)
  /\ UNCHANGED descVars

\* mutants: a descriptor on the first freed block is left there; an offset is
\* left where it is
BehindFreed(i, count) == i > count
Behind(i, count) == i >= count
OffsetKept(o, end) == o
OffsetCut(o, end) == Min({o, end})

(* The first block is never freed. *)
Shrink(n) ==
  /\ AnyOpen
  /\ BlocksFor(n) < BlocksCount
  /\ LET count == Max({BlocksFor(n), 1})
         end   == n - (count - 1) * BlockSize
         moved(d) == mode[d] # "closed" /\ Behind(index[d], count)
         at(d) == IF moved(d) THEN count - 1 ELSE index[d]
     IN /\ occupied' = [i \in 1..count |-> IF i = count THEN end ELSE occupied[i]]
        /\ memory' = SubSeq(memory, 1, count * BlockSize)
        /\ index' = [d \in Descriptors |-> at(d)]
        /\ block' = [d \in Descriptors |-> IF moved(d) THEN count ELSE block[d]]
        /\ offset' = [d \in Descriptors |->
                        IF mode[d] # "closed" /\ at(d) = count - 1
                        THEN OffsetCut(offset[d], end) ELSE offset[d]]
  /\ Resized(0, n)
  /\ UNCHANGED mode

Next ==
  \/ \E d \in Descriptors, m \in Modes : Open(d, m)
  \/ \E d \in Descriptors : Close(d) \/ WriteRefused(d) \/ ReadRefused(d)
  \/ \E d \in Descriptors, b \in Buffers : Write(d, b)
  \/ \E d \in Descriptors, n \in 0..MaxRead : Read(d, n)
  \/ \E n \in 0..MaxSize : Grow(n) \/ Shrink(n)
  \/ ResizeRefused

Spec == Init /\ [][Next]_vars

-----------------------------------------------------------------------------
TypeOK ==
  /\ occupied \in Seq(0..BlockSize)
  /\ BlocksCount <= MaxBlocks
  /\ memory \in Seq(Bytes)
  /\ Len(memory) = BlocksCount * BlockSize
  /\ mode \in [Descriptors -> Modes \cup {"closed"}]
  /\ block \in [Descriptors -> 0..MaxBlocks]
  /\ index \in [Descriptors -> Int]
  /\ offset \in [Descriptors -> 0..BlockSize]
  /\ result.call \in {"none", "open", "close", "write", "read", "resize"}

(* No descriptor is on a block that has been freed, though a shrinking finds *)
(* the ones to move by an index that can be wrong: it errs upwards only, and *)
(* neither the file nor an offset outgrows its bounds (TypeOK).              *)
DescriptorsOnBlocks ==
  TypeOK /\ \A d \in Descriptors :
    /\ block[d] <= BlocksCount
    /\ block[d] > 0 => index[d] >= block[d] - 1

(* No descriptor is behind what its block holds, so that a write leaves no   *)
(* bytes nobody wrote between the old end and its own first byte.            *)
NoGapBeforeWrite ==
  \A d \in Descriptors : block[d] > 0 => offset[d] <= occupied[block[d]]

(* The file as a sequence of bytes: every block but the last is full. *)
Holed    == \E i \in 1..(BlocksCount - 1) : occupied[i] < BlockSize
Size     == IF BlocksCount = 0 THEN 0
            ELSE (BlocksCount - 1) * BlockSize + occupied[BlocksCount]

Flat == INSTANCE FlatFile WITH
  content <- SubSeq(memory, 1, Size),
  open    <- {d \in Descriptors : mode[d] # "closed"},
  pos     <- [d \in Descriptors |-> Address(d)],
  astray  <- {d \in Descriptors : index[d] + 1 # block[d]}

(* Two things ufs_resize does against 3/userfs.h.  A size within the last    *)
(* block truncates nothing (userfs.h:147-148 says that the blocks are).      *)
(* And a descriptor on a freed block keeps its offset if the new last block  *)
(* holds more than that (489): it is before the new end, where               *)
(* userfs.h:148-149 has it at the end.                                       *)
KeepsTail == \E n \in 0..(Size - 1) : Grow(n)

OnTrack == {d \in Descriptors : mode[d] # "closed" /\ index[d] + 1 = block[d]}
LeftShort(n) ==
  LET count == Max({BlocksFor(n), 1}) IN
  {d \in Descriptors : block[d] > count /\ offset[d] < n - (count - 1) * BlockSize}
LeavesShort ==
  \E n \in 0..MaxSize :
    Shrink(n) /\ LeftShort(n) # {} /\ Flat!Truncate(n, OnTrack \ LeftShort(n))

(* As long as no growing has left a hole, the file acts as FlatFile: a write *)
(* changes the bytes it covers and no others, a read returns the bytes from  *)
(* the position on, a shrinking cuts off what is behind the new end and      *)
(* moves there who was behind it and nobody else, and descriptors do not     *)
(* disturb each other.  The steps against userfs.h are exactly the two       *)
(* above; one that leaves a descriptor short does the rest as it should.     *)
ActsAsFlatFile ==
  Flat!Init /\ [][Holed \/ Holed' \/ Flat!Next \/ KeepsTail \/ LeavesShort]_vars

(* What 3/task_eng.txt:127 says, "the descriptor reads sequentially": where a *)
(* read leaves a descriptor is no earlier in the file than where it was.      *)
CallsGoForwards ==
  [][result'.call = "read" => \A d \in Descriptors : Address(d)' >= Address(d)]_vars
=============================================================================
