---------------------------- MODULE UserFileProofs ----------------------------
(***************************************************************************)
(* For any number of descriptors, any sizes of blocks and files, and any     *)
(* calls: no descriptor of a file is ever on a freed block, and the file     *)
(* stays within its bounds; none is behind what its block holds, so that no  *)
(* write leaves a gap; and while there is no hole the file acts as FlatFile, *)
(* a sequence of bytes and a position for every descriptor.                  *)
(***************************************************************************)
EXTENDS UserFile, SequenceTheorems, WellFoundedInduction, TLAPS

-------------------------------------------------------------------------------
(* Arithmetic.                                                               *)

LEMMA TwoInts ==
  ASSUME NEW x \in Int, NEW y \in Int
  PROVE  /\ Max({x, y}) = IF x >= y THEN x ELSE y
         /\ Min({x, y}) = IF x <= y THEN x ELSE y
<1>1. Max({x, y}) \in {x, y} /\ \A z \in {x, y} : Max({x, y}) >= z
  <2>1. \E m \in {x, y} : \A z \in {x, y} : m >= z
    OBVIOUS
  <2> QED
    BY <2>1, Zenon DEF Max
<1>2. Min({x, y}) \in {x, y} /\ \A z \in {x, y} : Min({x, y}) <= z
  <2>1. \E m \in {x, y} : \A z \in {x, y} : m <= z
    OBVIOUS
  <2> QED
    BY <2>1, Zenon DEF Min
<1> QED
  BY <1>1, <1>2

LEMMA Least ==
  ASSUME NEW S \in SUBSET Nat, S # {}
  PROVE  Min(S) \in S /\ \A k \in S : Min(S) <= k
<1>1. PICK m \in S : \A k \in S : ~(<<k, m>> \in OpToRel(<, Nat))
  BY NatLessThanWellFounded, WFMin
<1>2. \A k \in S : ~(k < m)
  BY <1>1 DEF OpToRel
<1>3. \A k \in S : m <= k
  BY <1>2
<1> QED
  BY <1>3, Zenon DEF Min

(* The block that byte n is in, counted from 1. *)
LEMMA Blocks ==
  ASSUME NEW n \in Nat
  PROVE  /\ BlocksFor(n) \in Nat
         /\ n <= BlocksFor(n) * BlockSize
         /\ n > 0 => BlocksFor(n) >= 1 /\ (BlocksFor(n) - 1) * BlockSize < n
         /\ n = 0 => BlocksFor(n) = 0
         /\ \A m \in Nat : n <= m * BlockSize => BlocksFor(n) <= m
<1> DEFINE B == BlockSize
           q == (n + B - 1) \div B
<1>0. B \in Nat \ {0}
  BY FileAssumption
<1> HIDE DEF B
<1>1. q \in Int /\ q * B <= n + B - 1 /\ n + B - 1 < (q + 1) * B
  BY <1>0
<1>2. (q + 1) * B = q * B + B /\ q * B \in Int
  BY <1>0, <1>1
<1> HIDE DEF q
<1>3. n <= q * B /\ q * B <= n + B - 1
  BY <1>0, <1>1, <1>2
<1>4. q >= 0
  BY <1>0, <1>1, <1>3
<1>5. (q - 1) * B = q * B - B
  BY <1>0, <1>1
<1>6. n > 0 => q >= 1 /\ (q - 1) * B < n
  <2>1. (q - 1) * B < n
    BY <1>0, <1>1, <1>2, <1>3, <1>5
  <2>2. q = 0 => q * B = 0
    BY <1>0
  <2> QED
    BY <1>1, <1>3, <1>4, <2>1, <2>2
<1>7. n = 0 => q = 0
  BY <1>0, <1>1, <1>3, <1>4
<1>8. ASSUME NEW m \in Nat, n <= m * B PROVE q <= m
  <2> SUFFICES ASSUME q >= m + 1 PROVE FALSE
    BY <1>1, <1>8
  <2>1. (m + 1) * B = m * B + B /\ m * B \in Int
    BY <1>0
  <2>2. q * B >= (m + 1) * B
    BY <1>0, <1>1
  <2> QED
    BY <1>0, <1>1, <1>2, <1>3, <1>8, <2>1, <2>2
<1> QED
  BY <1>1, <1>3, <1>4, <1>6, <1>7, <1>8 DEF BlocksFor, q, B

(* A product grows with its factor. *)
LEMMA Products ==
  ASSUME NEW m \in Int, NEW n \in Int
  PROVE  /\ m * BlockSize \in Int
         /\ (m - 1) * BlockSize = m * BlockSize - BlockSize
         /\ m <= n => m * BlockSize <= n * BlockSize
  BY FileAssumption

LEMMA Inside ==
  ASSUME NEW n \in Nat, n > 0
  PROVE  n - (BlocksFor(n) - 1) * BlockSize \in 0..BlockSize
<1> DEFINE q == BlocksFor(n)
           x == (q - 1) * BlockSize
           y == q * BlockSize
<1>1. q \in Nat /\ x < n /\ n <= y
  BY Blocks
<1> HIDE DEF q
<1>2. x = y - BlockSize /\ x \in Int /\ y \in Int /\ BlockSize \in Nat
  BY <1>1, Products, FileAssumption
<1> HIDE DEF x, y
<1>3. n - x \in 0..BlockSize
  BY <1>1, <1>2
<1> QED
  BY <1>3 DEF x, q

-------------------------------------------------------------------------------
(* The invariant.  A closed descriptor has no block, and an index is never    *)
(* below that of no block: a descriptor that is seated at the first block     *)
(* counts up from there.                                                      *)
Inv ==
  /\ DescriptorsOnBlocks
  /\ \A d \in Descriptors : index[d] >= -1 /\ (mode[d] = "closed" => block[d] = 0)

(* Where a descriptor is when a call begins. *)
LEMMA Seats ==
  ASSUME Inv, NEW d \in Descriptors
  PROVE  /\ Seat(d) \in 0..BlocksCount /\ SeatIndex(d) \in Int
         /\ SeatIndex(d) >= Seat(d) - 1
         /\ BlocksCount > 0 => Seat(d) >= 1
         /\ offset[d] \in 0..BlockSize /\ BlocksCount \in 0..MaxBlocks
         /\ mode[d] \in Modes \cup {"closed"} /\ index[d] \in Int
  BY FileAssumption, LenProperties
  DEF Inv, DescriptorsOnBlocks, TypeOK, Seat, SeatIndex, LacksBlock, BlocksCount

LEMMA Addresses ==
  ASSUME Inv, NEW d \in Descriptors
  PROVE  /\ Address(d) \in Nat /\ Address(d) <= BlocksCount * BlockSize
         /\ BlocksCount * BlockSize <= MaxSize /\ BlocksCount * BlockSize \in Nat
         /\ MaxSize \in Nat
<1>1. BlockSize \in Nat /\ MaxBlocks \in Nat
  BY FileAssumption
<1>2. BlocksCount \in Nat /\ BlocksCount <= MaxBlocks
  BY <1>1, Seats
<1>3. BlocksCount * BlockSize <= MaxSize /\ BlocksCount * BlockSize \in Nat /\ MaxSize \in Nat
  BY <1>1, <1>2, Products DEF MaxSize
<1>4. CASE Seat(d) = 0
  BY <1>3, <1>4 DEF Address
<1>5. CASE Seat(d) # 0
  <2>1. Seat(d) \in Nat \ {0} /\ Seat(d) <= BlocksCount /\ offset[d] \in 0..BlockSize
    BY <1>5, <1>2, Seats
  <2>2. (Seat(d) - 1) * BlockSize \in Nat
    BY <1>1, <2>1
  <2>3. (Seat(d) - 1) * BlockSize + BlockSize <= BlocksCount * BlockSize
    BY <1>1, <1>2, <2>1, Products
  <2>4. Address(d) = (Seat(d) - 1) * BlockSize + offset[d]
    BY <1>5 DEF Address
  <2> QED
    BY <1>1, <1>3, <2>1, <2>2, <2>3, <2>4
<1> QED BY <1>3, <1>4, <1>5

(* What a call has to keep: a descriptor it moves is put on a block that is   *)
(* there, with an index that is not too low, and the blocks are not fewer.    *)
LEMMA Placed ==
  ASSUME Inv, NEW d \in Descriptors, NEW b, NEW i, NEW o, Place(d, b, i, o),
         occupied' \in Seq(0..BlockSize), Len(occupied') \in BlocksCount..MaxBlocks,
         memory' \in Seq(Bytes), Len(memory') = Len(occupied') * BlockSize,
         result'.call \in {"none", "open", "close", "write", "read", "resize"},
         b \in 0..Len(occupied'), i \in Int, i >= b - 1, o \in 0..BlockSize,
         mode[d] # "closed"
  PROVE  Inv'
<1>0. TypeOK /\ BlocksCount \in Nat
  BY LenProperties DEF Inv, DescriptorsOnBlocks, TypeOK, BlocksCount
<1>1. /\ block' = [block EXCEPT ![d] = b] /\ index' = [index EXCEPT ![d] = i]
      /\ offset' = [offset EXCEPT ![d] = o] /\ mode' = mode
  BY DEF Place
<1>2. b \in 0..MaxBlocks /\ i >= -1 /\ MaxBlocks \in Nat
  BY <1>0, FileAssumption
<1>3. TypeOK'
  BY <1>0, <1>1, <1>2 DEF TypeOK, BlocksCount
<1>4. ASSUME NEW c \in Descriptors
      PROVE  /\ block'[c] <= BlocksCount'
             /\ block'[c] > 0 => index'[c] >= block'[c] - 1
             /\ index'[c] >= -1 /\ (mode'[c] = "closed" => block'[c] = 0)
  <2>1. CASE c = d
    BY <1>0, <1>1, <1>2, <2>1 DEF TypeOK, BlocksCount
  <2>2. CASE c # d
    <3>1. block'[c] = block[c] /\ index'[c] = index[c] /\ mode'[c] = mode[c]
      BY <1>0, <1>1, <2>2 DEF TypeOK
    <3>2. block[c] \in Int /\ block[c] <= BlocksCount
      BY <1>0 DEF Inv, DescriptorsOnBlocks, TypeOK
    <3> QED
      BY <1>0, <3>1, <3>2 DEF Inv, DescriptorsOnBlocks, BlocksCount
  <2> QED BY <2>1, <2>2
<1> QED
  BY <1>3, <1>4 DEF Inv, DescriptorsOnBlocks

(* A call that leaves the file alone. *)
LEMMA PlacedOnly ==
  ASSUME Inv, NEW d \in Descriptors, NEW b, NEW i, NEW o, Place(d, b, i, o),
         UNCHANGED <<occupied, memory>>,
         result'.call \in {"none", "open", "close", "write", "read", "resize"},
         b \in 0..BlocksCount, i \in Int, i >= b - 1, o \in 0..BlockSize,
         mode[d] # "closed"
  PROVE  Inv'
<1>1. /\ occupied \in Seq(0..BlockSize) /\ Len(occupied) \in BlocksCount..MaxBlocks
      /\ memory \in Seq(Bytes) /\ Len(memory) = Len(occupied) * BlockSize
  BY LenProperties, FileAssumption DEF Inv, DescriptorsOnBlocks, TypeOK, BlocksCount
<1> QED
  BY <1>1, Placed DEF BlocksCount

-------------------------------------------------------------------------------
(* The calls.                                                                *)

LEMMA InitInv == Init => Inv
<1> SUFFICES ASSUME Init PROVE Inv
  OBVIOUS
<1>1. TypeOK
  BY FileAssumption, EmptySeq DEF Init, TypeOK, BlocksCount
<1>2. BlocksCount = 0
  BY DEF Init, BlocksCount
<1> QED
  BY <1>1, <1>2 DEF Init, Inv, DescriptorsOnBlocks

LEMMA OpenInv ==
  ASSUME Inv, NEW d \in Descriptors, NEW m \in Modes, Open(d, m)
  PROVE  Inv'
<1>0. TypeOK /\ BlocksCount \in Nat /\ MaxBlocks \in Nat \ {0} /\ BlockSize \in Nat
      /\ BlocksCount' = BlocksCount
  BY LenProperties, FileAssumption DEF Inv, DescriptorsOnBlocks, TypeOK, BlocksCount, Open
<1>1. TypeOK'
  BY <1>0 DEF Open, Returns, TypeOK
<1>2. ASSUME NEW c \in Descriptors
      PROVE  /\ block'[c] <= BlocksCount'
             /\ block'[c] > 0 => index'[c] >= block'[c] - 1
             /\ index'[c] >= -1 /\ (mode'[c] = "closed" => block'[c] = 0)
  <2>1. CASE c = d
    <3>1. m # "closed"
      BY FileAssumption
    <3> QED
      BY <1>0, <2>1, <3>1 DEF Open, TypeOK
  <2>2. CASE c # d
    BY <1>0, <2>2 DEF Open, TypeOK, Inv, DescriptorsOnBlocks
  <2> QED BY <2>1, <2>2
<1> QED
  BY <1>1, <1>2 DEF Inv, DescriptorsOnBlocks

LEMMA CloseInv ==
  ASSUME Inv, NEW d \in Descriptors, Close(d)
  PROVE  Inv'
<1>0. TypeOK /\ BlocksCount \in Nat /\ MaxBlocks \in Nat \ {0} /\ BlockSize \in Nat
      /\ BlocksCount' = BlocksCount
  BY LenProperties, FileAssumption DEF Inv, DescriptorsOnBlocks, TypeOK, BlocksCount, Close
<1>1. TypeOK'
  BY <1>0 DEF Close, Returns, TypeOK
<1> QED
  BY <1>0, <1>1 DEF Close, TypeOK, Inv, DescriptorsOnBlocks

(* A call that handles no byte may still seat its descriptor. *)
LEMMA StayInv ==
  ASSUME Inv, NEW d \in Descriptors, StayPut(d), UNCHANGED <<occupied, memory>>,
         result'.call \in {"none", "open", "close", "write", "read", "resize"},
         mode[d] # "closed"
  PROVE  Inv'
  BY Seats, PlacedOnly DEF StayPut

LEMMA Tuples ==
  ASSUME NEW S, NEW n \in Nat, NEW f \in [1..n -> S]
  PROVE  f \in Seq(S) /\ Len(f) = n
<1>1. f \in Seq(S)
  BY SeqDef, Zenon
<1>2. DOMAIN f = 1..n
  OBVIOUS
<1> QED
  BY <1>1, <1>2, LenProperties

LEMMA FillInv ==
  ASSUME Inv, NEW b \in Buffers, NEW s \in Nat, NEW e \in Nat,
         s <= e, e <= s + Len(b), e <= MaxSize, Fill(b, s, e)
  PROVE  /\ occupied' \in Seq(0..BlockSize) /\ memory' \in Seq(Bytes)
         /\ Len(memory') = Len(occupied') * BlockSize
         /\ Len(occupied') = Max({BlocksCount, BlocksFor(e)})
         /\ Len(occupied') \in BlocksCount..MaxBlocks
<1> DEFINE count == Max({BlocksCount, BlocksFor(e)})
<1>1. BlockSize \in Nat \ {0} /\ MaxBlocks \in Nat \ {0} /\ Zero \in Bytes
  BY FileAssumption
<1>2. /\ BlocksCount \in 0..MaxBlocks /\ Len(memory) \in Nat
      /\ occupied \in [1..BlocksCount -> 0..BlockSize]
      /\ memory \in [1..Len(memory) -> Bytes]
  BY <1>1, LenProperties DEF Inv, DescriptorsOnBlocks, TypeOK, BlocksCount
<1>3. Len(b) \in Nat /\ b \in [1..Len(b) -> Bytes]
  BY FileAssumption, LenProperties
<1>4. BlocksFor(e) \in 0..MaxBlocks
  BY <1>1, Blocks DEF MaxSize
<1>5. count \in BlocksCount..MaxBlocks /\ count \in Nat
  BY <1>2, <1>4, TwoInts
<1>6. count * BlockSize \in Nat
  BY <1>1, <1>5
<1> HIDE DEF count
<1>7. memory' \in [1..(count * BlockSize) -> Bytes]
  <2>1. memory' = [a \in 1..(count * BlockSize) |->
                     IF a > s /\ a <= e THEN b[a - s]
                     ELSE IF a <= Len(memory) THEN memory[a] ELSE Zero]
    BY DEF Fill, count
  <2>2. ASSUME NEW a \in 1..(count * BlockSize)
        PROVE  (IF a > s /\ a <= e THEN b[a - s]
                ELSE IF a <= Len(memory) THEN memory[a] ELSE Zero) \in Bytes
    <3>1. CASE a > s /\ a <= e
      <4>1. a - s \in 1..Len(b)
        BY <1>3, <3>1
      <4> QED BY <1>3, <3>1, <4>1
    <3>2. CASE ~(a > s /\ a <= e)
      BY <1>1, <1>2, <3>2
    <3> QED BY <3>1, <3>2
  <2> QED BY <2>1, <2>2
<1>8. occupied' \in [1..count -> 0..BlockSize]
  <2> DEFINE old(i) == IF i <= BlocksCount THEN occupied[i] ELSE 0
             new(i) == Max({old(i), Min({BlockSize, e - (i - 1) * BlockSize})})
  <2>1. occupied' = [i \in 1..count |->
                       IF i * BlockSize > s /\ (i - 1) * BlockSize < e
                       THEN new(i) ELSE old(i)]
    BY DEF Fill, count, Occupation
  <2>2. ASSUME NEW i \in 1..count PROVE old(i) \in 0..BlockSize
    BY <1>1, <1>2
  <2>3. ASSUME NEW i \in 1..count, (i - 1) * BlockSize < e PROVE new(i) \in 0..BlockSize
    <3> DEFINE x == old(i)
               y == (i - 1) * BlockSize
               z == Min({BlockSize, e - y})
    <3>1. x \in 0..BlockSize
      BY <2>2
    <3>2. y \in Int /\ y < e
      BY <1>1, <2>3
    <3> HIDE DEF x, y
    <3>3. z \in 0..BlockSize
      <4>1. BlockSize \in Int /\ e - y \in Int /\ e - y >= 0
        BY <1>1, <3>2
      <4>2. z = IF BlockSize <= e - y THEN BlockSize ELSE e - y
        BY <4>1, TwoInts
      <4> QED BY <1>1, <4>1, <4>2
    <3> HIDE DEF z
    <3>4. Max({x, z}) \in 0..BlockSize
      BY <1>1, <3>1, <3>3, TwoInts
    <3> QED BY <3>4 DEF x, y, z
  <2> HIDE DEF old, new
  <2> QED BY <2>1, <2>2, <2>3
<1>9. /\ memory' \in Seq(Bytes) /\ Len(memory') = count * BlockSize
      /\ occupied' \in Seq(0..BlockSize) /\ Len(occupied') = count
  BY <1>5, <1>6, <1>7, <1>8, Tuples
<1> QED
  BY <1>5, <1>9 DEF count

(* A write that fits goes to the block of its last byte; one that does not    *)
(* leaves its descriptor without a block and with an index past the last.     *)
LEMMA WriteInv ==
  ASSUME Inv, NEW d \in Descriptors, NEW b \in Buffers, Write(d, b)
  PROVE  Inv'
<1> DEFINE s == Address(d)
           e == Min({s + Len(b), MaxSize})
           count == Len(occupied')
<1>1. /\ BlockSize \in Nat \ {0} /\ MaxBlocks \in Nat \ {0}
      /\ Len(b) \in Nat /\ (b # <<>> => Len(b) > 0)
  BY FileAssumption, EmptySeq, LenProperties
<1>2. s \in Nat /\ s <= MaxSize /\ MaxSize \in Nat
  BY Addresses
<1> HIDE DEF s
<1>3. e \in Nat /\ s <= e /\ e <= s + Len(b) /\ e <= MaxSize
      /\ (s + Len(b) <= MaxSize => e = s + Len(b)) /\ (s + Len(b) > MaxSize => e = MaxSize)
  <2>1. e = IF s + Len(b) <= MaxSize THEN s + Len(b) ELSE MaxSize
    <3>1. s + Len(b) \in Int /\ MaxSize \in Int
      BY <1>1, <1>2
    <3> QED BY <3>1, TwoInts
  <2> HIDE DEF e
  <2> QED BY <1>1, <1>2, <2>1
<1>4. Fill(b, s, e) /\ mode[d] # "closed"
  BY DEF Write, Permits, s
<1> HIDE DEF e
<1>5. /\ occupied' \in Seq(0..BlockSize) /\ memory' \in Seq(Bytes)
      /\ Len(memory') = count * BlockSize
      /\ count = Max({BlocksCount, BlocksFor(e)}) /\ count \in BlocksCount..MaxBlocks
  BY <1>2, <1>3, <1>4, FillInv
<1>6. /\ Seat(d) \in 0..BlocksCount /\ SeatIndex(d) \in Int /\ SeatIndex(d) >= Seat(d) - 1
      /\ (BlocksCount > 0 => Seat(d) >= 1) /\ offset[d] \in 0..BlockSize
      /\ BlocksCount \in 0..MaxBlocks
  BY Seats
<1> DEFINE B == BlocksFor(e)
<1>7. B \in Nat /\ (e > 0 => B >= 1 /\ (B - 1) * BlockSize < e /\ e <= B * BlockSize)
  BY <1>3, Blocks
<1> HIDE DEF B
<1>8. B <= count
  BY <1>5, <1>6, <1>7, TwoInts DEF B
<1>9. ASSUME NEW k \in 1..MaxBlocks PROVE IndexAt(d, k) \in Int /\ IndexAt(d, k) >= k - 1
  BY <1>6, <1>9 DEF IndexAt
<1>10. CASE b = <<>> /\ StayPut(d) /\ Returns("write", 0, <<>>)
  <2>1. result'.call = "write"
    BY <1>10 DEF Returns
  <2>2. Seat(d) \in 0..count
    BY <1>5, <1>6
  <2> QED
    BY <1>4, <1>5, <1>6, <1>10, <2>1, <2>2, Placed DEF StayPut
<1>11. CASE /\ b # <<>> /\ s + Len(b) <= MaxSize
            /\ Place(d, B, IndexAt(d, B), e - (B - 1) * BlockSize)
            /\ Returns("write", Len(b), <<>>)
  <2>1. e > 0
    BY <1>1, <1>2, <1>3, <1>11
  <2>2. e - (B - 1) * BlockSize \in 0..BlockSize
    BY <1>3, <2>1, Inside DEF B
  <2>3. B \in 1..MaxBlocks /\ B \in 0..count
    BY <1>1, <1>5, <1>6, <1>7, <1>8, <2>1
  <2>4. result'.call = "write"
    BY <1>11 DEF Returns
  <2> QED
    BY <1>4, <1>5, <1>9, <1>11, <2>2, <2>3, <2>4, Placed
<1>12. CASE /\ s + Len(b) > MaxSize
            /\ Place(d, 0, IndexAt(d, MaxBlocks) + 1, 0)
            /\ Returns("write", -1, <<>>)
  <2>1. IndexAt(d, MaxBlocks) + 1 \in Int /\ IndexAt(d, MaxBlocks) + 1 >= 0 - 1
    BY <1>1, <1>9
  <2>2. 0 \in 0..count /\ 0 \in 0..BlockSize
    BY <1>1, <1>5, <1>6
  <2>3. result'.call = "write"
    BY <1>12 DEF Returns
  <2> QED
    BY <1>4, <1>5, <1>12, <2>1, <2>2, <2>3, Placed
<1> QED
  BY <1>10, <1>11, <1>12 DEF Write, s, e, B

(* A read ends inside of the blocks, or runs off the last of them. *)
LEMMA ReadInv ==
  ASSUME Inv, NEW d \in Descriptors, NEW n \in 0..MaxRead, Read(d, n)
  PROVE  Inv'
<1> DEFINE s == Address(d)
           R == ReadableTo(s)
           k == Max({0, Min({n, R - s})})
           i == Min(Gaps(s))
<1>1. /\ BlockSize \in Nat \ {0} /\ MaxBlocks \in Nat \ {0} /\ n \in Nat
      /\ occupied \in [1..BlocksCount -> 0..BlockSize]
  BY FileAssumption, LenProperties DEF Inv, DescriptorsOnBlocks, TypeOK, BlocksCount
<1>2. s \in Nat /\ BlocksCount * BlockSize \in Nat
  BY Addresses
<1>3. /\ Seat(d) \in 0..BlocksCount /\ SeatIndex(d) \in Int /\ SeatIndex(d) >= Seat(d) - 1
      /\ (BlocksCount > 0 => Seat(d) >= 1) /\ offset[d] \in 0..BlockSize
      /\ BlocksCount \in 0..MaxBlocks
  BY Seats
<1>4. /\ result'.call = "read" /\ mode[d] # "closed" /\ UNCHANGED <<occupied, memory>>
      /\ \/ StayPut(d)
         \/ /\ k = n /\ n > 0
            /\ StepTo(d, BlocksFor(s + n), s + n - (BlocksFor(s + n) - 1) * BlockSize)
         \/ /\ k < n /\ Gaps(s) # {}
            /\ StepTo(d, i, Max({occupied[i], s - (i - 1) * BlockSize}))
         \/ /\ k < n /\ Gaps(s) = {} /\ BlocksCount > 0
            /\ Place(d, 0, SeatIndex(d) + BlocksCount - Seat(d) + 1, 0)
  BY DEF Read, Permits, Returns
<1> HIDE DEF s
<1>5. ASSUME Gaps(s) # {}
      PROVE  /\ i \in 1..BlocksCount /\ occupied[i] \in 0..BlockSize
             /\ i * BlockSize > s
  <2>1. Gaps(s) \in SUBSET Nat
    BY <1>1, <1>3 DEF Gaps
  <2>2. i \in Gaps(s)
    BY <1>5, <2>1, Least
  <2> HIDE DEF i
  <2> QED
    BY <1>1, <2>2 DEF Gaps
<1> HIDE DEF i
<1>6. ASSUME NEW b \in 0..BlocksCount, NEW o \in 0..BlockSize, StepTo(d, b, o)
      PROVE  Inv'
  <2>1. SeatIndex(d) + b - Seat(d) \in Int /\ SeatIndex(d) + b - Seat(d) >= b - 1
    BY <1>3
  <2> QED
    BY <1>4, <1>6, <2>1, PlacedOnly DEF StepTo
<1>7. CASE StayPut(d)
  BY <1>4, <1>7, StayInv
<1>8. CASE k = n /\ n > 0
           /\ StepTo(d, BlocksFor(s + n), s + n - (BlocksFor(s + n) - 1) * BlockSize)
  <2>1. R \in Int /\ R <= BlocksCount * BlockSize
    <3>1. CASE Gaps(s) = {}
      BY <1>2, <3>1 DEF ReadableTo
    <3>2. CASE Gaps(s) # {}
      <4> DEFINE x == (i - 1) * BlockSize
                 y == i * BlockSize
      <4>1. R = x + occupied[i]
        BY <3>2 DEF ReadableTo, i
      <4>2. i \in Int /\ i <= BlocksCount /\ BlocksCount \in Int /\ occupied[i] \in 0..BlockSize
        BY <1>3, <1>5, <3>2
      <4>3. x = y - BlockSize /\ x \in Int /\ y \in Int /\ y <= BlocksCount * BlockSize
        BY <4>2, Products
      <4> HIDE DEF x, y, R
      <4> QED
        BY <1>1, <1>2, <4>1, <4>2, <4>3
    <3> QED BY <3>1, <3>2
  <2> HIDE DEF R
  <2>2. s + n <= R
    <3>1. R - s \in Int /\ n \in Int
      BY <1>1, <1>2, <2>1
    <3>2. Min({n, R - s}) = IF n <= R - s THEN n ELSE R - s
      BY <3>1, TwoInts
    <3>3. Min({n, R - s}) \in Int
      BY <3>1, <3>2
    <3>4. k = IF 0 >= Min({n, R - s}) THEN 0 ELSE Min({n, R - s})
      BY <3>3, TwoInts
    <3> QED
      BY <1>1, <1>2, <1>8, <2>1, <3>2, <3>4
  <2>3. s + n \in Nat /\ s + n > 0 /\ s + n <= BlocksCount * BlockSize /\ BlocksCount \in Nat
    BY <1>1, <1>2, <1>3, <1>8, <2>1, <2>2
  <2>4. BlocksFor(s + n) \in 0..BlocksCount
    BY <2>3, Blocks
  <2>5. s + n - (BlocksFor(s + n) - 1) * BlockSize \in 0..BlockSize
    <3>1. PICK t \in Nat : t = s + n
      BY <2>3
    <3>2. t - (BlocksFor(t) - 1) * BlockSize \in 0..BlockSize
      BY <2>3, <3>1, Inside
    <3> DEFINE x == (BlocksFor(t) - 1) * BlockSize
    <3>3. x \in Int
      BY <3>1, Blocks, Products
    <3>4. s + n - x = t - x
      <4> HIDE DEF x
      <4> QED BY <1>1, <1>2, <3>1, <3>3
    <3>5. s + n - x \in 0..BlockSize
      BY <3>2, <3>4, Zenon
    <3> QED BY <3>1, <3>5, Zenon
  <2> QED
    BY <1>6, <1>8, <2>4, <2>5
<1>9. CASE /\ k < n /\ Gaps(s) # {}
           /\ StepTo(d, i, Max({occupied[i], s - (i - 1) * BlockSize}))
  <2> DEFINE x == (i - 1) * BlockSize
             y == i * BlockSize
  <2>1. i \in 1..BlocksCount /\ occupied[i] \in 0..BlockSize /\ y > s
    BY <1>5, <1>9
  <2>2. x = y - BlockSize /\ x \in Int /\ y \in Int
    BY <1>3, <2>1, Products
  <2> HIDE DEF x, y
  <2>3. occupied[i] \in Int /\ s - x \in Int /\ s - x < BlockSize
    BY <1>1, <1>2, <2>1, <2>2
  <2>4. Max({occupied[i], s - x}) = IF occupied[i] >= s - x THEN occupied[i] ELSE s - x
    BY <2>3, TwoInts
  <2>5. Max({occupied[i], s - x}) \in 0..BlockSize
    BY <1>1, <2>1, <2>3, <2>4
  <2>6. i \in 0..BlocksCount
    BY <1>3, <2>1
  <2> QED
    BY <1>6, <1>9, <2>5, <2>6 DEF x
<1>10. CASE Place(d, 0, SeatIndex(d) + BlocksCount - Seat(d) + 1, 0)
  <2>1. /\ SeatIndex(d) + BlocksCount - Seat(d) + 1 \in Int
        /\ SeatIndex(d) + BlocksCount - Seat(d) + 1 >= 0 - 1
        /\ 0 \in 0..BlocksCount /\ 0 \in 0..BlockSize
    BY <1>1, <1>3
  <2> QED
    BY <1>4, <1>10, <2>1, PlacedOnly
<1> QED
  BY <1>4, <1>7, <1>8, <1>9, <1>10

(* Growing adds empty blocks behind the others. *)
LEMMA GrowInv ==
  ASSUME Inv, NEW n \in 0..MaxSize, Grow(n)
  PROVE  Inv'
<1> DEFINE more == BlocksFor(n) - BlocksCount
           blanks == [i \in 1..more |-> 0]
           zeros == [a \in 1..(more * BlockSize) |-> Zero]
<1>0. BlockSize \in Nat \ {0} /\ MaxBlocks \in Nat \ {0} /\ Zero \in Bytes /\ TypeOK
  BY FileAssumption DEF Inv, DescriptorsOnBlocks
<1>1. MaxSize \in Nat /\ n \in Nat
  BY <1>0, Products DEF MaxSize
<1>2. /\ occupied \in Seq(0..BlockSize) /\ Len(occupied) = BlocksCount /\ BlocksCount \in Nat
      /\ memory \in Seq(Bytes) /\ Len(memory) = BlocksCount * BlockSize
  BY <1>0, LenProperties DEF TypeOK, BlocksCount
<1>3. BlocksFor(n) \in Nat /\ BlocksFor(n) <= MaxBlocks
  BY <1>0, <1>1, Blocks DEF MaxSize
<1>4. more \in Nat
  BY <1>2, <1>3 DEF Grow
<1>5. more * BlockSize \in Nat
  BY <1>0, <1>4
<1>6. blanks \in Seq(0..BlockSize) /\ Len(blanks) = more
  <2>1. blanks \in [1..more -> 0..BlockSize]
    BY <1>0
  <2> HIDE DEF more, blanks
  <2> QED BY <1>4, <2>1, Tuples
<1>7. zeros \in Seq(Bytes) /\ Len(zeros) = more * BlockSize
  <2>1. zeros \in [1..(more * BlockSize) -> Bytes]
    BY <1>0
  <2> HIDE DEF more, zeros
  <2> QED BY <1>5, <2>1, Tuples
<1>8. occupied' = occupied \o blanks /\ memory' = memory \o zeros
      /\ result'.call = "resize" /\ UNCHANGED descVars
  BY DEF Grow, Resized
<1> HIDE DEF blanks, zeros
<1>9. /\ occupied' \in Seq(0..BlockSize) /\ Len(occupied') = BlocksCount + more
      /\ memory' \in Seq(Bytes) /\ Len(memory') = BlocksCount * BlockSize + more * BlockSize
  <2> HIDE DEF more
  <2>1. /\ occupied \o blanks \in Seq(0..BlockSize)
        /\ Len(occupied \o blanks) = Len(occupied) + Len(blanks)
    BY <1>2, <1>6, ConcatProperties
  <2>2. memory \o zeros \in Seq(Bytes) /\ Len(memory \o zeros) = Len(memory) + Len(zeros)
    BY <1>2, <1>7, ConcatProperties
  <2> QED BY <1>2, <1>6, <1>7, <1>8, <2>1, <2>2
<1>10. BlocksCount + more = BlocksFor(n)
  BY <1>2, <1>3
<1>11. BlocksCount * BlockSize + more * BlockSize = (BlocksCount + more) * BlockSize
  <2> HIDE DEF more
  <2> QED BY <1>0, <1>2, <1>4
<1>12. BlocksCount' = BlocksFor(n) /\ BlocksCount <= BlocksCount'
  BY <1>2, <1>3, <1>4, <1>9, <1>10 DEF BlocksCount
<1>13. TypeOK'
  BY <1>0, <1>3, <1>8, <1>9, <1>10, <1>11, <1>12 DEF TypeOK, descVars, BlocksCount
<1> QED
  BY SMTT(30), <1>0, <1>2, <1>3, <1>8, <1>12, <1>13 DEF Inv, DescriptorsOnBlocks, TypeOK, descVars

(* Shrinking goes by the index: a descriptor it leaves has an index before     *)
(* the new end, and so, an index being never too low, a block before it.       *)
LEMMA ShrinkInv ==
  ASSUME Inv, NEW n \in 0..MaxSize, Shrink(n)
  PROVE  Inv'
<1> DEFINE B == BlocksFor(n)
           count == Max({B, 1})
           end == n - (count - 1) * BlockSize
           moved(d) == mode[d] # "closed" /\ index[d] >= count
           at(d) == IF moved(d) THEN count - 1 ELSE index[d]
<1>0. BlockSize \in Nat \ {0} /\ MaxBlocks \in Nat \ {0} /\ TypeOK
  BY FileAssumption DEF Inv, DescriptorsOnBlocks
<1>1. MaxSize \in Nat /\ n \in Nat
  BY <1>0, Products DEF MaxSize
<1>2. /\ occupied \in Seq(0..BlockSize) /\ occupied \in [1..BlocksCount -> 0..BlockSize]
      /\ BlocksCount \in Nat /\ BlocksCount <= MaxBlocks
      /\ memory \in Seq(Bytes) /\ Len(memory) = BlocksCount * BlockSize
      /\ memory \in [1..Len(memory) -> Bytes]
  BY <1>0, LenProperties DEF TypeOK, BlocksCount
<1>3. B \in Nat /\ B < BlocksCount /\ n <= B * BlockSize
      /\ (n > 0 => B >= 1 /\ (B - 1) * BlockSize < n) /\ (n = 0 => B = 0)
  BY <1>1, Blocks DEF Shrink
<1>4. /\ occupied' = [i \in 1..count |-> IF i = count THEN end ELSE occupied[i]]
      /\ memory' = SubSeq(memory, 1, count * BlockSize)
      /\ index' = [d \in Descriptors |-> at(d)]
      /\ block' = [d \in Descriptors |-> IF moved(d) THEN count ELSE block[d]]
      /\ offset' = [d \in Descriptors |->
                      IF mode[d] # "closed" /\ at(d) = count - 1
                      THEN Min({offset[d], end}) ELSE offset[d]]
      /\ result'.call = "resize" /\ UNCHANGED mode
  BY DEF Shrink, Behind, OffsetCut, Resized
<1>5. end \in 0..BlockSize
  <2>1. CASE n = 0
    <3>1. B = 0
      BY <1>3, <2>1
    <3> HIDE DEF B
    <3>2. count = 1
      BY <3>1, TwoInts
    <3> QED BY <1>0, <2>1, <3>2
  <2>2. CASE n > 0
    <3>1. n - (B - 1) * BlockSize \in 0..BlockSize /\ B >= 1
      BY <1>1, <1>3, <2>2, Inside
    <3> HIDE DEF B
    <3>2. count = B
      BY <1>3, <3>1, TwoInts
    <3> QED BY <3>1, <3>2
  <2> QED BY <1>1, <2>1, <2>2
<1>6. count \in Nat /\ count >= 1 /\ count <= BlocksCount
  <2> HIDE DEF B
  <2> QED BY <1>2, <1>3, TwoInts
<1> HIDE DEF end, B, count
<1>7. occupied' \in Seq(0..BlockSize) /\ Len(occupied') = count
  <2>1. occupied' \in [1..count -> 0..BlockSize]
    BY <1>2, <1>4, <1>5, <1>6
  <2> QED BY <1>6, <2>1, Tuples
<1>8. memory' \in Seq(Bytes) /\ Len(memory') = count * BlockSize
  <2> DEFINE x == count * BlockSize
  <2>1. x \in Nat /\ x <= Len(memory)
    BY <1>0, <1>2, <1>6, Products
  <2> HIDE DEF x
  <2>2. \A i \in 1..x : memory[i] \in Bytes
    BY <1>2, <2>1
  <2>3. SubSeq(memory, 1, x) \in Seq(Bytes)
        /\ Len(SubSeq(memory, 1, x)) = IF 1 <= x THEN x - 1 + 1 ELSE 0
    BY <2>1, <2>2, SubSeqProperties
  <2>4. Len(SubSeq(memory, 1, x)) = x
    BY <2>1, <2>3
  <2> QED BY <1>4, <2>3, <2>4 DEF x
<1>9. BlocksCount' = count
  BY <1>7 DEF BlocksCount
<1>10. ASSUME NEW d \in Descriptors
       PROVE  /\ index'[d] \in Int /\ index'[d] >= -1
              /\ block'[d] \in 0..MaxBlocks /\ block'[d] <= count
              /\ block'[d] > 0 => index'[d] >= block'[d] - 1
              /\ mode[d] = "closed" => block'[d] = 0
              /\ offset'[d] \in 0..BlockSize
  <2>1. /\ index[d] \in Int /\ index[d] >= -1 /\ block[d] \in 0..MaxBlocks
        /\ block[d] > 0 => index[d] >= block[d] - 1
        /\ mode[d] = "closed" => block[d] = 0
        /\ offset[d] \in 0..BlockSize
    BY <1>0 DEF Inv, DescriptorsOnBlocks, TypeOK
  <2>2. index'[d] = at(d) /\ block'[d] = IF moved(d) THEN count ELSE block[d]
    BY <1>4
  <2>3. offset'[d] \in 0..BlockSize
    <3>1. Min({offset[d], end}) \in 0..BlockSize
      <4>1. offset[d] \in Int /\ end \in Int
        BY <1>0, <1>5, <2>1
      <4>2. Min({offset[d], end}) = IF offset[d] <= end THEN offset[d] ELSE end
        BY <4>1, TwoInts
      <4> QED BY <1>5, <2>1, <4>2
    <3> QED BY <1>4, <2>1, <3>1
  <2>4. CASE moved(d)
    <3>1. index'[d] = count - 1 /\ block'[d] = count /\ mode[d] # "closed"
      BY <2>2, <2>4
    <3> QED
      BY <1>0, <1>2, <1>6, <2>3, <3>1
  <2>5. CASE ~moved(d)
    <3>1. block[d] <= count
      BY <1>6, <2>1, <2>5
    <3> QED BY <2>1, <2>2, <2>3, <2>5, <3>1
  <2> QED BY <2>4, <2>5
<1>11. TypeOK'
  <2>1. /\ index' \in [Descriptors -> Int] /\ block' \in [Descriptors -> 0..MaxBlocks]
        /\ offset' \in [Descriptors -> 0..BlockSize]
    BY <1>4, <1>10
  <2>2. BlocksCount' <= MaxBlocks /\ Len(memory') = BlocksCount' * BlockSize
    BY <1>0, <1>2, <1>6, <1>8, <1>9
  <2>3. mode' \in [Descriptors -> Modes \cup {"closed"}]
    BY <1>0, <1>4 DEF TypeOK
  <2> QED
    BY <1>4, <1>7, <1>8, <2>1, <2>2, <2>3 DEF TypeOK
<1> QED
  BY <1>4, <1>9, <1>10, <1>11 DEF Inv, DescriptorsOnBlocks

-------------------------------------------------------------------------------
LEMMA NextInv == Inv /\ [Next]_vars => Inv'
<1> SUFFICES ASSUME Inv, [Next]_vars PROVE Inv'
  OBVIOUS
<1>1. ASSUME NEW d \in Descriptors, NEW m \in Modes, Open(d, m) PROVE Inv'
  BY <1>1, OpenInv
<1>2. ASSUME NEW d \in Descriptors, Close(d) PROVE Inv'
  BY <1>2, CloseInv
<1>3. ASSUME NEW d \in Descriptors, WriteRefused(d) PROVE Inv'
  BY <1>3, StayInv DEF WriteRefused, Refuse, Returns
<1>4. ASSUME NEW d \in Descriptors, ReadRefused(d) PROVE Inv'
  BY <1>4, StayInv DEF ReadRefused, Refuse, Returns
<1>5. ASSUME NEW d \in Descriptors, NEW b \in Buffers, Write(d, b) PROVE Inv'
  BY <1>5, WriteInv
<1>6. ASSUME NEW d \in Descriptors, NEW n \in 0..MaxRead, Read(d, n) PROVE Inv'
  BY <1>6, ReadInv
<1>7. ASSUME NEW n \in 0..MaxSize, Grow(n) \/ Shrink(n) PROVE Inv'
  BY <1>7, GrowInv, ShrinkInv
<1>8. CASE ResizeRefused
  BY <1>8 DEF ResizeRefused, Resized, descVars, Inv, DescriptorsOnBlocks, TypeOK, BlocksCount
<1>9. CASE UNCHANGED vars
  BY <1>9 DEF vars, descVars, Inv, DescriptorsOnBlocks, TypeOK, BlocksCount
<1> QED
  BY <1>1, <1>2, <1>3, <1>4, <1>5, <1>6, <1>7, <1>8, <1>9 DEF Next

(* No call of ufs_write, ufs_read or ufs_resize (userfs.c:275, 325, 427)       *)
(* leaves any descriptor on a block that is no longer in the list of its       *)
(* file, although a shrinking looks only at indexes; and the file keeps its    *)
(* bounds.                                                                     *)
THEOREM DescriptorsStayOnBlocks == Spec => []DescriptorsOnBlocks
<1>1. Inv => DescriptorsOnBlocks
  BY DEF Inv
<1> QED
  BY <1>1, InitInv, NextInv, PTL DEF Spec

-------------------------------------------------------------------------------
(* No gap before a write.  A descriptor without a block has the offset 0, so  *)
(* that it fits the first block it is seated at, however empty.               *)
GapInv ==
  /\ NoGapBeforeWrite
  /\ \A d \in Descriptors : block[d] = 0 => offset[d] = 0

(* The blocks keep what they hold. *)
Kept == \A i \in 1..BlocksCount : occupied'[i] >= occupied[i]

LEMMA Entries ==
  ASSUME Inv
  PROVE  /\ BlocksCount \in Nat /\ BlockSize \in Nat \ {0}
         /\ \A i \in 1..BlocksCount : occupied[i] \in 0..BlockSize
  BY LenProperties, FileAssumption DEF Inv, DescriptorsOnBlocks, TypeOK, BlocksCount

LEMMA SeatHolds ==
  ASSUME Inv, GapInv, NEW d \in Descriptors
  PROVE  /\ Seat(d) > 0 => offset[d] <= occupied[Seat(d)]
         /\ Seat(d) = 0 => offset[d] = 0
<1>1. block[d] \in Nat /\ BlocksCount \in Nat
  BY LenProperties DEF Inv, DescriptorsOnBlocks, TypeOK, BlocksCount
<1>2. CASE LacksBlock(d)
  <2>1. offset[d] = 0 /\ Seat(d) = 1 /\ 1 \in 1..BlocksCount
    BY <1>1, <1>2 DEF GapInv, LacksBlock, Seat
  <2>2. occupied[1] \in 0..BlockSize
    BY <2>1, Entries
  <2> QED
    BY <2>1, <2>2, FileAssumption
<1>3. CASE ~LacksBlock(d)
  BY <1>1, <1>3 DEF GapInv, NoGapBeforeWrite, Seat
<1> QED
  BY <1>2, <1>3

LEMMA GapPlaced ==
  ASSUME Inv, GapInv, NEW d \in Descriptors, NEW b \in Nat, NEW i, NEW o \in Nat,
         Place(d, b, i, o), Kept, occupied' \in Seq(0..BlockSize), Len(occupied') >= BlocksCount,
         b > 0 => o <= occupied'[b], b = 0 => o = 0
  PROVE  GapInv'
<1>1. block' = [block EXCEPT ![d] = b] /\ offset' = [offset EXCEPT ![d] = o]
  BY DEF Place
<1>2. ASSUME NEW c \in Descriptors
      PROVE  /\ block'[c] > 0 => offset'[c] <= occupied'[block'[c]]
             /\ block'[c] = 0 => offset'[c] = 0
  <2>1. CASE c = d
    <3>1. block'[c] = b /\ offset'[c] = o
      BY <1>1, <2>1 DEF Inv, DescriptorsOnBlocks, TypeOK
    <3> QED
      BY <3>1
  <2>2. CASE c # d
    <3>1. block'[c] = block[c] /\ offset'[c] = offset[c]
      BY <1>1, <2>2 DEF Inv, DescriptorsOnBlocks, TypeOK
    <3>2. /\ block[c] \in Nat /\ block[c] <= BlocksCount /\ BlocksCount \in Nat
          /\ offset[c] \in 0..BlockSize /\ BlockSize \in Nat
          /\ block[c] > 0 => offset[c] <= occupied[block[c]]
          /\ block[c] = 0 => offset[c] = 0
      BY SMTT(30), LenProperties, FileAssumption
      DEF Inv, DescriptorsOnBlocks, TypeOK, BlocksCount, GapInv, NoGapBeforeWrite
    <3>3. CASE block[c] > 0
      <4> DEFINE j == block[c]
      <4>1. j \in 1..BlocksCount /\ j \in 1..Len(occupied')
        BY <3>2, <3>3, LenProperties
      <4> HIDE DEF j
      <4>2. occupied[j] \in 0..BlockSize /\ occupied'[j] \in 0..BlockSize
        BY <4>1, LenProperties DEF Inv, DescriptorsOnBlocks, TypeOK, BlocksCount
      <4>3. occupied'[j] >= occupied[j]
        BY <4>1 DEF Kept
      <4>4. offset[c] <= occupied'[j]
        BY <3>2, <3>3, <4>2, <4>3 DEF j
      <4> QED
        BY <3>1, <3>3, <4>4 DEF j
    <3>4. CASE block[c] = 0
      BY <3>1, <3>2, <3>4
    <3> QED
      BY <3>2, <3>3, <3>4
  <2> QED
    BY <2>1, <2>2
<1> QED
  BY <1>2 DEF GapInv, NoGapBeforeWrite

(* A call that leaves the file alone. *)
LEMMA FileKept ==
  ASSUME Inv, occupied' = occupied
  PROVE  /\ Kept /\ occupied' \in Seq(0..BlockSize) /\ Len(occupied') >= BlocksCount
         /\ BlocksCount \in Nat /\ BlockSize \in Nat \ {0}
         /\ \A i \in 1..BlocksCount : occupied[i] \in 0..BlockSize
<1>1. occupied \in Seq(0..BlockSize)
  BY DEF Inv, DescriptorsOnBlocks, TypeOK
<1> QED
  BY <1>1, Entries DEF Kept, BlocksCount

LEMMA StayGap ==
  ASSUME Inv, GapInv, NEW d \in Descriptors, StayPut(d), occupied' = occupied
  PROVE  GapInv'
<1>1. Seat(d) \in Nat /\ offset[d] \in Nat
  BY Seats, FileAssumption
<1> QED
  BY <1>1, FileKept, SeatHolds, GapPlaced DEF StayPut

(* What a write fills. *)
LEMMA FillGap ==
  ASSUME Inv, NEW b \in Buffers, NEW s \in Nat, NEW e \in Nat,
         s <= e, e <= s + Len(b), e <= MaxSize, Fill(b, s, e)
  PROVE  /\ Kept
         /\ e > s => occupied'[BlocksFor(e)] >= e - (BlocksFor(e) - 1) * BlockSize
<1> DEFINE count == Max({BlocksCount, BlocksFor(e)})
           old(i) == IF i <= BlocksCount THEN occupied[i] ELSE 0
           new(i) == Max({old(i), Min({BlockSize, e - (i - 1) * BlockSize})})
<1>1. /\ BlocksCount \in Nat /\ BlockSize \in Nat \ {0}
      /\ \A i \in 1..BlocksCount : occupied[i] \in 0..BlockSize
  BY Entries
<1>2. BlocksFor(e) \in Nat /\ (e > 0 => BlocksFor(e) >= 1)
  BY Blocks
<1>3. count \in Nat /\ count >= BlocksCount /\ count >= BlocksFor(e)
  BY <1>1, <1>2, TwoInts
<1>4. occupied' = [i \in 1..count |->
                     IF i * BlockSize > s /\ (i - 1) * BlockSize < e THEN new(i) ELSE old(i)]
  BY DEF Fill, Occupation
<1>5. ASSUME NEW i \in 1..count
      PROVE  new(i) \in Int /\ old(i) \in Int /\ new(i) >= old(i)
             /\ new(i) >= Min({BlockSize, e - (i - 1) * BlockSize})
  <2>1. old(i) \in Int
    BY <1>1, <1>3
  <2>2. e - (i - 1) * BlockSize \in Int /\ BlockSize \in Int
    BY <1>1, <1>3, Products
  <2> DEFINE z == Min({BlockSize, e - (i - 1) * BlockSize})
  <2>3. z \in Int
    BY ZenonT(30), <2>2, TwoInts
  <2> HIDE DEF old, z
  <2>4. new(i) = Max({old(i), z})
    BY DEF z
  <2> HIDE DEF new
  <2>5. new(i) \in Int /\ new(i) >= old(i) /\ new(i) >= z
    BY <2>1, <2>3, <2>4, TwoInts
  <2> QED
    BY <2>1, <2>5 DEF z
<1> HIDE DEF count, new
<1>6. Kept
  <2> SUFFICES ASSUME NEW i \in 1..BlocksCount PROVE occupied'[i] >= occupied[i]
    BY DEF Kept
  <2>1. i \in 1..count /\ old(i) = occupied[i] /\ occupied[i] \in Int
    BY <1>1, <1>3
  <2> HIDE DEF old
  <2>2. occupied'[i] = new(i) \/ occupied'[i] = old(i)
    BY <1>4, <2>1
  <2>3. new(i) \in Int /\ new(i) >= old(i)
    BY <1>5, <2>1 DEF old
  <2> QED
    BY <2>1, <2>2, <2>3
<1>7. ASSUME e > s PROVE occupied'[BlocksFor(e)] >= e - (BlocksFor(e) - 1) * BlockSize
  <2> DEFINE q == BlocksFor(e)
             x == (q - 1) * BlockSize
             y == q * BlockSize
  <2>1. q \in 1..count /\ x < e /\ e <= y
    BY <1>2, <1>3, <1>7, Blocks
  <2>2. x = y - BlockSize /\ x \in Int /\ y \in Int
    <3>1. q \in Int
      BY <1>2
    <3> HIDE DEF q
    <3> QED
      BY <3>1, Products, FileAssumption
  <2>3. occupied'[q] = new(q)
    BY <1>4, <1>7, <2>1, <2>2
  <2>4. new(q) \in Int /\ new(q) >= Min({BlockSize, e - x})
    BY <1>5, <2>1
  <2> HIDE DEF x, y, q
  <2>5. Min({BlockSize, e - x}) = e - x
    <3>1. BlockSize \in Int /\ e - x \in Int
      BY <1>1, <2>2
    <3>2. Min({BlockSize, e - x}) = IF BlockSize <= e - x THEN BlockSize ELSE e - x
      BY <3>1, TwoInts
    <3> QED
      BY <1>1, <2>1, <2>2, <3>2
  <2>6. occupied'[q] >= e - x
    BY <2>3, <2>4, <2>5
  <2> QED
    BY <2>6 DEF x, q
<1> QED
  BY <1>6, <1>7

LEMMA WriteGap ==
  ASSUME Inv, GapInv, NEW d \in Descriptors, NEW b \in Buffers, Write(d, b)
  PROVE  GapInv'
<1> DEFINE s == Address(d)
           e == Min({s + Len(b), MaxSize})
<1>1. Len(b) \in Nat /\ (b # <<>> => Len(b) > 0)
  BY FileAssumption, EmptySeq, LenProperties
<1>2. s \in Nat /\ s <= MaxSize /\ MaxSize \in Nat
  BY Addresses
<1> HIDE DEF s
<1>3. e \in Nat /\ s <= e /\ e <= s + Len(b) /\ e <= MaxSize
      /\ (s + Len(b) <= MaxSize => e = s + Len(b))
  <2>1. e = IF s + Len(b) <= MaxSize THEN s + Len(b) ELSE MaxSize
    <3>1. s + Len(b) \in Int /\ MaxSize \in Int
      BY <1>1, <1>2
    <3> QED BY <3>1, TwoInts
  <2> HIDE DEF e
  <2> QED BY <1>1, <1>2, <2>1
<1>4. Fill(b, s, e)
  BY DEF Write, s
<1> HIDE DEF e
<1>5. /\ occupied' \in Seq(0..BlockSize) /\ Len(occupied') >= BlocksCount /\ Kept
      /\ e > s => occupied'[BlocksFor(e)] >= e - (BlocksFor(e) - 1) * BlockSize
  <2>1. occupied' \in Seq(0..BlockSize) /\ Len(occupied') \in BlocksCount..MaxBlocks
    BY <1>2, <1>3, <1>4, FillInv
  <2>2. Kept /\ (e > s => occupied'[BlocksFor(e)] >= e - (BlocksFor(e) - 1) * BlockSize)
    BY <1>2, <1>3, <1>4, FillGap
  <2> QED
    BY <2>1, <2>2, Entries, FileAssumption
<1> DEFINE B == BlocksFor(e)
<1>6. B \in Nat /\ (e > 0 => B >= 1 /\ e - (B - 1) * BlockSize \in 0..BlockSize)
  BY <1>3, Blocks, Inside
<1> HIDE DEF B
<1>7. CASE StayPut(d)
  <2>1. Seat(d) \in Nat /\ offset[d] \in Nat /\ Seat(d) <= BlocksCount /\ BlocksCount \in Nat
    BY Seats, Entries
  <2>2. /\ Seat(d) > 0 => offset[d] <= occupied[Seat(d)]
        /\ Seat(d) = 0 => offset[d] = 0
    BY SeatHolds
  <2>3. Seat(d) > 0 => offset[d] <= occupied'[Seat(d)]
    <3> SUFFICES ASSUME Seat(d) > 0 PROVE offset[d] <= occupied'[Seat(d)]
      OBVIOUS
    <3> DEFINE j == Seat(d)
    <3>1. j \in 1..BlocksCount
      BY <2>1
    <3>2. j \in 1..Len(occupied') /\ offset[d] <= occupied[j] /\ offset[d] \in Nat
      BY <1>5, <2>1, <2>2, <3>1, LenProperties
    <3> HIDE DEF j
    <3>3. occupied'[j] \in 0..BlockSize /\ occupied[j] \in 0..BlockSize
      BY <1>5, <3>1, <3>2, Entries, LenProperties
    <3>4. occupied'[j] >= occupied[j]
      BY <1>5, <3>1 DEF Kept
    <3>5. offset[d] <= occupied'[j]
      BY <3>2, <3>3, <3>4
    <3> QED
      BY <3>5 DEF j
  <2> QED
    BY <1>5, <1>7, <2>1, <2>2, <2>3, GapPlaced DEF StayPut
<1>8. CASE /\ b # <<>> /\ s + Len(b) <= MaxSize
           /\ Place(d, B, IndexAt(d, B), e - (B - 1) * BlockSize)
  <2>1. e > s /\ e > 0
    BY <1>1, <1>2, <1>3, <1>8
  <2> DEFINE o == e - (B - 1) * BlockSize
  <2>2. o \in Nat /\ B \in Nat /\ B # 0 /\ o <= occupied'[B]
    <3>1. o \in 0..BlockSize /\ B >= 1 /\ B \in Nat
      BY <1>6, <2>1
    <3>2. occupied'[B] >= o
      BY <1>5, <2>1 DEF B
    <3>3. o \in Nat /\ B # 0
      <4> HIDE DEF o
      <4> QED
        BY <3>1, Entries
    <3>4. occupied'[B] \in Int
      <4>1. B \in 1..Len(occupied')
        <5>1. Len(occupied') = Max({BlocksCount, B})
          BY <1>2, <1>3, <1>4, FillInv DEF B
        <5>2. Max({BlocksCount, B}) \in Int /\ Max({BlocksCount, B}) >= B
          <6>1. BlocksCount \in Int /\ B \in Int
            BY <3>1, Entries
          <6> QED
            BY <6>1, TwoInts
        <5> QED
          BY <3>1, <5>1, <5>2
      <4>2. occupied'[B] \in 0..BlockSize
        BY <1>5, <4>1, LenProperties
      <4> QED
        BY <4>2
    <3> HIDE DEF o
    <3> QED
      BY <3>1, <3>2, <3>3, <3>4
  <2> HIDE DEF o
  <2>3. Place(d, B, IndexAt(d, B), o)
    BY <1>8 DEF o
  <2> QED
    BY <1>5, <2>2, <2>3, GapPlaced
<1>9. CASE Place(d, 0, IndexAt(d, MaxBlocks) + 1, 0)
  BY <1>5, <1>9, GapPlaced
<1> QED
  BY <1>7, <1>8, <1>9 DEF Write, s, e, B

(* Below the first block with room, and in any block if there is none, every   *)
(* block from byte s on is full; and byte s is never behind what the first     *)
(* with room holds.                                                            *)
LEMMA UpToGap ==
  ASSUME Inv, NEW s \in Nat
  PROVE  /\ Gaps(s) # {} => /\ Min(Gaps(s)) \in 1..BlocksCount
                            /\ Min(Gaps(s)) * BlockSize > s
         /\ \A j \in 1..BlocksCount :
              j * BlockSize > s /\ (Gaps(s) = {} \/ j < Min(Gaps(s))) => occupied[j] = BlockSize
<1>1. /\ BlocksCount \in Nat /\ BlockSize \in Nat \ {0}
      /\ \A i \in 1..BlocksCount : occupied[i] \in 0..BlockSize
  BY Entries
<1>2. Gaps(s) \in SUBSET Nat
  BY <1>1 DEF Gaps
<1>3. Gaps(s) # {} => Min(Gaps(s)) \in Gaps(s) /\ \A j \in Gaps(s) : Min(Gaps(s)) <= j
  BY <1>2, Least
<1>4. ASSUME NEW j \in 1..BlocksCount, j * BlockSize > s, Gaps(s) = {} \/ j < Min(Gaps(s))
      PROVE  occupied[j] = BlockSize
  <2>1. j \notin Gaps(s)
    <3> SUFFICES ASSUME j \in Gaps(s) PROVE FALSE
      OBVIOUS
    <3>1. Min(Gaps(s)) <= j /\ Min(Gaps(s)) \in Nat /\ j < Min(Gaps(s)) /\ j \in Nat
      BY <1>1, <1>2, <1>3, <1>4
    <3> QED
      BY <3>1
  <2>2. ~(occupied[j] < BlockSize) /\ occupied[j] \in 0..BlockSize
    BY <1>1, <1>4, <2>1 DEF Gaps
  <2> QED
    BY <1>1, <2>2
<1>5. Gaps(s) # {} => Min(Gaps(s)) \in 1..BlocksCount /\ Min(Gaps(s)) * BlockSize > s
  BY <1>3 DEF Gaps
<1> QED
  BY <1>4, <1>5

(* A position is not behind what its block holds, so that it is not behind    *)
(* what the first block with room holds either, the blocks before being full. *)
LEMMA BeforeGap ==
  ASSUME Inv, GapInv, NEW d \in Descriptors, Gaps(Address(d)) # {}
  PROVE  LET i == Min(Gaps(Address(d)))
         IN  Address(d) - (i - 1) * BlockSize <= occupied[i]
<1> DEFINE s == Address(d)
           i == Min(Gaps(s))
           j == Seat(d)
<1>1. s \in Nat
  BY Addresses
<1>2. i \in 1..BlocksCount /\ i * BlockSize > s
  BY <1>1, UpToGap
<1>3. /\ BlocksCount \in Nat /\ BlockSize \in Nat \ {0}
      /\ \A k \in 1..BlocksCount : occupied[k] \in 0..BlockSize
  BY Entries
<1>4. j \in 1..BlocksCount /\ offset[d] \in 0..BlockSize /\ offset[d] <= occupied[j]
  BY <1>2, <1>3, Seats, SeatHolds
<1>5. s = (j - 1) * BlockSize + offset[d]
  <2>1. j # 0
    BY <1>3, <1>4
  <2> QED
    BY <2>1 DEF Address
<1> HIDE DEF s, i, j
<1> DEFINE x == (i - 1) * BlockSize
           y == (j - 1) * BlockSize
<1>6. x \in Int /\ y \in Int /\ occupied[i] \in 0..BlockSize
  BY <1>2, <1>3, <1>4, Products
<1>7. CASE i = j
  <2>1. s = x + offset[d] /\ offset[d] <= occupied[i] /\ offset[d] \in Int
    BY <1>3, <1>4, <1>5, <1>7
  <2> HIDE DEF x
  <2>2. occupied[i] \in Int
    BY <1>3, <1>6
  <2>3. s - x = offset[d]
    BY <1>6, <2>1
  <2>4. s - x <= occupied[i]
    BY <2>1, <2>3
  <2> QED
    BY <2>4 DEF x, s, i
<1>8. CASE j < i
  <2>1. y + BlockSize = j * BlockSize /\ j * BlockSize <= x /\ j * BlockSize \in Int
    <3>1. j \in Int /\ i - 1 \in Int /\ j <= i - 1
      BY <1>2, <1>3, <1>4, <1>8
    <3> QED
      BY <1>3, <3>1, Products
  <2> HIDE DEF x, y
  <2>2. s = y + offset[d]
    BY <1>5 DEF y
  <2>3. s - x <= occupied[i]
    BY <1>1, <1>3, <1>4, <1>6, <2>1, <2>2
  <2> QED
    BY <2>3 DEF x, s, i
<1>9. CASE i < j
  <2>1. i * BlockSize <= y /\ i * BlockSize \in Int
    <3>1. i \in Int /\ j - 1 \in Int /\ i <= j - 1
      BY <1>2, <1>3, <1>4, <1>9
    <3> QED
      BY <3>1, Products
  <2> HIDE DEF y
  <2>2. s = y + offset[d]
    BY <1>5 DEF y
  <2> QED
    BY <1>1, <1>2, <1>4, <1>6, <2>1, <2>2, <1>3
<1>10. i \in Int /\ j \in Int
  BY <1>2, <1>3, <1>4
<1>11. i = j \/ j < i \/ i < j
  BY <1>10
<1>12. s - x <= occupied[i]
  BY <1>7, <1>8, <1>9, <1>11 DEF s, i
<1> QED
  BY <1>12 DEF x, s, i

LEMMA ReadGap ==
  ASSUME Inv, GapInv, NEW d \in Descriptors, NEW n \in 0..MaxRead, Read(d, n)
  PROVE  GapInv'
<1> DEFINE s == Address(d)
           R == ReadableTo(s)
           k == Max({0, Min({n, R - s})})
           i == Min(Gaps(s))
<1>1. /\ BlocksCount \in Nat /\ BlockSize \in Nat \ {0}
      /\ \A j \in 1..BlocksCount : occupied[j] \in 0..BlockSize
  BY Entries
<1>2. s \in Nat /\ n \in Nat /\ BlocksCount * BlockSize \in Nat
  BY Addresses, FileAssumption
<1>3. /\ occupied' = occupied
      /\ \/ StayPut(d)
         \/ /\ k = n /\ n > 0
            /\ StepTo(d, BlocksFor(s + n), s + n - (BlocksFor(s + n) - 1) * BlockSize)
         \/ /\ k < n /\ Gaps(s) # {}
            /\ StepTo(d, i, Max({occupied[i], s - (i - 1) * BlockSize}))
         \/ Place(d, 0, SeatIndex(d) + BlocksCount - Seat(d) + 1, 0)
  BY DEF Read
<1>4. Gaps(s) # {} => /\ s - (i - 1) * BlockSize <= occupied[i]
                      /\ i \in 1..BlocksCount
  BY <1>2, BeforeGap, UpToGap
<1>5. \A j \in 1..BlocksCount :
        j * BlockSize > s /\ (Gaps(s) = {} \/ j < i) => occupied[j] = BlockSize
  BY <1>2, UpToGap
<1> HIDE DEF s, i
<1>6. ASSUME NEW b \in 1..BlocksCount, NEW o \in Nat, o <= occupied[b], StepTo(d, b, o)
      PROVE  GapInv'
  <2>1. b \in Nat /\ b # 0
    BY <1>1
  <2> QED
    BY <1>3, <1>6, <2>1, FileKept, GapPlaced DEF StepTo
<1>7. CASE StayPut(d)
  BY <1>3, <1>7, StayGap
<1>8. CASE k = n /\ n > 0
           /\ StepTo(d, BlocksFor(s + n), s + n - (BlocksFor(s + n) - 1) * BlockSize)
  <2>1. R \in Int /\ (Gaps(s) = {} => R = BlocksCount * BlockSize)
        /\ (Gaps(s) # {} => R = (i - 1) * BlockSize + occupied[i])
    <3>1. CASE Gaps(s) = {}
      BY <1>2, <3>1 DEF ReadableTo
    <3>2. CASE Gaps(s) # {}
      <4>1. R = (i - 1) * BlockSize + occupied[i]
        BY <3>2 DEF ReadableTo, i
      <4>2. (i - 1) * BlockSize \in Int /\ occupied[i] \in Int
        BY <1>1, <1>4, <3>2, Products
      <4> HIDE DEF R
      <4> QED
        BY <3>2, <4>1, <4>2
    <3> QED BY <3>1, <3>2
  <2> HIDE DEF R
  <2>2. s + n <= R
    <3>1. R - s \in Int /\ n \in Int
      BY <1>2, <2>1
    <3>2. Min({n, R - s}) = IF n <= R - s THEN n ELSE R - s
      BY <3>1, TwoInts
    <3> DEFINE z == Min({n, R - s})
    <3>3. z \in Int
      BY <3>1, <3>2
    <3>4. k = Max({0, z})
      BY DEF R, z
    <3> HIDE DEF z
    <3>5. Max({0, z}) = IF 0 >= z THEN 0 ELSE z
      BY <3>3, TwoInts
    <3>6. z = n
      <4> HIDE DEF k
      <4> QED
        BY <1>2, <1>8, <3>3, <3>4, <3>5
    <3> QED
      BY <1>2, <2>1, <3>2, <3>6 DEF z
  <2>3. PICK t \in Nat : t = s + n
    BY <1>2
  <2>4. t > 0 /\ t > s /\ t <= R
    BY <1>2, <1>8, <2>2, <2>3
  <2> DEFINE b == BlocksFor(t)
             x == (b - 1) * BlockSize
  <2>5. /\ b \in Nat /\ b >= 1 /\ x < t /\ t <= b * BlockSize /\ t - x \in 0..BlockSize
        /\ \A m \in Nat : t <= m * BlockSize => b <= m
    BY <2>4, Blocks, Inside
  <2> HIDE DEF b
  <2>6. x \in Int /\ b * BlockSize \in Int /\ b * BlockSize > s
    BY <1>2, <2>4, <2>5, Products
  <2>7. b \in 1..BlocksCount /\ t - x <= occupied[b]
    <3>1. CASE Gaps(s) = {}
      <4>1. b <= BlocksCount
        BY <1>1, <2>1, <2>4, <2>5, <3>1
      <4>2. b \in 1..BlocksCount
        BY <1>1, <2>5, <4>1
      <4>3. occupied[b] = BlockSize
        BY <1>5, <2>6, <3>1, <4>2
      <4> HIDE DEF x
      <4> QED
        BY <2>5, <4>2, <4>3, <1>1
    <3>2. CASE Gaps(s) # {}
      <4> DEFINE z == (i - 1) * BlockSize
      <4>1. i \in Nat /\ i * BlockSize = z + BlockSize /\ z \in Int /\ occupied[i] \in 0..BlockSize
        <5>1. i \in 1..BlocksCount
          BY <1>4, <3>2
        <5>2. i \in Int /\ i \in Nat
          BY <1>1, <5>1
        <5>3. i * BlockSize \in Int /\ z = i * BlockSize - BlockSize
          BY <5>2, Products
        <5> HIDE DEF z
        <5> QED
          BY <1>1, <5>1, <5>2, <5>3
      <4>2. t <= i * BlockSize
        <5>1. R = z + occupied[i]
          BY <2>1, <3>2
        <5> HIDE DEF z
        <5> QED
          BY <1>1, <2>1, <2>4, <4>1, <5>1
      <4>3. b <= i /\ b \in 1..BlocksCount
        <5>1. b <= i
          BY <2>5, <4>1, <4>2
        <5> QED
          BY <1>1, <1>4, <2>5, <3>2, <5>1
      <4>4. CASE b = i
        <5>1. R = x + occupied[i]
          BY <2>1, <3>2, <4>4
        <5> HIDE DEF x
        <5> QED
          BY <1>1, <2>1, <2>4, <2>6, <4>1, <4>3, <4>4, <5>1
      <4>5. CASE b # i
        <5>1. b < i
          BY <2>5, <4>1, <4>3, <4>5
        <5>2. occupied[b] = BlockSize
          BY <1>5, <2>6, <4>3, <5>1
        <5> HIDE DEF x
        <5> QED
          BY <1>1, <2>5, <4>3, <5>2
      <4> QED BY <4>4, <4>5
    <3> QED BY <3>1, <3>2
  <2> DEFINE o == t - x
  <2>8. o \in Nat /\ o <= occupied[b]
    <3>1. o \in 0..BlockSize /\ o <= occupied[b]
      BY <2>5, <2>7
    <3> HIDE DEF o
    <3> QED BY <1>1, <3>1
  <2>9. StepTo(d, b, o)
    <3>1. s + n - x = t - x
      <4> HIDE DEF x
      <4> QED BY <1>2, <2>3, <2>6
    <3> QED BY <1>8, <2>3, <3>1, Zenon DEF b, x, o
  <2> HIDE DEF o
  <2> QED
    BY <1>6, <2>7, <2>8, <2>9
<1>9. CASE k < n /\ Gaps(s) # {}
           /\ StepTo(d, i, Max({occupied[i], s - (i - 1) * BlockSize}))
  <2> DEFINE x == (i - 1) * BlockSize
  <2>1. i \in 1..BlocksCount /\ occupied[i] \in 0..BlockSize /\ s - x <= occupied[i]
    BY <1>1, <1>4, <1>9
  <2>2. x \in Int
    BY <1>1, <2>1, Products
  <2> HIDE DEF x
  <2>3. occupied[i] \in Int /\ s - x \in Int
    BY <1>1, <1>2, <2>1, <2>2
  <2>4. Max({occupied[i], s - x}) = occupied[i]
    <3>1. Max({occupied[i], s - x}) = IF occupied[i] >= s - x THEN occupied[i] ELSE s - x
      BY <2>3, TwoInts
    <3> QED BY <2>1, <2>3, <3>1
  <2>5. StepTo(d, i, occupied[i])
    BY <1>9, <2>4 DEF x
  <2>6. occupied[i] \in Nat /\ occupied[i] <= occupied[i]
    BY <1>1, <2>1
  <2> QED
    BY <1>6, <2>1, <2>5, <2>6
<1>10. CASE Place(d, 0, SeatIndex(d) + BlocksCount - Seat(d) + 1, 0)
  BY <1>3, <1>10, FileKept, GapPlaced
<1> QED
  BY <1>3, <1>7, <1>8, <1>9, <1>10

(* A call that moves no descriptor and only adds to the file. *)
LEMMA GrowGap ==
  ASSUME Inv, GapInv, NEW n \in 0..MaxSize, Grow(n)
  PROVE  GapInv'
<1> DEFINE more == BlocksFor(n) - BlocksCount
           blanks == [i \in 1..more |-> 0]
<1>1. occupied \in Seq(0..BlockSize) /\ Len(occupied) = BlocksCount /\ BlocksCount \in Nat
  BY LenProperties DEF Inv, DescriptorsOnBlocks, TypeOK, BlocksCount
<1>2. more \in Nat
  <2>1. MaxSize \in Nat
    BY FileAssumption, Products DEF MaxSize
  <2>2. BlocksFor(n) \in Nat
    BY <2>1, Blocks
  <2> QED
    BY <1>1, <2>2 DEF Grow
<1>3. blanks \in Seq(0..BlockSize)
  <2>1. blanks \in [1..more -> 0..BlockSize]
    BY FileAssumption
  <2> HIDE DEF more, blanks
  <2> QED BY <1>2, <2>1, Tuples
<1>4. occupied' = occupied \o blanks /\ block' = block /\ offset' = offset
  BY DEF Grow, descVars
<1> HIDE DEF blanks
<1>5. \A i \in 1..BlocksCount : occupied'[i] = occupied[i]
  BY <1>1, <1>3, <1>4, ConcatProperties
<1>6. ASSUME NEW d \in Descriptors
      PROVE  /\ block'[d] > 0 => offset'[d] <= occupied'[block'[d]]
             /\ block'[d] = 0 => offset'[d] = 0
  <2>1. block[d] \in Nat /\ block[d] <= BlocksCount
    BY FileAssumption DEF Inv, DescriptorsOnBlocks, TypeOK
  <2>2. block[d] > 0 => occupied'[block[d]] = occupied[block[d]]
    BY <1>1, <1>5, <2>1
  <2> QED
    BY <1>4, <2>2 DEF GapInv, NoGapBeforeWrite
<1> QED
  BY <1>6 DEF GapInv, NoGapBeforeWrite

(* Shrinking moves back, and to no further than the new end, every descriptor  *)
(* that is on the new last block: its index is at least that block's.          *)
LEMMA ShrinkGap ==
  ASSUME Inv, GapInv, NEW n \in 0..MaxSize, Shrink(n)
  PROVE  GapInv'
<1> DEFINE B == BlocksFor(n)
           count == Max({B, 1})
           end == n - (count - 1) * BlockSize
           moved(d) == mode[d] # "closed" /\ index[d] >= count
           at(d) == IF moved(d) THEN count - 1 ELSE index[d]
           cut(d) == mode[d] # "closed" /\ at(d) = count - 1
<1>1. BlockSize \in Nat \ {0} /\ BlocksCount \in Nat /\ MaxSize \in Nat /\ n \in Nat
  BY Entries, FileAssumption, Products DEF MaxSize
<1>2. /\ occupied' = [i \in 1..count |-> IF i = count THEN end ELSE occupied[i]]
      /\ block' = [d \in Descriptors |-> IF moved(d) THEN count ELSE block[d]]
      /\ offset' = [d \in Descriptors |->
                      IF cut(d) THEN Min({offset[d], end}) ELSE offset[d]]
  BY DEF Shrink, Behind, OffsetCut
<1>3. B \in Nat /\ n <= B * BlockSize /\ (n > 0 => B >= 1 /\ (B - 1) * BlockSize < n)
      /\ (n = 0 => B = 0)
  BY <1>1, Blocks
<1>4. count \in Nat /\ count >= 1 /\ end \in Nat
  <2>1. CASE n = 0
    <3>1. B = 0
      BY <1>3, <2>1
    <3> HIDE DEF B
    <3>2. count = 1
      BY <3>1, TwoInts
    <3> QED BY <1>1, <2>1, <3>2
  <2>2. CASE n > 0
    <3>1. n - (B - 1) * BlockSize \in 0..BlockSize /\ B >= 1 /\ B \in Nat
      BY <1>1, <1>3, <2>2, Inside
    <3> HIDE DEF B
    <3>2. count = B
      BY <3>1, TwoInts
    <3>3. end \in 0..BlockSize
      BY <3>1, <3>2
    <3> HIDE DEF end, count
    <3> QED BY <1>1, <3>1, <3>2, <3>3
  <2> QED BY <1>1, <2>1, <2>2
<1> HIDE DEF B, count, end
<1>5. ASSUME NEW d \in Descriptors
      PROVE  /\ block'[d] > 0 => offset'[d] <= occupied'[block'[d]]
             /\ block'[d] = 0 => offset'[d] = 0
  <2>1. /\ index[d] \in Int /\ block[d] \in Nat /\ block[d] <= BlocksCount
        /\ block[d] > 0 => index[d] >= block[d] - 1
        /\ mode[d] = "closed" => block[d] = 0
        /\ offset[d] \in Nat
        /\ block[d] > 0 => offset[d] <= occupied[block[d]]
        /\ block[d] = 0 => offset[d] = 0
    BY FileAssumption DEF Inv, DescriptorsOnBlocks, TypeOK, GapInv, NoGapBeforeWrite
  <2>2. /\ block'[d] = IF moved(d) THEN count ELSE block[d]
        /\ offset'[d] = IF cut(d) THEN Min({offset[d], end}) ELSE offset[d]
    BY <1>2
  <2>3. Min({offset[d], end}) = IF offset[d] <= end THEN offset[d] ELSE end
    <3>1. offset[d] \in Int /\ end \in Int
      BY <1>4, <2>1
    <3> QED BY <3>1, TwoInts
  <2>4. /\ offset'[d] \in Nat /\ offset'[d] <= offset[d]
        /\ cut(d) => offset'[d] <= end
    BY <1>4, <2>1, <2>2, <2>3
  <2>5. CASE moved(d)
    <3>1. block'[d] = count /\ occupied'[count] = end /\ cut(d)
      BY <1>2, <1>4, <2>2, <2>5
    <3> QED
      BY <1>4, <2>4, <3>1
  <2>6. CASE ~moved(d) /\ block[d] = 0
    BY <2>1, <2>2, <2>4, <2>6
  <2>7. CASE ~moved(d) /\ block[d] > 0
    <3>1. block'[d] = block[d] /\ mode[d] # "closed" /\ index[d] < count
      BY <1>4, <2>1, <2>2, <2>7
    <3>2. block[d] <= count /\ block[d] \in 1..count
      BY <1>4, <2>1, <2>7, <3>1
    <3>3. CASE block[d] = count
      <4>1. index[d] = count - 1
        BY <1>4, <2>1, <3>1, <3>3
      <4>2. cut(d) /\ occupied'[count] = end
        BY <1>2, <1>4, <3>1, <4>1
      <4>3. block'[d] = count /\ block'[d] # 0 /\ offset'[d] <= end
        BY <2>4, <2>7, <3>1, <3>3, <4>2
      <4> QED
        BY <4>2, <4>3
    <3>4. CASE block[d] # count
      <4> DEFINE j == block[d]
      <4>1. occupied'[j] = occupied[j] /\ j \in 1..BlocksCount
        BY <1>1, <1>2, <2>1, <2>7, <3>2, <3>4
      <4> HIDE DEF j
      <4>2. occupied[j] \in 0..BlockSize
        BY <4>1, Entries
      <4>3. offset[d] <= occupied[j]
        BY <2>1, <2>7 DEF j
      <4>4. offset'[d] <= occupied'[j]
        BY <1>1, <2>1, <2>4, <4>1, <4>2, <4>3
      <4> QED
        BY <2>7, <3>1, <4>4 DEF j
    <3> QED
      BY <3>3, <3>4
  <2> QED
    BY <2>1, <2>5, <2>6, <2>7
<1> QED
  BY <1>5 DEF GapInv, NoGapBeforeWrite

(* An opened descriptor is at the start, a closed one nowhere. *)
LEMMA SeatedGap ==
  ASSUME Inv, GapInv, NEW d \in Descriptors, (\E m \in Modes : Open(d, m)) \/ Close(d)
  PROVE  GapInv'
<1>1. /\ BlocksCount \in Nat /\ occupied' = occupied
      /\ BlocksCount > 0 => occupied[1] \in 0..BlockSize
  BY Entries DEF Open, Close
<1>2. PICK b \in {0, 1} : /\ block' = [block EXCEPT ![d] = b] /\ offset' = [offset EXCEPT ![d] = 0]
                          /\ b > 0 => BlocksCount > 0
  BY <1>1 DEF Open, Close
<1>3. ASSUME NEW c \in Descriptors
      PROVE  /\ block'[c] > 0 => offset'[c] <= occupied'[block'[c]]
             /\ block'[c] = 0 => offset'[c] = 0
  <2>1. CASE c = d
    <3>1. block'[c] = b /\ offset'[c] = 0
      BY <1>2, <2>1 DEF Inv, DescriptorsOnBlocks, TypeOK
    <3> QED
      BY <1>1, <1>2, <3>1, FileAssumption
  <2>2. CASE c # d
    <3>1. block'[c] = block[c] /\ offset'[c] = offset[c]
      BY <1>2, <2>2 DEF Inv, DescriptorsOnBlocks, TypeOK
    <3> QED
      BY <1>1, <3>1 DEF GapInv, NoGapBeforeWrite
  <2> QED
    BY <2>1, <2>2
<1> QED
  BY <1>3 DEF GapInv, NoGapBeforeWrite

LEMMA NextGap ==
  ASSUME Inv, GapInv, [Next]_vars
  PROVE  GapInv'
<1>1. ASSUME NEW d \in Descriptors, NEW m \in Modes, Open(d, m) PROVE GapInv'
  BY <1>1, SeatedGap
<1>2. ASSUME NEW d \in Descriptors, Close(d) PROVE GapInv'
  BY <1>2, SeatedGap
<1>3. ASSUME NEW d \in Descriptors, WriteRefused(d) \/ ReadRefused(d) PROVE GapInv'
  BY <1>3, StayGap DEF WriteRefused, ReadRefused, Refuse
<1>4. ASSUME NEW d \in Descriptors, NEW b \in Buffers, Write(d, b) PROVE GapInv'
  BY <1>4, WriteGap
<1>5. ASSUME NEW d \in Descriptors, NEW n \in 0..MaxRead, Read(d, n) PROVE GapInv'
  BY <1>5, ReadGap
<1>6. ASSUME NEW n \in 0..MaxSize, Grow(n) \/ Shrink(n) PROVE GapInv'
  BY <1>6, GrowGap, ShrinkGap
<1>7. CASE ResizeRefused \/ UNCHANGED vars
  BY <1>7 DEF ResizeRefused, vars, descVars, GapInv, NoGapBeforeWrite
<1> QED
  BY <1>1, <1>2, <1>3, <1>4, <1>5, <1>6, <1>7 DEF Next

(* After whatever calls of ufs_write, ufs_read and ufs_resize (userfs.c:275,   *)
(* 325, 427), no descriptor of the file is behind what the block it is on      *)
(* holds: a write never skips bytes nobody wrote, though a shrinking cuts the  *)
(* offsets of only those descriptors whose index is that of the new last       *)
(* block, and a read may stop in the middle of any block.                      *)
THEOREM NoGapsBeforeWrites == Spec => []NoGapBeforeWrite
<1>1. Init => GapInv
  BY DEF Init, GapInv, NoGapBeforeWrite
<1>2. Inv /\ GapInv /\ [Next]_vars => GapInv'
  BY NextGap
<1>3. GapInv => NoGapBeforeWrite
  BY DEF GapInv
<1> QED
  BY <1>1, <1>2, <1>3, InitInv, NextInv, PTL DEF Spec

-------------------------------------------------------------------------------
(* The file as FlatFile.  What it holds is the front of the memory; a place in *)
(* the blocks is a position in it, and none is behind its end.                 *)
Content == SubSeq(memory, 1, Size)
Spot(b, o) == IF b = 0 THEN 0 ELSE (b - 1) * BlockSize + o

Pos    == [d \in Descriptors |-> Address(d)]
Astray == {d \in Descriptors : index[d] + 1 # block[d]}

LEMMA Front ==
  ASSUME NEW s \in Seq(Bytes), NEW n \in 0..Len(s)
  PROVE  /\ SubSeq(s, 1, n) \in Seq(Bytes) /\ Len(SubSeq(s, 1, n)) = n
         /\ SubSeq(s, 1, n) = [a \in 1..n |-> s[a]]
         /\ \A a \in 1..n : SubSeq(s, 1, n)[a] = s[a]
<1>1. n \in Nat /\ n <= Len(s) /\ Len(s) \in Nat
  BY LenProperties
<1>2. \A a \in 1..n : s[a] \in Bytes
  BY <1>1, LenProperties
<1> DEFINE t == SubSeq(s, 1, n)
<1>3. /\ t \in Seq(Bytes)
      /\ Len(t) = IF 1 <= n THEN n - 1 + 1 ELSE 0
      /\ \A a \in 1..(n - 1 + 1) : t[a] = s[1 + a - 1]
  BY <1>1, <1>2, SubSeqProperties
<1> HIDE DEF t
<1>4. Len(t) = n
  BY <1>1, <1>3
<1>5. \A a \in 1..n : t[a] = s[a]
  BY <1>1, <1>3
<1>6. t = [a \in 1..n |-> t[a]]
  BY <1>3, <1>4, LenProperties
<1>7. t = [a \in 1..n |-> s[a]]
  BY <1>5, <1>6
<1> QED
  BY <1>3, <1>4, <1>5, <1>7 DEF t

(* What is read depends on no byte behind it. *)
LEMMA Middle ==
  ASSUME NEW s \in Seq(Bytes), NEW t \in Seq(Bytes), NEW p \in Nat, NEW k \in Nat,
         p + k <= Len(s), p + k <= Len(t), \A a \in 1..(p + k) : s[a] = t[a]
  PROVE  SubSeq(s, p + 1, p + k) = SubSeq(t, p + 1, p + k)
<1>1. ASSUME NEW u \in Seq(Bytes), p + k <= Len(u)
      PROVE  SubSeq(u, p + 1, p + k) = [i \in 1..k |-> u[p + i]]
  <2>1. \A i \in (p + 1)..(p + k) : u[i] \in Bytes
    BY <1>1, LenProperties
  <2> DEFINE v == SubSeq(u, p + 1, p + k)
  <2>2. /\ v \in Seq(Bytes)
        /\ Len(v) = IF p + 1 <= p + k THEN p + k - (p + 1) + 1 ELSE 0
        /\ \A i \in 1..(p + k - (p + 1) + 1) : v[i] = u[p + 1 + i - 1]
    BY <2>1, SubSeqProperties
  <2> HIDE DEF v
  <2>3. Len(v) = k
    BY <2>2
  <2>4. \A i \in 1..k : v[i] = u[p + i]
    BY <2>2
  <2>5. v = [i \in 1..k |-> v[i]]
    BY <2>2, <2>3, LenProperties
  <2>6. v = [i \in 1..k |-> u[p + i]]
    BY <2>4, <2>5
  <2> QED BY <2>6 DEF v
<1>2. ASSUME NEW i \in 1..k PROVE s[p + i] = t[p + i]
  <2>1. p + i \in 1..(p + k)
    OBVIOUS
  <2> QED BY <2>1
<1> QED
  BY <1>1, <1>2

LEMMA Whole ==
  ASSUME Inv
  PROVE  /\ Size \in Nat /\ Size <= Len(memory) /\ memory \in Seq(Bytes)
         /\ Len(memory) = BlocksCount * BlockSize /\ Len(memory) \in Nat /\ Len(memory) <= MaxSize
         /\ Content \in Seq(Bytes) /\ Len(Content) = Size
         /\ Content = [a \in 1..Size |-> memory[a]]
<1>1. /\ BlocksCount \in Nat /\ BlockSize \in Nat \ {0} /\ BlocksCount <= MaxBlocks
      /\ \A i \in 1..BlocksCount : occupied[i] \in 0..BlockSize
      /\ memory \in Seq(Bytes) /\ Len(memory) = BlocksCount * BlockSize /\ Len(memory) \in Nat
  BY Entries, LenProperties DEF Inv, DescriptorsOnBlocks, TypeOK
<1>2. Len(memory) <= MaxSize
  BY <1>1, FileAssumption, Products DEF MaxSize
<1>3. Size \in Nat /\ Size <= Len(memory)
  <2>1. CASE BlocksCount = 0
    BY <1>1, <2>1 DEF Size
  <2>2. CASE BlocksCount # 0
    <3> DEFINE x == (BlocksCount - 1) * BlockSize
               o == occupied[BlocksCount]
    <3>1. x \in Nat /\ x + BlockSize = Len(memory) /\ o \in 0..BlockSize
      <4>1. x \in Int /\ x = BlocksCount * BlockSize - BlockSize
        BY <1>1, Products
      <4>2. BlocksCount * BlockSize >= 1 * BlockSize
        BY <1>1, <2>2, Products
      <4>3. o \in 0..BlockSize
        BY <1>1, <2>2
      <4> HIDE DEF x, o
      <4> QED BY <1>1, <4>1, <4>2, <4>3
    <3>2. Size = x + o
      BY <2>2 DEF Size
    <3> HIDE DEF x, o
    <3> QED BY <1>1, <3>1, <3>2
  <2> QED BY <2>1, <2>2
<1>4. Size \in 0..Len(memory)
  BY <1>1, <1>3
<1> QED
  BY <1>1, <1>2, <1>3, <1>4, Front DEF Content

FrontIs ==
  /\ Content = [a \in 1..Size |-> memory[a]]
  /\ Size \in Nat /\ Size <= Len(memory) /\ memory \in Seq(Bytes)

LEMMA FrontNow == Inv => FrontIs
  BY Whole DEF FrontIs

LEMMA FrontNext == (Inv => FrontIs)'
  BY FrontNow, PTL

(* Every block but the last is full. *)
LEMMA SizeOf ==
  ASSUME Inv
  PROVE  /\ BlocksCount = 0 => Size = 0
         /\ BlocksCount > 0 => /\ Size = (BlocksCount - 1) * BlockSize + occupied[BlocksCount]
                               /\ (BlocksCount - 1) * BlockSize \in Nat
                               /\ occupied[BlocksCount] \in 0..BlockSize
                               /\ (BlocksCount - 1) * BlockSize <= Size
                               /\ (BlocksCount - 1) * BlockSize + BlockSize = BlocksCount * BlockSize
         /\ ~Holed => \A i \in 1..(BlocksCount - 1) : occupied[i] = BlockSize
<1>1. /\ BlocksCount \in Nat /\ BlockSize \in Nat \ {0}
      /\ \A i \in 1..BlocksCount : occupied[i] \in 0..BlockSize
  BY Entries
<1>2. ASSUME BlocksCount > 0
      PROVE  /\ Size = (BlocksCount - 1) * BlockSize + occupied[BlocksCount]
             /\ (BlocksCount - 1) * BlockSize \in Nat
             /\ occupied[BlocksCount] \in 0..BlockSize
             /\ (BlocksCount - 1) * BlockSize <= Size
             /\ (BlocksCount - 1) * BlockSize + BlockSize = BlocksCount * BlockSize
  <2> DEFINE x == (BlocksCount - 1) * BlockSize
             o == occupied[BlocksCount]
             y == BlocksCount * BlockSize
  <2>1. Size = x + o /\ o \in 0..BlockSize
    BY <1>1, <1>2 DEF Size
  <2>2. x \in Nat
    BY <1>1, <1>2
  <2>3. x = y - BlockSize /\ y \in Int
    BY <1>1, Products
  <2> HIDE DEF x, o, y
  <2>4. Size = x + o /\ x \in Nat /\ o \in 0..BlockSize /\ x <= Size /\ x + BlockSize = y
    BY <1>1, <2>1, <2>2, <2>3
  <2> QED BY <2>4 DEF x, o, y
<1>3. ASSUME ~Holed, NEW i \in 1..(BlocksCount - 1) PROVE occupied[i] = BlockSize
  <2>1. occupied[i] \in 0..BlockSize /\ ~(occupied[i] < BlockSize)
    BY <1>1, <1>3 DEF Holed
  <2> QED BY <1>1, <2>1
<1> QED
  BY <1>2, <1>3 DEF Size

AddressesAre == \A d \in Descriptors : Address(d) = Spot(block[d], offset[d])

LEMMA Spots == Inv /\ GapInv => AddressesAre
<1> SUFFICES ASSUME Inv, GapInv, NEW d \in Descriptors
             PROVE  Address(d) = Spot(block[d], offset[d])
  BY DEF AddressesAre
<1>1. block[d] = 0 => offset[d] = 0
  BY DEF GapInv
<1>2. BlockSize \in Nat
  BY FileAssumption
<1> QED
  BY <1>1, <1>2 DEF Address, Seat, LacksBlock, Spot

LEMMA SpotsNext == (Inv /\ GapInv => AddressesAre)'
  BY Spots, PTL

LEMMA NotBehind ==
  ASSUME Inv, GapInv, ~Holed, NEW d \in Descriptors
  PROVE  Address(d) \in Nat /\ Address(d) <= Size
<1>1. /\ BlocksCount \in Nat /\ BlockSize \in Nat \ {0} /\ Address(d) \in Nat
      /\ \A i \in 1..BlocksCount : occupied[i] \in 0..BlockSize
  BY Entries, Addresses
<1>2. Size \in Nat
  BY Whole
<1>3. CASE Seat(d) = 0
  BY <1>1, <1>2, <1>3 DEF Address
<1>4. CASE Seat(d) # 0
  <2> DEFINE j == Seat(d)
             x == (j - 1) * BlockSize
             y == (BlocksCount - 1) * BlockSize
  <2>1. j \in 1..BlocksCount /\ offset[d] <= occupied[j] /\ offset[d] \in 0..BlockSize
    BY <1>1, <1>4, Seats, SeatHolds
  <2>2. Address(d) = x + offset[d]
    BY <1>4 DEF Address
  <2>3. y \in Nat /\ y <= Size /\ Size = y + occupied[BlocksCount]
    BY <1>1, <2>1, SizeOf
  <2> HIDE DEF j
  <2>4. x \in Int /\ occupied[j] \in 0..BlockSize
    BY <1>1, <2>1, Products
  <2>5. CASE j = BlocksCount
    <3>1. x = y /\ occupied[j] = occupied[BlocksCount]
      BY <2>5
    <3> HIDE DEF x, y
    <3> QED BY <1>1, <1>2, <2>1, <2>2, <2>3, <2>4, <3>1
  <2>6. CASE j < BlocksCount
    <3>1. x + BlockSize = j * BlockSize /\ j * BlockSize <= y /\ j * BlockSize \in Int
      <4>1. j \in Int /\ BlocksCount - 1 \in Int /\ j <= BlocksCount - 1
        BY <1>1, <2>1, <2>6
      <4> QED BY <1>1, <4>1, Products
    <3> DEFINE z == j * BlockSize
    <3> HIDE DEF x, y, z
    <3>2. x + BlockSize = z /\ z <= y /\ z \in Int
      BY <3>1 DEF z
    <3> QED BY <1>1, <1>2, <2>1, <2>2, <2>3, <2>4, <3>2
  <2> QED BY <1>1, <2>1, <2>5, <2>6
<1> QED
  BY <1>3, <1>4

(* A call that moves one descriptor, as FlatFile sees it. *)
LEMMA MovedFlat ==
  ASSUME Inv, GapInv, Inv', GapInv', NEW d \in Descriptors, NEW b, NEW i, NEW o,
         block' = [block EXCEPT ![d] = b], index' = [index EXCEPT ![d] = i],
         offset' = [offset EXCEPT ![d] = o]
  PROVE  /\ Pos' = [Pos EXCEPT ![d] = Spot(b, o)]
         /\ Astray' = IF i + 1 # b THEN Astray \cup {d} ELSE Astray \ {d}
<1>1. /\ block'[d] = b /\ index'[d] = i /\ offset'[d] = o
      /\ \A c \in Descriptors \ {d} :
           block'[c] = block[c] /\ index'[c] = index[c] /\ offset'[c] = offset[c]
  BY DEF Inv, DescriptorsOnBlocks, TypeOK
<1>2. /\ \A c \in Descriptors : Address(c) = Spot(block[c], offset[c])
      /\ \A c \in Descriptors : Address(c)' = Spot(block'[c], offset'[c])
  BY Spots, SpotsNext DEF AddressesAre, Spot
<1>3. Address(d)' = Spot(b, o) /\ \A c \in Descriptors \ {d} : Address(c)' = Address(c)
  BY <1>1, <1>2
<1>4. Pos' = [Pos EXCEPT ![d] = Spot(b, o)]
  <2>1. ASSUME NEW c \in Descriptors PROVE Address(c)' = [Pos EXCEPT ![d] = Spot(b, o)][c]
    BY <1>3 DEF Pos
  <2>2. [Pos EXCEPT ![d] = Spot(b, o)]
          = [c \in Descriptors |-> [Pos EXCEPT ![d] = Spot(b, o)][c]]
    BY DEF Pos
  <2> QED BY <2>1, <2>2 DEF Pos
<1>5. Astray' = IF i + 1 # b THEN Astray \cup {d} ELSE Astray \ {d}
  BY <1>1 DEF Astray
<1> QED
  BY <1>4, <1>5

LEMMA PlacedFlat ==
  ASSUME Inv, GapInv, Inv', GapInv', NEW d \in Descriptors, NEW b, NEW i, NEW o,
         Place(d, b, i, o)
  PROVE  /\ Pos' = [Pos EXCEPT ![d] = Spot(b, o)]
         /\ Astray' = IF i + 1 # b THEN Astray \cup {d} ELSE Astray \ {d}
         /\ mode' = mode
  BY MovedFlat DEF Place

(* Being seated brings nobody astray, nor back. *)
LEMMA StraySeat ==
  ASSUME Inv, NEW d \in Descriptors
  PROVE  SeatIndex(d) + 1 # Seat(d) <=> d \in Astray
  BY DEF Astray, Seat, SeatIndex, LacksBlock, Inv, DescriptorsOnBlocks, TypeOK

LEMMA StayFlat ==
  ASSUME Inv, GapInv, Inv', GapInv', NEW d \in Descriptors, StayPut(d)
  PROVE  Pos' = Pos /\ Astray' = Astray /\ mode' = mode
<1>1. /\ Pos' = [Pos EXCEPT ![d] = Spot(Seat(d), offset[d])]
      /\ Astray' = IF SeatIndex(d) + 1 # Seat(d) THEN Astray \cup {d} ELSE Astray \ {d}
      /\ mode' = mode
  BY PlacedFlat DEF StayPut
<1>2. Spot(Seat(d), offset[d]) = Address(d)
  BY DEF Spot, Address
<1>3. Pos' = Pos
  BY <1>1, <1>2 DEF Pos
<1>4. SeatIndex(d) + 1 # Seat(d) <=> d \in Astray
  BY StraySeat
<1> QED
  BY <1>1, <1>3, <1>4

(* What is occupied and what is in the memory after a write, in positions. *)
LEMMA FillSize ==
  ASSUME Inv, Inv', NEW b \in Buffers, NEW s \in Nat, NEW e \in Nat,
         s <= e, s <= Size, e <= MaxSize, Fill(b, s, e)
  PROVE  Size' = IF e > Size THEN e ELSE Size
<1> DEFINE q == BlocksFor(e)
           count == Max({BlocksCount, q})
           old(i) == IF i <= BlocksCount THEN occupied[i] ELSE 0
           upto(i) == e - (i - 1) * BlockSize
           new(i) == IF i * BlockSize > s /\ (i - 1) * BlockSize < e
                     THEN Max({old(i), Min({BlockSize, upto(i)})}) ELSE old(i)
<1>1. /\ BlocksCount \in Nat /\ BlockSize \in Nat \ {0} /\ Size \in Nat
      /\ \A i \in 1..BlocksCount : occupied[i] \in 0..BlockSize
      /\ Size <= BlocksCount * BlockSize /\ BlocksCount * BlockSize \in Nat
  BY Entries, Whole
<1>2. q \in Nat /\ e <= q * BlockSize /\ (e = 0 => q = 0)
      /\ (e > 0 => q >= 1 /\ (q - 1) * BlockSize < e)
      /\ \A m \in Nat : e <= m * BlockSize => q <= m
  BY Blocks
<1> HIDE DEF q
<1>3. count \in Nat /\ count = IF BlocksCount >= q THEN BlocksCount ELSE q
  BY <1>1, <1>2, TwoInts
<1>4. occupied' = [i \in 1..count |-> new(i)]
  BY DEF Fill, Occupation, q
<1> HIDE DEF count, new
<1>5. BlocksCount' = count
  <2>1. occupied' \in Seq(0..BlockSize)
    BY DEF Inv, DescriptorsOnBlocks, TypeOK
  <2>2. DOMAIN occupied' = 1..count
    BY <1>4
  <2>3. Len(occupied') = count
    BY <1>3, <2>1, <2>2, LenProperties
  <2> QED BY <2>3 DEF BlocksCount
<1>6. count > 0 => Size' = (count - 1) * BlockSize + new(count)
  <2>1. Size' = IF count = 0 THEN 0 ELSE (count - 1) * BlockSize + occupied'[count]
    BY <1>5 DEF Size
  <2>2. count > 0 => occupied'[count] = new(count)
    BY <1>3, <1>4
  <2> QED BY <1>3, <2>1, <2>2
<1>7. count = 0 => Size' = 0
  BY <1>5 DEF Size
<1>8. ASSUME NEW i \in Nat, NEW x \in Int, NEW z \in Int, NEW o \in 0..BlockSize, i > 0,
             x = (i - 1) * BlockSize, z = i * BlockSize, old(i) = o, e <= z,
             z > s, x < e
      PROVE  new(i) = IF e > x + o THEN e - x ELSE o
  <2>1. z = x + BlockSize
    BY <1>1, <1>8, Products
  <2>2. upto(i) = e - x /\ e - x \in Int /\ e - x <= BlockSize
    BY <1>1, <1>8, <2>1
  <2>3. Min({BlockSize, e - x}) = e - x
    <3>1. BlockSize \in Int /\ e - x \in Int
      BY <1>1, <2>2
    <3>2. Min({BlockSize, e - x}) = IF BlockSize <= e - x THEN BlockSize ELSE e - x
      BY <3>1, TwoInts
    <3> QED BY <1>1, <2>2, <3>2
  <2>4. new(i) = Max({o, e - x})
    BY <1>8, <2>2, <2>3 DEF new
  <2>5. Max({o, e - x}) = IF o >= e - x THEN o ELSE e - x
    <3>1. o \in Int /\ e - x \in Int
      BY <1>1, <2>2
    <3> QED BY <3>1, TwoInts
  <2> QED BY <1>1, <1>8, <2>2, <2>4, <2>5
<1>9. CASE q > BlocksCount
  <2> DEFINE x == (q - 1) * BlockSize
             z == q * BlockSize
             y == BlocksCount * BlockSize
  <2>1. count = q /\ q > 0 /\ e > 0 /\ x < e
    BY <1>1, <1>2, <1>3, <1>9
  <2>2. x \in Int /\ z \in Int /\ y \in Nat /\ e <= z
    BY <1>1, <1>2, Products
  <2>3. y < e
    <3>1. ~(e <= y)
      BY <1>1, <1>2, <1>9
    <3> HIDE DEF y
    <3> QED BY <2>2, <3>1
  <2>4. Size < e /\ z > s
    <3>1. Size <= y
      BY <1>1
    <3> HIDE DEF y, z
    <3> QED BY <1>1, <2>2, <2>3, <3>1
  <2>5. old(q) = 0
    BY <1>1, <1>2, <1>9
  <2> HIDE DEF x, z, y, old
  <2>6. new(q) = IF e > x + 0 THEN e - x ELSE 0
    BY <1>1, <1>2, <1>8, <2>1, <2>2, <2>4, <2>5 DEF x, z
  <2>7. Size' = x + new(q)
    BY <1>6, <2>1 DEF x
  <2> QED BY <2>1, <2>2, <2>4, <2>6, <2>7
<1>10. CASE q <= BlocksCount /\ BlocksCount = 0
  <2>1. e = 0 /\ count = 0 /\ Size = 0
    <3>1. q = 0
      BY <1>2, <1>10
    <3> QED BY <1>2, <1>3, <1>10, <3>1, SizeOf
  <2> QED BY <1>7, <2>1
<1>11. CASE q <= BlocksCount /\ BlocksCount > 0
  <2> DEFINE x == (BlocksCount - 1) * BlockSize
             z == BlocksCount * BlockSize
             o == occupied[BlocksCount]
  <2>1. count = BlocksCount /\ old(BlocksCount) = o
    BY <1>1, <1>2, <1>3, <1>11
  <2>2. Size = x + o /\ x \in Nat /\ o \in 0..BlockSize /\ x + BlockSize = z /\ z \in Int
    BY <1>1, <1>11, SizeOf
  <2>3. e <= z
    <3>1. q * BlockSize <= z /\ q * BlockSize \in Int
      BY <1>1, <1>2, <1>11, Products
    <3> DEFINE w == q * BlockSize
    <3>2. e <= w /\ w <= z /\ w \in Int
      BY <1>2, <3>1
    <3> HIDE DEF w, z
    <3> QED BY <2>2, <3>2
  <2>4. Size' = x + new(BlocksCount)
    BY <1>6, <1>11, <2>1
  <2>5. CASE z > s /\ x < e
    <3>1. new(BlocksCount) = IF e > x + o THEN e - x ELSE o
      BY <1>1, <1>8, <1>11, <2>1, <2>2, <2>3, <2>5
    <3> HIDE DEF x, z, o
    <3> QED BY <1>1, <2>2, <2>4, <3>1
  <2>6. CASE ~(z > s /\ x < e)
    <3>1. new(BlocksCount) = o
      BY <2>1, <2>6 DEF new
    <3> HIDE DEF x, z, o
    <3>2. e <= Size
      BY <1>1, <2>2, <2>3, <2>6
    <3> QED BY <1>1, <2>2, <2>4, <3>1, <3>2
  <2> QED BY <2>5, <2>6
<1> QED
  BY <1>1, <1>2, <1>9, <1>10, <1>11

LEMMA FillFlat ==
  ASSUME Inv, Inv', NEW b \in Buffers, NEW s \in Nat, NEW e \in Nat,
         s <= e, s <= Size, e <= MaxSize, Fill(b, s, e)
  PROVE  Content' = [a \in 1..(IF e > Len(Content) THEN e ELSE Len(Content)) |->
                       IF a \in (s + 1)..e THEN b[a - s] ELSE Content[a]]
<1>1. /\ Size \in Nat /\ Size <= Len(memory) /\ Len(Content) = Size /\ Len(memory) \in Nat
      /\ \A a \in 1..Size : Content[a] = memory[a]
  BY Whole
<1>2. Size' = IF e > Size THEN e ELSE Size
  BY FillSize
<1>3. /\ Content' = [a \in 1..Size' |-> memory'[a]]
      /\ Size' \in Nat /\ Size' <= Len(memory') /\ memory' \in Seq(Bytes)
  BY FrontNext DEF FrontIs
<1> DEFINE n == Max({BlocksCount, BlocksFor(e)}) * BlockSize
<1>4. memory' = [a \in 1..n |-> IF a > s /\ a <= e THEN b[a - s]
                                ELSE IF a <= Len(memory) THEN memory[a] ELSE Zero]
  BY DEF Fill
<1> HIDE DEF n
<1>5. \A a \in 1..Size' : a \in 1..n
  <2>1. DOMAIN memory' = 1..n
    BY <1>4
  <2>2. DOMAIN memory' = 1..Len(memory') /\ Len(memory') \in Nat
    BY <1>3, LenProperties
  <2>3. 1..n = 1..Len(memory')
    BY <2>1, <2>2, Zenon
  <2>4. \A a \in 1..Size' : a \in 1..Len(memory')
    BY <1>3, <2>2
  <2> QED BY <2>3, <2>4, Zenon
<1>6. ASSUME NEW a \in 1..Size'
      PROVE  memory'[a] = IF a \in (s + 1)..e THEN b[a - s] ELSE Content[a]
  <2>1. memory'[a] = IF a > s /\ a <= e THEN b[a - s]
                     ELSE IF a <= Len(memory) THEN memory[a] ELSE Zero
    BY <1>4, <1>5
  <2>2. CASE a > s /\ a <= e
    BY <1>3, <2>1, <2>2
  <2>3. CASE ~(a > s /\ a <= e)
    <3>1. a \in 1..Size
      BY <1>1, <1>2, <1>3, <2>3
    <3>2. memory'[a] = memory[a] /\ a \notin (s + 1)..e
      BY <1>1, <2>1, <2>3, <3>1
    <3> QED BY <1>1, <3>1, <3>2
  <2> QED BY <2>2, <2>3
<1>7. 1..Size' = 1..(IF e > Len(Content) THEN e ELSE Len(Content))
  BY <1>1, <1>2
<1> QED
  BY <1>3, <1>6, <1>7

Opened == {d \in Descriptors : mode[d] # "closed"}

LEMMA KeptFlat ==
  ASSUME UNCHANGED <<occupied, memory>>
  PROVE  Content' = Content /\ Size' = Size
  BY DEF Content, Size, BlocksCount

LEMMA OpenFlat ==
  ASSUME Inv, GapInv, Inv', GapInv', NEW d \in Descriptors, NEW m \in Modes, Open(d, m)
  PROVE  Flat!Next
<1>1. PICK b \in {0, 1} : /\ block' = [block EXCEPT ![d] = b]
                          /\ index' = [index EXCEPT ![d] = b - 1]
                          /\ offset' = [offset EXCEPT ![d] = 0]
  <2>1. CASE BlocksCount > 0
    <3>1. /\ block' = [block EXCEPT ![d] = 1] /\ index' = [index EXCEPT ![d] = 1 - 1]
          /\ offset' = [offset EXCEPT ![d] = 0]
      BY <2>1 DEF Open
    <3> QED BY <3>1
  <2>2. CASE ~(BlocksCount > 0)
    <3>1. /\ block' = [block EXCEPT ![d] = 0] /\ index' = [index EXCEPT ![d] = 0 - 1]
          /\ offset' = [offset EXCEPT ![d] = 0]
      BY <2>2 DEF Open
    <3> QED BY <3>1
  <2> QED BY <2>1, <2>2
<1>2. /\ Pos' = [Pos EXCEPT ![d] = Spot(b, 0)]
      /\ Astray' = IF b - 1 + 1 # b THEN Astray \cup {d} ELSE Astray \ {d}
  BY <1>1, MovedFlat
<1>3. Spot(b, 0) = 0 /\ b - 1 + 1 = b
  BY FileAssumption DEF Spot
<1>4. Content' = Content
  BY KeptFlat DEF Open
<1>5. d \notin Opened /\ Opened' = Opened \cup {d}
  BY FileAssumption DEF Open, Opened, Inv, DescriptorsOnBlocks, TypeOK
<1>6. Flat!Open(d)
  BY <1>2, <1>3, <1>4, <1>5
  DEF Flat!Open, Flat!Returns, Open, Returns, Content, Pos, Astray, Opened
<1> QED
  BY <1>6 DEF Flat!Next

LEMMA CloseFlat ==
  ASSUME Inv, GapInv, Inv', GapInv', NEW d \in Descriptors, Close(d)
  PROVE  Flat!Next
<1>1. /\ block' = [block EXCEPT ![d] = 0] /\ index' = [index EXCEPT ![d] = -1]
      /\ offset' = [offset EXCEPT ![d] = 0]
  BY DEF Close
<1>2. /\ Pos' = [Pos EXCEPT ![d] = Spot(0, 0)]
      /\ Astray' = IF -1 + 1 # 0 THEN Astray \cup {d} ELSE Astray \ {d}
  BY <1>1, MovedFlat
<1>3. Content' = Content
  BY KeptFlat DEF Close
<1>4. d \in Opened /\ Opened' = Opened \ {d}
  BY DEF Close, Opened, Inv, DescriptorsOnBlocks, TypeOK
<1>5. -1 + 1 = 0 /\ Spot(0, 0) = 0
  BY DEF Spot
<1>6. Flat!Close(d)
  BY <1>2, <1>3, <1>4, <1>5
  DEF Flat!Close, Flat!Returns, Close, Returns, Content, Pos, Astray, Opened
<1> QED
  BY <1>6 DEF Flat!Next

LEMMA RefuseFlat ==
  ASSUME Inv, GapInv, Inv', GapInv', NEW d \in Descriptors, WriteRefused(d) \/ ReadRefused(d)
  PROVE  Flat!Next
<1>1. PICK call \in {"read", "write"} : Refuse(d, call) /\ mode[d] # "closed"
  BY DEF WriteRefused, ReadRefused
<1>2. Pos' = Pos /\ Astray' = Astray /\ mode' = mode
  BY <1>1, StayFlat DEF Refuse
<1>3. Content' = Content
  BY <1>1, KeptFlat DEF Refuse
<1>4. Flat!Refuse(d, call)
  BY <1>1, <1>2, <1>3
  DEF Flat!Refuse, Flat!Returns, Refuse, Returns, Content, Pos, Astray, Opened
<1> QED
  BY <1>4 DEF Flat!Next

LEMMA WriteFlat ==
  ASSUME Inv, GapInv, Inv', GapInv', ~Holed, NEW d \in Descriptors, NEW b \in Buffers,
         Write(d, b)
  PROVE  Flat!Next
<1> DEFINE s == Address(d)
           e == Min({s + Len(b), MaxSize})
           q == BlocksFor(e)
<1>1. Len(b) \in Nat /\ (b = <<>> <=> Len(b) = 0)
  BY FileAssumption, EmptySeq, LenProperties
<1>2. /\ s \in Nat /\ s <= MaxSize /\ MaxSize \in Nat /\ s <= Size
      /\ BlocksCount \in Nat /\ BlocksCount <= MaxBlocks /\ MaxBlocks \in Nat \ {0}
  BY Addresses, NotBehind, Seats, FileAssumption
<1> DEFINE n == e - s
<1>3. /\ e \in Nat /\ s <= e /\ e <= MaxSize /\ n \in Nat /\ s + n = e
      /\ s + Len(b) <= MaxSize => n = Len(b)
      /\ s + Len(b) > MaxSize => n = MaxSize - s
  <2>1. e = IF s + Len(b) <= MaxSize THEN s + Len(b) ELSE MaxSize
    <3>1. s + Len(b) \in Int /\ MaxSize \in Int
      BY <1>1, <1>2
    <3> QED BY <3>1, TwoInts
  <2> HIDE DEF e, s
  <2> QED BY <1>1, <1>2, <2>1
<1>4. Fill(b, s, e) /\ mode[d] \in {"wo", "rw"}
  BY DEF Write, Permits
<1>5. Pos[d] = s
  BY DEF Pos
<1> HIDE DEF n, e, s
<1>6. Content' = [a \in 1..(IF e > Len(Content) THEN e ELSE Len(Content)) |->
                    IF a \in (s + 1)..e THEN b[a - s] ELSE Content[a]]
  BY <1>2, <1>3, <1>4, FillFlat
<1>7. Content' = Flat!Overwritten(s, b, n)
  BY <1>3, <1>6 DEF Flat!Overwritten, Content
<1>8. d \in Opened
  BY <1>4 DEF Opened
<1>9. CASE b = <<>> /\ StayPut(d) /\ Returns("write", 0, <<>>)
  <2>1. Pos' = Pos /\ Astray' = Astray /\ mode' = mode
    BY <1>9, StayFlat
  <2>2. Len(b) = 0 /\ s + 0 = s /\ s + Len(b) <= MaxSize /\ n = Len(b)
    BY <1>1, <1>2, <1>3, <1>9
  <2>3. Pos' = [Pos EXCEPT ![d] = s + Len(b)]
    BY <1>5, <2>1, <2>2 DEF Pos
  <2>4. Flat!Write(d, b)
    BY <1>5, <1>7, <1>8, <1>9, <2>1, <2>2, <2>3
    DEF Flat!Write, Flat!Returns, Flat!Moves, Returns, Content, Pos, Astray, Opened, s
  <2> QED BY <2>4 DEF Flat!Next
<1>10. CASE /\ b # <<>> /\ s + Len(b) <= MaxSize
            /\ Place(d, q, IndexAt(d, q), e - (q - 1) * BlockSize)
            /\ Returns("write", Len(b), <<>>)
  <2>1. e > 0 /\ n = Len(b) /\ s + Len(b) = e
    BY <1>1, <1>2, <1>3, <1>10
  <2>2. q \in Nat /\ q >= 1
    BY <1>3, <2>1, Blocks
  <2>3. Spot(q, e - (q - 1) * BlockSize) = e
    <3> HIDE DEF q
    <3> DEFINE x == (q - 1) * BlockSize
    <3>1. x \in Int
      BY <2>2, Products
    <3>2. Spot(q, e - x) = x + (e - x)
      BY <2>2 DEF Spot
    <3> HIDE DEF x
    <3>3. Spot(q, e - x) = e
      BY <1>3, <3>1, <3>2
    <3> QED BY <3>3 DEF x
  <2>4. /\ Pos' = [Pos EXCEPT ![d] = e] /\ mode' = mode
        /\ Astray' = IF IndexAt(d, q) + 1 # q THEN Astray \cup {d} ELSE Astray \ {d}
    BY <1>10, <2>3, PlacedFlat
  <2>5. Astray' \in {Astray, Astray \ {d}}
    <3>1. CASE q > BlocksCount
      <4>1. IndexAt(d, q) + 1 = q
        BY <2>2, <3>1 DEF IndexAt
      <4> QED BY <2>4, <4>1
    <3>2. CASE ~(q > BlocksCount)
      <4>1. /\ Seat(d) \in Int /\ SeatIndex(d) \in Int /\ q \in Int
            /\ IndexAt(d, q) = SeatIndex(d) + q - Seat(d)
        BY <2>2, <3>2, Seats DEF IndexAt
      <4>2. IndexAt(d, q) + 1 # q <=> SeatIndex(d) + 1 # Seat(d)
        BY <4>1
      <4>3. SeatIndex(d) + 1 # Seat(d) <=> d \in Astray
        BY StraySeat
      <4> QED BY <2>4, <4>2, <4>3
    <3> QED BY <3>1, <3>2
  <2>6. Flat!Write(d, b)
    BY <1>5, <1>7, <1>8, <1>10, <2>1, <2>4, <2>5
    DEF Flat!Write, Flat!Returns, Flat!Moves, Returns, Content, Pos, Astray, Opened, s
  <2> QED BY <2>6 DEF Flat!Next
<1>11. CASE /\ s + Len(b) > MaxSize
            /\ Place(d, 0, IndexAt(d, MaxBlocks) + 1, 0)
            /\ Returns("write", -1, <<>>)
  <2>1. /\ Pos' = [Pos EXCEPT ![d] = 0] /\ mode' = mode
        /\ Astray' = IF IndexAt(d, MaxBlocks) + 1 + 1 # 0 THEN Astray \cup {d} ELSE Astray \ {d}
    BY <1>11, PlacedFlat DEF Spot
  <2>2. IndexAt(d, MaxBlocks) + 1 + 1 # 0
    BY <1>2, Seats DEF IndexAt
  <2>3. Flat!Write(d, b)
    BY <1>3, <1>5, <1>7, <1>8, <1>11, <2>1, <2>2
    DEF Flat!Write, Flat!Returns, Flat!Strays, Returns, Content, Pos, Astray, Opened, s
  <2> QED BY <2>3 DEF Flat!Next
<1> QED
  BY <1>9, <1>10, <1>11 DEF Write, s, e, q

(* A file without holes is read up to its end. *)
LEMMA ReadsToEnd ==
  ASSUME Inv, ~Holed, NEW s \in Nat, s <= Size
  PROVE  /\ ReadableTo(s) = Size
         /\ Gaps(s) # {} => Min(Gaps(s)) = BlocksCount /\ BlocksCount > 0
<1>1. /\ BlocksCount \in Nat /\ BlockSize \in Nat \ {0}
      /\ \A i \in 1..BlocksCount : occupied[i] \in 0..BlockSize
  BY Entries
<1>2. CASE Gaps(s) # {}
  <2> DEFINE i == Min(Gaps(s))
  <2>1. i \in Gaps(s)
    <3>1. Gaps(s) \in SUBSET Nat
      BY <1>1 DEF Gaps
    <3> QED BY <1>2, <3>1, Least
  <2>2. i \in 1..BlocksCount /\ occupied[i] < BlockSize
    BY <2>1 DEF Gaps
  <2> HIDE DEF i
  <2>3. i = BlocksCount
    <3> SUFFICES ASSUME i # BlocksCount PROVE FALSE
      OBVIOUS
    <3>1. i \in 1..(BlocksCount - 1)
      BY <1>1, <2>2
    <3> QED BY <1>1, <2>2, <3>1 DEF Holed
  <2>4. BlocksCount > 0
    BY <1>1, <2>2
  <2>5. ReadableTo(s) = (BlocksCount - 1) * BlockSize + occupied[BlocksCount]
    BY <1>2, <2>3 DEF ReadableTo, i
  <2> QED BY <2>3, <2>4, <2>5, SizeOf DEF i
<1>3. CASE Gaps(s) = {}
  <2>1. ReadableTo(s) = BlocksCount * BlockSize
    BY <1>3 DEF ReadableTo
  <2>2. CASE BlocksCount = 0
    BY <1>1, <1>3, <2>1, <2>2, SizeOf
  <2>3. CASE BlocksCount > 0
    <3> DEFINE x == (BlocksCount - 1) * BlockSize
               o == occupied[BlocksCount]
               z == BlocksCount * BlockSize
    <3>1. Size = x + o /\ x \in Nat /\ o \in 0..BlockSize /\ x + BlockSize = z
      BY <2>3, SizeOf
    <3>2. ~(z > s) \/ ~(o < BlockSize)
      BY <1>1, <1>3, <2>3 DEF Gaps
    <3> HIDE DEF x, o, z
    <3>3. z = Size
      BY <1>1, <3>1, <3>2
    <3> QED BY <1>3, <2>1, <3>3 DEF z
  <2> QED BY <1>1, <2>2, <2>3
<1> QED
  BY <1>2, <1>3

(* What a read has to do for FlatFile. *)
LEMMA ReadsFlat ==
  ASSUME NEW d \in Descriptors, NEW n \in 0..MaxRead, NEW k,
         d \in Opened, Content' = Content, mode' = mode,
         k = IF n < Len(Content) - Pos[d] THEN n ELSE Len(Content) - Pos[d],
         Returns("read", k, SubSeq(Content, Pos[d] + 1, Pos[d] + k)),
         \/ Pos' = [Pos EXCEPT ![d] = Pos[d] + k] /\ Astray' = Astray
         \/ k < n /\ Pos' = [Pos EXCEPT ![d] = 0] /\ Astray' = Astray \cup {d}
  PROVE  Flat!Next
<1>1. Flat!Read(d, n)
  BY DEF Flat!Read, Flat!Returns, Flat!Moves, Flat!Strays, Returns, Content, Pos, Astray, Opened
<1> QED
  BY <1>1 DEF Flat!Next

LEMMA ReadFlat ==
  ASSUME Inv, GapInv, Inv', GapInv', ~Holed, NEW d \in Descriptors, NEW n \in 0..MaxRead,
         Read(d, n)
  PROVE  Flat!Next
<1> DEFINE s == Address(d)
           left == Size - s
           k == Max({0, Min({n, ReadableTo(s) - s})})
<1>1. /\ s \in Nat /\ s <= Size /\ Size \in Nat /\ Size <= Len(memory)
      /\ BlocksCount \in Nat /\ n \in Nat
      /\ Seat(d) \in Int /\ SeatIndex(d) \in Int /\ SeatIndex(d) >= Seat(d) - 1
  BY NotBehind, Whole, Entries, Seats, FileAssumption
<1>2. Pos[d] = s /\ Len(Content) = Size
  BY Whole DEF Pos
<1>3. ReadableTo(s) = Size /\ (Gaps(s) # {} => Min(Gaps(s)) = BlocksCount /\ BlocksCount > 0)
  BY <1>1, ReadsToEnd
<1>4. k = IF n < left THEN n ELSE left
  <2>1. n \in Int /\ left \in Int /\ left >= 0
    BY <1>1
  <2> DEFINE z == Min({n, left})
  <2>2. z = IF n <= left THEN n ELSE left
    BY <2>1, TwoInts
  <2>3. z \in Int /\ z >= 0
    BY <1>1, <2>1, <2>2
  <2>4. k = Max({0, z})
    BY <1>3
  <2> HIDE DEF z, left
  <2>5. Max({0, z}) = IF 0 >= z THEN 0 ELSE z
    BY <2>3, TwoInts
  <2> QED BY <2>1, <2>2, <2>3, <2>4, <2>5
<1>5. k \in Nat /\ s + k <= Size /\ k <= n
  BY <1>1, <1>4
<1>6. SubSeq(memory, s + 1, s + k) = SubSeq(Content, s + 1, s + k)
  <2>1. /\ memory \in Seq(Bytes) /\ Content \in Seq(Bytes)
        /\ \A a \in 1..Size : memory[a] = Content[a]
    BY Whole
  <2>2. \A a \in 1..(s + k) : memory[a] = Content[a]
    BY <1>1, <1>5, <2>1
  <2>3. s + k <= Len(memory) /\ s + k <= Len(Content) /\ Len(memory) \in Nat
    BY <1>1, <1>2, <1>5, Whole
  <2> HIDE DEF k, s
  <2> QED BY ZenonT(30), <1>1, <1>5, <2>1, <2>2, <2>3, Middle
<1>7. /\ Content' = Content /\ d \in Opened
      /\ Returns("read", k, SubSeq(Content, s + 1, s + k))
  BY <1>6, KeptFlat DEF Read, Permits, Opened
<1> DEFINE b == BlocksFor(s + n)
<1>8. \/ (n = 0 \/ BlocksCount = 0) /\ StayPut(d)
      \/ k = n /\ n > 0 /\ StepTo(d, b, s + n - (b - 1) * BlockSize)
      \/ /\ k < n /\ Gaps(s) # {}
         /\ StepTo(d, BlocksCount, Max({occupied[BlocksCount],
                                        s - (BlocksCount - 1) * BlockSize}))
      \/ /\ k < n /\ BlocksCount > 0
         /\ Place(d, 0, SeatIndex(d) + BlocksCount - Seat(d) + 1, 0)
  BY <1>3 DEF Read
<1> HIDE DEF s, k, b
<1>9. ASSUME NEW v \in Nat, NEW o \in Int, StepTo(d, v, o), v > 0,
             (v - 1) * BlockSize + o = s + k
      PROVE  Pos' = [Pos EXCEPT ![d] = s + k] /\ Astray' = Astray /\ mode' = mode
  <2>1. /\ Pos' = [Pos EXCEPT ![d] = Spot(v, o)] /\ mode' = mode
        /\ Astray' = IF SeatIndex(d) + v - Seat(d) + 1 # v THEN Astray \cup {d} ELSE Astray \ {d}
    BY <1>9, PlacedFlat DEF StepTo
  <2>2. SeatIndex(d) + v - Seat(d) + 1 # v <=> SeatIndex(d) + 1 # Seat(d)
    BY <1>1
  <2>3. SeatIndex(d) + 1 # Seat(d) <=> d \in Astray
    BY StraySeat
  <2>4. Spot(v, o) = s + k
    BY <1>9 DEF Spot
  <2> QED BY <2>1, <2>2, <2>3, <2>4
<1>10. CASE (n = 0 \/ BlocksCount = 0) /\ StayPut(d)
  <2>1. k = 0 /\ s + k = s
    <3>1. BlocksCount = 0 => Size = 0
      BY SizeOf
    <3> QED BY <1>1, <1>4, <1>10, <3>1
  <2>2. Pos' = Pos /\ Astray' = Astray /\ mode' = mode
    BY <1>10, StayFlat
  <2>3. Pos' = [Pos EXCEPT ![d] = s + k]
    BY <1>2, <2>1, <2>2 DEF Pos
  <2> QED BY <2>2, <2>3, <1>2, <1>4, <1>7, ReadsFlat DEF s
<1>11. CASE k = n /\ n > 0 /\ StepTo(d, b, s + n - (b - 1) * BlockSize)
  <2>1. b \in Nat /\ b > 0
    BY SMTT(30), <1>1, <1>11, Blocks DEF b
  <2> DEFINE x == (b - 1) * BlockSize
             o == s + n - x
  <2>2. x \in Int
    BY <2>1, Products
  <2>3. StepTo(d, b, o)
    BY <1>11
  <2>4. o \in Int /\ x + o = s + k
    <3> HIDE DEF x
    <3> QED BY <1>1, <1>11, <2>2
  <2> HIDE DEF o
  <2>5. Pos' = [Pos EXCEPT ![d] = s + k] /\ Astray' = Astray /\ mode' = mode
    BY <1>9, <2>1, <2>3, <2>4
  <2> QED BY <2>5, <1>2, <1>4, <1>7, ReadsFlat DEF s
<1>12. CASE /\ k < n /\ Gaps(s) # {}
            /\ StepTo(d, BlocksCount, Max({occupied[BlocksCount],
                                           s - (BlocksCount - 1) * BlockSize}))
  <2> DEFINE x == (BlocksCount - 1) * BlockSize
             o == occupied[BlocksCount]
  <2>1. BlocksCount > 0 /\ Size = x + o /\ x \in Nat /\ o \in Int
    <3>1. BlocksCount > 0
      BY <1>3, <1>12
    <3>2. o \in 0..BlockSize /\ BlockSize \in Nat
      BY <3>1, SizeOf, Entries
    <3> QED BY <3>1, <3>2, SizeOf
  <2>2. StepTo(d, BlocksCount, Max({o, s - x}))
    BY <1>12
  <2> HIDE DEF x, o
  <2>3. Max({o, s - x}) = o
    <3>1. s - x \in Int /\ s - x <= o
      BY <1>1, <2>1
    <3>2. Max({o, s - x}) = IF o >= s - x THEN o ELSE s - x
      BY <2>1, <3>1, TwoInts
    <3> QED BY <2>1, <3>1, <3>2
  <2>4. x + o = s + k
    <3>1. k = Size - s
      BY <1>1, <1>4, <1>12
    <3> QED BY <1>1, <2>1, <3>1
  <2>5. Pos' = [Pos EXCEPT ![d] = s + k] /\ Astray' = Astray /\ mode' = mode
    BY <1>1, <1>9, <2>1, <2>2, <2>3, <2>4 DEF x
  <2> QED BY <2>5, <1>2, <1>4, <1>7, ReadsFlat DEF s
<1>13. CASE /\ k < n /\ BlocksCount > 0
            /\ Place(d, 0, SeatIndex(d) + BlocksCount - Seat(d) + 1, 0)
  <2>1. /\ Pos' = [Pos EXCEPT ![d] = 0] /\ mode' = mode
        /\ Astray' = IF SeatIndex(d) + BlocksCount - Seat(d) + 1 + 1 # 0
                     THEN Astray \cup {d} ELSE Astray \ {d}
    BY <1>13, PlacedFlat DEF Spot
  <2>2. Astray' = Astray \cup {d}
    BY <1>1, <1>13, <2>1
  <2> QED BY <2>1, <2>2, <1>2, <1>4, <1>7, <1>13, ReadsFlat DEF s
<1> QED
  BY <1>8, <1>10, <1>11, <1>12, <1>13

(* Blocks that are added hold nothing.  More than one of them, or one after a  *)
(* block that is not full, leave a hole.                                       *)
LEMMA GrowSize ==
  ASSUME Inv, Inv', ~Holed, ~Holed', NEW blanks, NEW more \in Nat,
         blanks = [i \in 1..more |-> 0], occupied' = occupied \o blanks
  PROVE  Size' = Size
<1>1. /\ BlocksCount \in Nat /\ BlockSize \in Nat \ {0} /\ Len(occupied) = BlocksCount
      /\ occupied \in Seq(0..BlockSize)
  BY Entries DEF Inv, DescriptorsOnBlocks, TypeOK, BlocksCount
<1>2. blanks \in Seq(0..BlockSize) /\ Len(blanks) = more
  <2>1. blanks \in [1..more -> 0..BlockSize]
    BY <1>1
  <2> QED BY <2>1, Tuples
<1>3. /\ Len(occupied') = BlocksCount + more
      /\ \A i \in 1..BlocksCount : occupied'[i] = occupied[i]
      /\ \A i \in (BlocksCount + 1)..(BlocksCount + more) : occupied'[i] = 0
  <2>1. /\ Len(occupied \o blanks) = Len(occupied) + Len(blanks)
        /\ \A i \in 1..(Len(occupied) + Len(blanks)) :
             (occupied \o blanks)[i] = IF i <= Len(occupied) THEN occupied[i]
                                       ELSE blanks[i - Len(occupied)]
    BY <1>1, <1>2, ConcatProperties
  <2>2. \A i \in 1..BlocksCount : occupied'[i] = occupied[i]
    BY <1>1, <1>2, <2>1
  <2>3. ASSUME NEW i \in (BlocksCount + 1)..(BlocksCount + more) PROVE occupied'[i] = 0
    <3>1. i - BlocksCount \in 1..more /\ i \in 1..(BlocksCount + more) /\ ~(i <= BlocksCount)
      BY <1>1
    <3> QED BY <1>1, <1>2, <2>1, <3>1
  <2> QED BY <1>1, <1>2, <2>1, <2>2, <2>3
<1>4. /\ BlocksCount' = BlocksCount + more
      /\ \A i \in 1..(BlocksCount + more - 1) : ~(occupied'[i] < BlockSize)
  BY <1>3 DEF BlocksCount, Holed
<1>5. PICK c \in Nat :
        /\ c = BlocksCount + more
        /\ Size' = IF c = 0 THEN 0 ELSE (c - 1) * BlockSize + occupied'[c]
  <2>1. PICK c \in Nat : c = BlocksCount + more /\ BlocksCount' = c
    BY <1>1, <1>4
  <2>2. Size' = IF c = 0 THEN 0 ELSE (c - 1) * BlockSize + occupied'[c]
    BY <2>1 DEF Size
  <2> QED BY <2>1, <2>2
<1>6. CASE more = 0
  <2>1. c = BlocksCount
    BY <1>1, <1>5, <1>6
  <2>2. BlocksCount > 0 => occupied'[BlocksCount] = occupied[BlocksCount]
    BY <1>1, <1>3
  <2>3. Size' = IF BlocksCount = 0 THEN 0
                ELSE (BlocksCount - 1) * BlockSize + occupied'[BlocksCount]
    BY <1>5, <2>1, Zenon
  <2>4. CASE BlocksCount = 0
    BY <2>3, <2>4 DEF Size
  <2>5. CASE BlocksCount # 0
    <3>1. occupied'[BlocksCount] = occupied[BlocksCount]
      BY <1>1, <2>2, <2>5
    <3> QED BY <2>3, <2>5, <3>1, Zenon DEF Size
  <2> QED BY <2>4, <2>5
<1>7. CASE more >= 2
  <2>1. BlocksCount + 1 \in 1..(BlocksCount + more - 1)
        /\ BlocksCount + 1 \in (BlocksCount + 1)..(BlocksCount + more)
    BY <1>1, <1>7
  <2> QED BY SMTT(30), <1>1, <1>3, <1>4, <2>1
<1>8. CASE more = 1
  <2>1. /\ c - 1 = BlocksCount /\ c # 0
        /\ occupied'[c] = 0
    <3>1. c \in (BlocksCount + 1)..(BlocksCount + more)
      BY <1>1, <1>5, <1>8
    <3> QED BY <1>1, <1>3, <1>5, <1>8, <3>1
  <2>2. BlocksCount * BlockSize \in Nat
    BY <1>1
  <2>3. Size' = BlocksCount * BlockSize
    <3>1. Size' = BlocksCount * BlockSize + 0
      BY <1>5, <2>1, Zenon
    <3> DEFINE y == BlocksCount * BlockSize
    <3> HIDE DEF y
    <3>2. y \in Nat /\ Size' = y + 0
      BY <2>2, <3>1 DEF y
    <3>3. Size' = y
      BY <3>2
    <3> QED BY <3>3 DEF y
  <2>4. CASE BlocksCount = 0
    BY <1>1, <2>3, <2>4, SizeOf
  <2>5. CASE BlocksCount > 0
    <3>1. ~(occupied[BlocksCount] < BlockSize)
      <4>1. BlocksCount \in 1..(BlocksCount + more - 1) /\ BlocksCount \in 1..BlocksCount
        BY <1>1, <1>8, <2>5
      <4> QED BY <1>3, <1>4, <4>1
    <3>2. occupied[BlocksCount] = BlockSize
      BY <1>1, <2>5, <3>1, SizeOf
    <3> QED BY <2>3, <2>5, <3>2, SizeOf
  <2> QED BY <1>1, <2>4, <2>5
<1> QED BY <1>1, <1>6, <1>7, <1>8

LEMMA GrowFlat ==
  ASSUME Inv, GapInv, Inv', GapInv', ~Holed, ~Holed', NEW n \in 0..MaxSize, Grow(n)
  PROVE  Flat!Next \/ KeepsTail
<1> DEFINE more == BlocksFor(n) - BlocksCount
           blanks == [i \in 1..more |-> 0]
           zeros == [a \in 1..(more * BlockSize) |-> Zero]
<1>1. BlocksCount \in Nat /\ BlockSize \in Nat \ {0} /\ Zero \in Bytes
  BY Entries, FileAssumption
<1>2. more \in Nat
  <2>1. MaxSize \in Nat
    BY FileAssumption, Products DEF MaxSize
  <2>2. BlocksFor(n) \in Nat
    BY <2>1, Blocks
  <2> QED
    BY <1>1, <2>2 DEF Grow
<1>3. zeros \in Seq(Bytes)
  <2>1. zeros \in [1..(more * BlockSize) -> Bytes] /\ more * BlockSize \in Nat
    BY <1>1, <1>2
  <2> HIDE DEF more, zeros
  <2> QED BY <2>1, Tuples
<1>4. /\ occupied' = occupied \o blanks /\ memory' = memory \o zeros
      /\ UNCHANGED descVars /\ Resized(0, n) /\ BlocksFor(n) >= BlocksCount
  BY DEF Grow
<1> HIDE DEF more, zeros
<1>5. Size' = Size
  BY <1>2, <1>4, GrowSize
<1> HIDE DEF blanks
<1>6. \A a \in 1..Size : memory'[a] = memory[a]
  <2>1. /\ memory \in Seq(Bytes) /\ Len(memory) \in Nat /\ Size \in Nat /\ Size <= Len(memory)
    BY Whole
  <2>2. \A a \in 1..Len(memory) : (memory \o zeros)[a] = memory[a]
    BY <1>3, <2>1, ConcatProperties
  <2> QED BY <1>4, <2>1, <2>2
<1>7. Content' = Content
  BY <1>5, <1>6, FrontNow, FrontNext DEF FrontIs
<1>8. Pos' = Pos
  BY <1>4, Spots, SpotsNext DEF AddressesAre, Spot, Pos, descVars
<1>9. Astray' = Astray /\ Opened' = Opened
  BY <1>4 DEF Astray, Opened, descVars
<1>10. Size \in Nat /\ Len(Content) = Size
  BY Whole
<1>11. CASE n < Size
  <2>1. n \in 0..(Size - 1)
    BY <1>10, <1>11
  <2> QED BY <2>1 DEF KeepsTail
<1>12. CASE n >= Size
  <2>1. Flat!Grow(n)
    BY <1>4, <1>7, <1>8, <1>9, <1>10, <1>12
    DEF Flat!Grow, Flat!Resized, Resized, Content, Pos, Astray, Opened
  <2> QED BY <2>1 DEF Flat!Next
<1> QED
  BY <1>10, <1>11, <1>12

LEMMA NotBehindNext ==
  (Inv /\ GapInv /\ ~Holed => Pos \in [Descriptors -> 0..Size])'
<1>1. Inv /\ GapInv /\ ~Holed => Pos \in [Descriptors -> 0..Size]
  <2> SUFFICES ASSUME Inv, GapInv, ~Holed PROVE Pos \in [Descriptors -> 0..Size]
    OBVIOUS
  <2>1. \A d \in Descriptors : Address(d) \in 0..Size
    BY NotBehind, Whole
  <2> QED BY <2>1 DEF Pos
<1> QED BY <1>1, PTL

(* A descriptor that is not astray has the index of its block, and so is moved *)
(* if its block is freed; it comes to the new end unless its offset was less.  *)
LEMMA ShrinkFlat ==
  ASSUME Inv, GapInv, Inv', GapInv', ~Holed, ~Holed', NEW n \in 0..MaxSize, Shrink(n)
  PROVE  Flat!Next \/ LeavesShort
<1> DEFINE B == BlocksFor(n)
           count == Max({B, 1})
           end == n - (count - 1) * BlockSize
           moved(d) == mode[d] # "closed" /\ index[d] >= count
           at(d) == IF moved(d) THEN count - 1 ELSE index[d]
           cut(d) == mode[d] # "closed" /\ at(d) = count - 1
<1>1. /\ BlockSize \in Nat \ {0} /\ BlocksCount \in Nat /\ MaxSize \in Nat /\ n \in Nat
      /\ Size \in Nat /\ Size <= Len(memory) /\ Len(memory) = BlocksCount * BlockSize
      /\ Len(memory) \in Nat /\ memory \in Seq(Bytes)
  BY Entries, FileAssumption, Products, Whole DEF MaxSize
<1>2. /\ occupied' = [i \in 1..count |-> IF i = count THEN end ELSE occupied[i]]
      /\ memory' = SubSeq(memory, 1, count * BlockSize)
      /\ index' = [d \in Descriptors |-> at(d)]
      /\ block' = [d \in Descriptors |-> IF moved(d) THEN count ELSE block[d]]
      /\ offset' = [d \in Descriptors |->
                      IF cut(d) THEN Min({offset[d], end}) ELSE offset[d]]
      /\ Resized(0, n) /\ mode' = mode
  BY DEF Shrink, Behind, OffsetCut
<1>3. B \in Nat /\ B < BlocksCount /\ n <= B * BlockSize
      /\ (n > 0 => B >= 1 /\ (B - 1) * BlockSize < n) /\ (n = 0 => B = 0)
  BY <1>1, Blocks DEF Shrink
<1> HIDE DEF B
<1>4. count = IF B >= 1 THEN B ELSE 1
  BY <1>3, TwoInts
<1>5. count \in Nat /\ count >= 1 /\ count <= BlocksCount
  BY <1>1, <1>3, <1>4
<1>6. (count - 1) * BlockSize <= n /\ n <= count * BlockSize
      /\ (count - 1) * BlockSize \in Nat /\ count * BlockSize \in Nat
      /\ count * BlockSize <= Len(memory)
      /\ (count - 1) * BlockSize + BlockSize = count * BlockSize
  <2>1. (count - 1) * BlockSize \in Nat /\ count * BlockSize \in Nat
        /\ (count - 1) * BlockSize + BlockSize = count * BlockSize
    BY <1>1, <1>5
  <2>2. count * BlockSize <= Len(memory)
    BY <1>1, <1>5, Products
  <2>3. CASE n = 0
    <3>1. count = 1 /\ (count - 1) * BlockSize = 0
      BY <1>1, <1>3, <1>4, <2>3
    <3> QED BY <1>1, <2>1, <2>2, <2>3, <3>1
  <2>4. CASE n > 0
    <3>1. count = B
      BY <1>1, <1>3, <1>4, <2>4
    <3>2. (count - 1) * BlockSize < n /\ n <= count * BlockSize
      BY <1>1, <1>3, <2>4, <3>1
    <3> DEFINE x == (count - 1) * BlockSize
               y == count * BlockSize
    <3> HIDE DEF x, y, count
    <3>3. x <= n
      BY <1>1, <2>1, <3>2 DEF x
    <3> QED BY <2>1, <2>2, <3>2, <3>3 DEF x
  <2> QED BY <1>1, <2>3, <2>4
<1> HIDE DEF count
<1>7. Size' = n
  <2>1. occupied' \in Seq(0..BlockSize)
    BY DEF Inv, DescriptorsOnBlocks, TypeOK
  <2>2. DOMAIN occupied' = 1..count
    BY <1>2
  <2>3. BlocksCount' = count
    BY <1>5, <2>1, <2>2, LenProperties DEF BlocksCount
  <2>4. Size' = (count - 1) * BlockSize + occupied'[count]
    BY <1>5, <2>3 DEF Size
  <2>5. occupied'[count] = end
    BY <1>2, <1>5
  <2> DEFINE x == (count - 1) * BlockSize
  <2>6. Size' = x + (n - x) /\ x \in Nat
    BY <1>6, <2>4, <2>5
  <2> HIDE DEF x
  <2> QED BY <1>1, <2>6
<1> HIDE DEF end
<1>8. n <= Size
  <2> DEFINE y == count * BlockSize
             x == (BlocksCount - 1) * BlockSize
  <2>1. CASE n = 0
    BY <1>1, <2>1
  <2>2. CASE n > 0
    <3>1. count <= BlocksCount - 1
      BY <1>1, <1>3, <1>4, <2>2
    <3>2. y <= x
      BY <1>1, <1>5, <3>1, Products
    <3>3. x <= Size /\ x \in Nat
      BY <1>1, <1>5, SizeOf
    <3>4. n <= y /\ y \in Nat
      BY <1>6
    <3> HIDE DEF x, y
    <3> QED BY <1>1, <3>2, <3>3, <3>4
  <2> QED BY <1>1, <2>1, <2>2
<1>9. Content' = SubSeq(Content, 1, n)
  <2>1. /\ Content' = [a \in 1..n |-> memory'[a]]
        /\ Content \in Seq(Bytes) /\ Len(Content) = Size
        /\ \A a \in 1..Size : Content[a] = memory[a]
    BY <1>7, FrontNext, Whole DEF FrontIs
  <2>2. n \in 0..Len(Content)
    BY <1>1, <1>8, <2>1
  <2>3. SubSeq(Content, 1, n) = [a \in 1..n |-> Content[a]]
    BY <2>1, <2>2, Front
  <2>4. ASSUME NEW a \in 1..n PROVE memory'[a] = Content[a]
    <3> DEFINE y == count * BlockSize
    <3>1. y \in 0..Len(memory)
      BY <1>1, <1>6
    <3>2. \A c \in 1..y : SubSeq(memory, 1, y)[c] = memory[c]
      BY <1>1, <3>1, Front
    <3>3. n <= y
      BY <1>6
    <3>4. memory' = SubSeq(memory, 1, y)
      BY <1>2
    <3> HIDE DEF y
    <3>5. a \in 1..y /\ a \in 1..Size
      BY <1>1, <1>8, <3>1, <3>3
    <3> QED BY <2>1, <3>2, <3>4, <3>5
  <2> QED BY <2>1, <2>3, <2>4
<1>10. Pos' \in [Descriptors -> 0..n]
  BY <1>7, NotBehindNext
<1>11. ASSUME NEW d \in Descriptors
       PROVE  /\ index[d] \in Int /\ block[d] \in Nat /\ offset[d] \in Nat
              /\ block[d] = 0 => offset[d] = 0
              /\ moved(d) => index'[d] = count - 1 /\ block'[d] = count
              /\ ~moved(d) => index'[d] = index[d] /\ block'[d] = block[d]
              /\ ~cut(d) => offset'[d] = offset[d]
  <2>1. /\ index'[d] = at(d)
        /\ block'[d] = IF moved(d) THEN count ELSE block[d]
        /\ offset'[d] = IF cut(d) THEN Min({offset[d], end}) ELSE offset[d]
    BY <1>2
  <2> QED BY <1>1, <2>1 DEF Inv, DescriptorsOnBlocks, TypeOK, GapInv
<1>12. Astray' \in SUBSET Astray
  <2>1. ASSUME NEW d \in Descriptors, index[d] + 1 = block[d] PROVE index'[d] + 1 = block'[d]
    <3>1. CASE moved(d)
      <4>1. index'[d] = count - 1 /\ block'[d] = count
        BY <1>11, <3>1
      <4> QED BY <1>5, <4>1
    <3>2. CASE ~moved(d)
      <4>1. index'[d] = index[d] /\ block'[d] = block[d]
        BY <1>11, <3>2
      <4> QED BY <2>1, <4>1
    <3> QED BY <3>1, <3>2
  <2> QED BY <2>1 DEF Astray
<1>13. \A d \in Descriptors : Address(d) = Spot(block[d], offset[d])
                              /\ Address(d)' = Spot(block'[d], offset'[d])
  BY Spots, SpotsNext DEF AddressesAre, Spot
(* Where a descriptor on its track comes to, by the place it was at: before   *)
(* the last block, on it, or on one that is freed.                            *)
<1>14. ASSUME NEW d \in OnTrack, d \notin LeftShort(n)
       PROVE  Pos'[d] = IF Pos[d] < n THEN Pos[d] ELSE n
  <2> DEFINE j == block[d]
             o == offset[d]
             i == index[d]
             x == (j - 1) * BlockSize
             z == (count - 1) * BlockSize
             y == count * BlockSize
  <2>1. /\ d \in Descriptors /\ mode[d] # "closed" /\ i + 1 = j
        /\ Pos[d] = Spot(j, o) /\ Pos'[d] = Spot(block'[d], offset'[d])
    BY <1>13 DEF OnTrack, Pos
  <2>2. i \in Int /\ j \in Nat /\ o \in 0..BlockSize /\ (j = 0 => o = 0)
    BY <1>11, <2>1 DEF Inv, DescriptorsOnBlocks, TypeOK
  <2>3. i = j - 1
    <3> HIDE DEF i, j, o
    <3> QED BY <2>1, <2>2
  <2>4. end = n - z /\ z \in Nat /\ y \in Nat /\ z <= n /\ n <= y /\ z + BlockSize = y
    BY <1>6 DEF end
  <2>5. ASSUME j # 0 PROVE Pos[d] = x + o /\ x \in Nat
    <3>1. Pos[d] = x + o
      BY <2>1, <2>5 DEF Spot
    <3>2. x \in Int
      BY <1>1, <2>2
    <3>3. 0 * BlockSize <= x
      <4>1. 0 <= j - 1 /\ j - 1 \in Int
        <5> HIDE DEF j
        <5> QED BY <2>2, <2>5
      <4> HIDE DEF j
      <4> QED BY <4>1, Products
    <3>4. 0 * BlockSize = 0
      BY <1>1
    <3> HIDE DEF x
    <3> QED BY <3>1, <3>2, <3>3, <3>4
  <2>6. CASE j = 0
    <3>1. i < count /\ i # count - 1
      <4> HIDE DEF i, j
      <4> QED BY <1>5, <2>3, <2>6
    <3>2. ~moved(d) /\ ~cut(d)
      BY <1>5, <2>2, <3>1
    <3>3. Pos'[d] = Pos[d] /\ Pos[d] = 0
      <4> HIDE DEF moved, at, cut
      <4> QED BY <1>11, <2>1, <2>2, <2>6, <3>2 DEF Spot
    <3> QED BY <1>1, <3>3
  <2>7. CASE j # 0 /\ j < count
    <3>1. i < count /\ i # count - 1
      <4> HIDE DEF i, j
      <4> QED BY <1>5, <2>2, <2>3, <2>7
    <3>2. ~moved(d) /\ ~cut(d)
      BY <1>5, <2>2, <3>1
    <3>3. Pos'[d] = Pos[d]
      <4> HIDE DEF moved, at, cut
      <4> QED BY <1>11, <2>1, <3>2
    <3>4. x + BlockSize <= z
      <4>1. j <= count - 1 /\ j * BlockSize <= z
        <5>1. j <= count - 1
          <6> HIDE DEF j
          <6> QED BY <1>5, <2>2, <2>7
        <5>2. j \in Int /\ count - 1 \in Int
          BY <1>5, <2>2
        <5> HIDE DEF j
        <5> QED BY <5>1, <5>2, Products
      <4>2. x + BlockSize = j * BlockSize
        BY <1>1, <2>2
      <4> QED BY <4>1, <4>2
    <3>5. Pos[d] = x + o /\ x \in Nat
      BY <2>5, <2>7
    <3> HIDE DEF x, z, y, j, o, i
    <3>6. Pos[d] <= n /\ Pos[d] \in Nat
      BY <1>1, <2>2, <2>4, <3>4, <3>5
    <3> QED BY <1>1, <3>3, <3>6
  <2>8. CASE j = count
    <3>1. i = count - 1
      BY <2>3, <2>8
    <3>2. ~moved(d)
      BY <1>5, <3>1
    <3>3. cut(d)
      BY <2>1, <3>1, <3>2
    <3>4. offset'[d] = Min({o, end})
      BY <1>2, <2>1, <3>3
    <3>5. block'[d] = j
      <4> HIDE DEF moved, at, cut
      <4> QED BY <1>11, <2>1, <3>2
    <3>6. x = z /\ Pos[d] = x + o /\ x \in Nat
      BY <1>5, <2>5, <2>8
    <3>7. end \in Int /\ Min({o, end}) = IF o <= end THEN o ELSE end
      <4>1. end \in Int
        BY <1>1, <2>4
      <4>2. o \in Int
        BY <1>1, <2>2
      <4> HIDE DEF o
      <4> QED BY <4>1, <4>2, TwoInts
    <3>8. Pos'[d] = x + Min({o, end})
      BY <1>5, <2>1, <2>8, <3>4, <3>5 DEF Spot
    <3> HIDE DEF x, z, y, j, o, i
    <3>9. Pos'[d] = IF o <= end THEN x + o ELSE x + end
      BY <3>7, <3>8
    <3> QED BY <1>1, <2>2, <2>4, <3>6, <3>7, <3>9
  <2>9. CASE j > count
    <3>1. i >= count
      <4> HIDE DEF i, j
      <4> QED BY <1>5, <2>2, <2>3, <2>9
    <3>2. moved(d) /\ cut(d)
      BY <1>5, <2>1, <3>1
    <3>3. offset'[d] = Min({o, end})
      BY <1>2, <2>1, <3>2
    <3>4. block'[d] = count
      <4> HIDE DEF moved, at, cut
      <4> QED BY <1>11, <2>1, <3>2
    <3>5. ~(o < end)
      <4>1. LeftShort(n) = {c \in Descriptors : block[c] > count /\ offset[c] < end}
        BY DEF LeftShort, B, count, end
      <4> QED BY <2>1, <2>9, <4>1, <1>14
    <3>6. end \in Int /\ Min({o, end}) = IF o <= end THEN o ELSE end
      <4>1. end \in Int
        BY <1>1, <2>4
      <4>2. o \in Int
        BY <1>1, <2>2
      <4> HIDE DEF o
      <4> QED BY <4>1, <4>2, TwoInts
    <3>7. Min({o, end}) = end
      BY <2>2, <3>5, <3>6
    <3>8. Pos'[d] = z + end
      BY <1>5, <2>1, <3>3, <3>4, <3>7 DEF Spot
    <3>9. y <= x
      <4>1. count <= j - 1
        <5> HIDE DEF j
        <5> QED BY <1>5, <2>2, <2>9
      <4>2. count \in Int /\ j - 1 \in Int
        BY <1>5, <2>2
      <4> HIDE DEF j
      <4> QED BY <4>1, <4>2, Products
    <3>10. Pos[d] = x + o /\ x \in Nat
      BY <1>5, <2>5, <2>9
    <3> HIDE DEF x, z, y, j, o, i
    <3>11. Pos'[d] = n
      BY <1>1, <2>4, <3>6, <3>8
    <3>12. ~(Pos[d] < n)
      BY <1>1, <2>2, <2>4, <3>9, <3>10
    <3> QED BY <3>11, <3>12
  <2> QED BY <1>5, <2>2, <2>6, <2>7, <2>8, <2>9
<1>15. n <= Len(Content)
  BY <1>1, <1>8, Whole
<1>16. Flat!Truncate(n, OnTrack \ LeftShort(n))
  BY <1>2, <1>9, <1>10, <1>12, <1>14, <1>15
  DEF Flat!Truncate, Flat!Resized, Resized, Content, Pos, Astray, Opened
<1>17. CASE LeftShort(n) = {}
  <2>1. ASSUME NEW d \in Opened \ Astray PROVE Pos'[d] = IF Pos[d] < n THEN Pos[d] ELSE n
    BY <1>14, <1>17 DEF OnTrack, Opened, Astray
  <2>2. Flat!Shrink(n)
    BY <1>2, <1>9, <1>10, <1>12, <1>15, <2>1
    DEF Flat!Shrink, Flat!Truncate, Flat!Resized, Resized, Content, Pos, Astray, Opened
  <2> QED BY <2>2 DEF Flat!Next
<1>18. CASE LeftShort(n) # {}
  BY <1>16, <1>18 DEF LeavesShort
<1> QED
  BY <1>17, <1>18

LEMMA NextFlat ==
  ASSUME Inv, GapInv, [Next]_vars
  PROVE  [Holed \/ Holed' \/ Flat!Next \/ KeepsTail \/ LeavesShort]_vars
<1> SUFFICES ASSUME Next, ~Holed, ~Holed' PROVE Flat!Next \/ KeepsTail \/ LeavesShort
  OBVIOUS
<1>0. Inv' /\ GapInv'
  BY NextInv, NextGap
<1>1. ASSUME NEW d \in Descriptors, NEW m \in Modes, Open(d, m) PROVE Flat!Next
  BY <1>0, <1>1, OpenFlat
<1>2. ASSUME NEW d \in Descriptors, Close(d) PROVE Flat!Next
  BY <1>0, <1>2, CloseFlat
<1>3. ASSUME NEW d \in Descriptors, WriteRefused(d) \/ ReadRefused(d) PROVE Flat!Next
  BY <1>0, <1>3, RefuseFlat
<1>4. ASSUME NEW d \in Descriptors, NEW b \in Buffers, Write(d, b) PROVE Flat!Next
  BY <1>0, <1>4, WriteFlat
<1>5. ASSUME NEW d \in Descriptors, NEW n \in 0..MaxRead, Read(d, n) PROVE Flat!Next
  BY <1>0, <1>5, ReadFlat
<1>6. ASSUME NEW n \in 0..MaxSize, Grow(n) PROVE Flat!Next \/ KeepsTail
  BY <1>0, <1>6, GrowFlat
<1>7. ASSUME NEW n \in 0..MaxSize, Shrink(n) PROVE Flat!Next \/ LeavesShort
  BY <1>0, <1>7, ShrinkFlat
<1>8. CASE ResizeRefused
  <2>1. Content' = Content
    BY <1>8, KeptFlat DEF ResizeRefused
  <2>2. Astray' = Astray /\ Opened' = Opened
    BY <1>8 DEF ResizeRefused, descVars, Astray, Opened
  <2>3. Pos' = Pos
    BY <1>0, <1>8, Spots, SpotsNext DEF AddressesAre, Spot, Pos, ResizeRefused, descVars
  <2>4. Flat!RefuseResize
    BY <1>8, <2>1, <2>2, <2>3
    DEF Flat!RefuseResize, Flat!Resized, ResizeRefused, Resized, Content, Pos, Astray, Opened
  <2> QED BY <2>4 DEF Flat!Next
<1> QED
  BY <1>1, <1>2, <1>3, <1>4, <1>5, <1>6, <1>7, <1>8 DEF Next

LEMMA InitFlat == Init => Flat!Init
<1> SUFFICES ASSUME Init PROVE Flat!Init
  OBVIOUS
<1>1. Content = <<>>
  <2>1. Inv /\ BlocksCount = 0
    BY InitInv DEF Init, BlocksCount
  <2>2. Content \in Seq(Bytes) /\ Len(Content) = 0
    BY <2>1, Whole, SizeOf
  <2> QED BY <2>2, EmptySeq
<1>2. Pos = [d \in Descriptors |-> 0]
  BY DEF Init, Pos, Address, Seat, LacksBlock, BlocksCount
<1>3. Astray = {} /\ Opened = {}
  BY DEF Init, Astray, Opened
<1> QED
  BY <1>1, <1>2, <1>3 DEF Init, Flat!Init, Content, Pos, Astray, Opened

(* As long as no growing has left a hole, ufs_write, ufs_read and ufs_resize   *)
(* (userfs.c:275, 325, 427) make of the list of blocks a sequence of bytes     *)
(* with a position for every descriptor: a write changes the bytes it covers   *)
(* and no others, a read returns the bytes from the position on, a shrinking   *)
(* cuts off what is behind the new end and moves there who was behind it, and  *)
(* no call moves a descriptor other than its own.  The exceptions are exactly  *)
(* the sizes within the last block, which cut nothing, and the descriptors a   *)
(* shrinking leaves before the new end (userfs.c:489).                         *)
THEOREM FileActsFlat == Spec => ActsAsFlatFile
<1>1. Init => GapInv
  BY DEF Init, GapInv, NoGapBeforeWrite
<1>2. Inv /\ GapInv /\ [Next]_vars => GapInv'
  BY NextGap
<1>3. Inv /\ GapInv /\ [Next]_vars => [Holed \/ Holed' \/ Flat!Next \/ KeepsTail \/ LeavesShort]_vars
  BY NextFlat
<1> QED
  BY <1>1, <1>2, <1>3, InitInv, NextInv, InitFlat, PTL DEF Spec, ActsAsFlatFile
===============================================================================
