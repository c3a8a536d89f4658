---------------------------- MODULE SortFilesProofs ----------------------------
(***************************************************************************)
(* The ring of coroutines is sound for any number of coroutines and files,  *)
(* whoever yields or returns in which order, and it takes turns as          *)
(* RoundRobin promises.  A file has one sorter until it is sorted, and what *)
(* main merges of them is the sorted whole.                                 *)
(***************************************************************************)
EXTENDS SortFiles, MergeLemmas, TLAPS

(* The ring: n coroutines s[1], ..., s[n] in the order of their links, with   *)
(* the sentinel before the first and behind the last.                         *)
Place(s, n, i) == IF i \in 1..n THEN s[i] ELSE Sentinel

IsRing(s, n) ==
  /\ \A i \in 1..n : s[i] \in allocated
  /\ \A c \in allocated : \E i \in 1..n : s[i] = c
  /\ \A i, j \in 1..n : s[i] = s[j] => i = j
  /\ \A i \in 0..n : next[Place(s, n, i)] = Place(s, n, i + 1)
  /\ \A i \in 0..n : prev[Place(s, n, i + 1)] = Place(s, n, i)

RingInv ==
  /\ next \in [Nodes -> Nodes] /\ prev \in [Nodes -> Nodes]
  /\ allocated \subseteq Coroutines
  /\ \E n \in Nat : \E s \in [1..n -> Coroutines] : IsRing(s, n)

PhaseInv ==
  /\ n_coro \in Coroutines
  /\ main = "create" => loop = "new"
  /\ loop \in {"new", "running", "over"}
  /\ loop = "running" => current \in allocated
  /\ loop = "over" => allocated = {}

Inv == RingInv /\ PhaseInv

(* The sentinel is no coroutine. *)
LEMMA Sentinels == Sentinel \notin Coroutines /\ Coroutines \subseteq Nodes /\ Sentinel \in Nodes
  BY CoroutinesAssumption DEF Sentinel, Nodes

(* What the library relies on follows from the order. *)
LEMMA InvIsEnough == Inv => NoStrayPointer
  <1> SUFFICES ASSUME Inv, loop # "over", NEW c \in allocated \cup {Sentinel}
               PROVE  next[c] \in allocated \cup {Sentinel} /\ prev[next[c]] = c
    BY DEF Inv, PhaseInv, NoStrayPointer
  <1>1. PICK n \in Nat : \E s \in [1..n -> Coroutines] : IsRing(s, n)
    BY DEF Inv, RingInv
  <1>2. PICK s \in [1..n -> Coroutines] : IsRing(s, n)
    BY <1>1
  <1>3. \E i \in 0..n : c = Place(s, n, i)
    <2>1. CASE c = Sentinel
      <3>1. 0 \in 0..n /\ Place(s, n, 0) = Sentinel
        BY DEF Place
      <3> QED BY <2>1, <3>1
    <2>2. CASE c \in allocated
      BY <1>2, <2>2 DEF IsRing, Place
    <2> QED BY <2>1, <2>2
  <1>4. PICK i \in 0..n : c = Place(s, n, i)
    BY <1>3
  <1>5. next[c] = Place(s, n, i + 1) /\ prev[Place(s, n, i + 1)] = c
    BY <1>2, <1>4 DEF IsRing
  <1>6. Place(s, n, i + 1) \in allocated \cup {Sentinel}
    BY <1>2 DEF IsRing, Place
  <1> QED BY <1>5, <1>6

(* At the start the ring is empty. *)
LEMMA InvInit == Init => Inv
  <1> SUFFICES ASSUME Init PROVE Inv
    OBVIOUS
  <1>1. PhaseInv
    BY DEF Init, LoopInit, PhaseInv
  <1>2. next \in [Nodes -> Nodes] /\ prev \in [Nodes -> Nodes] /\ allocated \subseteq Coroutines
    BY Sentinels DEF Init, LoopInit
  <1>3. IsRing([k \in 1..0 |-> 1], 0)
    BY Sentinels DEF Init, LoopInit, IsRing, Place
  <1>4. [k \in 1..0 |-> 1] \in [1..0 -> Coroutines] /\ 0 \in Nat
    OBVIOUS
  <1> QED BY <1>1, <1>2, <1>3, <1>4 DEF Inv, RingInv

(* A new coroutine becomes the last of the ring. *)
Longer(s, n, c) == [i \in 1..(n + 1) |-> IF i = n + 1 THEN c ELSE s[i]]

LEMMA CreateAtEnd ==
  ASSUME RingInv, NEW c \in Coroutines, coro_create(c),
         NEW n \in Nat, NEW s \in [1..n -> Coroutines], IsRing(s, n)
  PROVE  /\ next' \in [Nodes -> Nodes] /\ prev' \in [Nodes -> Nodes]
         /\ allocated' \subseteq Coroutines
         /\ Longer(s, n, c) \in [1..(n + 1) -> Coroutines]
         /\ IsRing(Longer(s, n, c), n + 1)'
  <1> DEFINE r == Longer(s, n, c)
             last == Place(s, n, n)
  <1> USE DEF Longer
  <1>2. IsRing(s, n)
    OBVIOUS
  <1>3. prev[Sentinel] = last /\ next[last] = Sentinel /\ last \in Nodes /\ last # c
    <2>1. n \in 0..n /\ Place(s, n, n + 1) = Sentinel
      BY DEF Place
    <2>2. last = Sentinel \/ last \in allocated
      BY <1>2 DEF Place, IsRing
    <2> QED BY <1>2, <2>1, <2>2, Sentinels DEF IsRing, RingInv, coro_create
  <1>4. /\ next' = [next EXCEPT ![c] = Sentinel, ![last] = c]
        /\ prev' = [prev EXCEPT ![c] = last, ![Sentinel] = c]
        /\ allocated' = allocated \cup {c} /\ c \notin allocated
    BY <1>3 DEF coro_create
  <1>5. next' \in [Nodes -> Nodes] /\ prev' \in [Nodes -> Nodes] /\ allocated' \subseteq Coroutines
    BY <1>3, <1>4, Sentinels DEF RingInv
  <1>6. n + 1 \in Nat /\ r \in [1..(n + 1) -> Coroutines]
    OBVIOUS
  <1>7. \A i \in 0..n : Place(r, n + 1, i) = Place(s, n, i)
    BY DEF Place
  <1>8. Place(r, n + 1, n + 1) = c /\ Place(r, n + 1, n + 2) = Sentinel
    BY DEF Place
  <1>9. \A i \in 1..(n + 1) : r[i] \in allocated'
    BY <1>2, <1>4 DEF IsRing
  <1>10. \A d \in allocated' : \E i \in 1..(n + 1) : r[i] = d
    <2>1. r[n + 1] = c /\ n + 1 \in 1..(n + 1)
      OBVIOUS
    <2>2. ASSUME NEW d \in allocated PROVE \E i \in 1..(n + 1) : r[i] = d
      BY <1>2 DEF IsRing
    <2> QED BY <1>4, <2>1, <2>2
  <1>11. \A i, j \in 1..(n + 1) : r[i] = r[j] => i = j
    BY <1>2, <1>4 DEF IsRing
  <1>12. ASSUME NEW i \in 0..(n + 1)
         PROVE  /\ next'[Place(r, n + 1, i)] = Place(r, n + 1, i + 1)
                /\ prev'[Place(r, n + 1, i + 1)] = Place(r, n + 1, i)
    <2>1. CASE i = n + 1
      BY <1>3, <1>4, <1>8, <2>1, Sentinels DEF RingInv
    <2>2. CASE i = n
      <3>1. Place(r, n + 1, i) = last
        BY <1>7, <2>2
      <3> QED BY <1>3, <1>4, <1>8, <2>2, <3>1, Sentinels DEF RingInv
    <2>3. CASE i < n
      <3>1. i \in 0..n /\ i + 1 \in 1..n
        BY <2>3
      <3>2. /\ Place(r, n + 1, i) = Place(s, n, i) /\ Place(r, n + 1, i + 1) = s[i + 1]
            /\ Place(s, n, i + 1) = s[i + 1]
        BY <1>7, <3>1 DEF Place
      <3>3. next[Place(s, n, i)] = s[i + 1] /\ prev[s[i + 1]] = Place(s, n, i)
        BY <1>2, <3>1, <3>2 DEF IsRing
      <3>4. Place(s, n, i) \in Nodes \ {c} /\ s[i + 1] \in Nodes \ {c, Sentinel}
        BY <1>2, <1>4, <3>1, Sentinels DEF IsRing, Place, RingInv
      <3>5. Place(s, n, i) # last
        <4>1. n \in 1..n /\ last = s[n] /\ n \in Nat \ {0}
          BY <2>3 DEF Place
        <4> QED BY <1>2, <2>3, <3>1, <4>1, Sentinels DEF IsRing, Place, RingInv
      <3> QED BY <1>3, <1>4, <3>2, <3>3, <3>4, <3>5 DEF RingInv
    <2> QED BY <2>1, <2>2, <2>3
  <1> HIDE DEF r, Longer
  <1>13. IsRing(r, n + 1)'
    BY <1>9, <1>10, <1>11, <1>12 DEF IsRing, Place
  <1> QED BY <1>5, <1>6, <1>13 DEF r

LEMMA CreateKeepsRing ==
  ASSUME RingInv, NEW c \in Coroutines, coro_create(c)
  PROVE  RingInv'
  <1>1. PICK n \in Nat : \E s \in [1..n -> Coroutines] : IsRing(s, n)
    BY DEF RingInv
  <1>2. PICK s \in [1..n -> Coroutines] : IsRing(s, n)
    BY <1>1
  <1>3. n + 1 \in Nat
    OBVIOUS
  <1> QED BY <1>2, <1>3, CreateAtEnd DEF RingInv

(* A node has one place; the sentinel has the first one and the last. *)
LEMMA OnePlace ==
  ASSUME NEW n \in Nat, NEW s \in [1..n -> Coroutines], IsRing(s, n)
  PROVE  /\ \A i, j \in 0..n : Place(s, n, i) = Place(s, n, j) => i = j
         /\ \A i, j \in 1..(n + 1) : Place(s, n, i) = Place(s, n, j) => i = j
  BY Sentinels DEF IsRing, Place

(* The node a coroutine hands over to is not freed. *)
LEMMA AfterIsAllocated ==
  ASSUME RingInv, NEW c \in allocated
  PROVE  NodeAfter(c) \in allocated
  <1>1. PICK n \in Nat : \E s \in [1..n -> Coroutines] : IsRing(s, n)
    BY DEF RingInv
  <1>2. PICK s \in [1..n -> Coroutines] : IsRing(s, n)
    BY <1>1
  <1>3. PICK k \in 1..n : s[k] = c
    BY <1>2 DEF IsRing
  <1>4. next[c] = Place(s, n, k + 1)
    <2>1. k \in 0..n /\ Place(s, n, k) = c
      BY <1>3 DEF Place
    <2> QED BY <1>2, <2>1 DEF IsRing
  <1>5. next[Sentinel] = s[1]
    <2>1. 0 \in 0..n /\ Place(s, n, 0) = Sentinel /\ Place(s, n, 0 + 1) = s[1]
      BY <1>3 DEF Place
    <2> QED BY <1>2, <2>1 DEF IsRing
  <1>6. s[1] \in allocated
    BY <1>2, <1>3 DEF IsRing
  <1>7. Place(s, n, k + 1) = Sentinel \/ Place(s, n, k + 1) \in allocated
    BY <1>2 DEF IsRing, Place
  <1> QED BY <1>4, <1>5, <1>6, <1>7 DEF NodeAfter

(* A coroutine that has returned is cut out: those behind it move up.  It is  *)
(* followed by a node that stays, or it was the last and the loop is over.    *)
Shorter(s, n, k) == [i \in 1..(n - 1) |-> IF i < k THEN s[i] ELSE s[i + 1]]

LEMMA ReapAtPlace ==
  ASSUME RingInv, current \in allocated, Reap,
         NEW n \in Nat, NEW s \in [1..n -> Coroutines], IsRing(s, n),
         NEW k \in 1..n, s[k] = current
  PROVE  /\ next' \in [Nodes -> Nodes] /\ prev' \in [Nodes -> Nodes]
         /\ allocated' \subseteq Coroutines
         /\ n - 1 \in Nat /\ Shorter(s, n, k) \in [1..(n - 1) -> Coroutines]
         /\ IsRing(Shorter(s, n, k), n - 1)'
         /\ loop' = IF n = 1 THEN "over" ELSE "running"
         /\ n = 1 => allocated' = {}
         /\ n # 1 => current' \in allocated'
  <1>2. IsRing(s, n)
    OBVIOUS
  <1>3. s[k] = current
    OBVIOUS
  <1> DEFINE r == Shorter(s, n, k)
             before == Place(s, n, k - 1)
             behind == Place(s, n, k + 1)
  <1> USE DEF Shorter
  <1>4. prev[current] = before /\ next[current] = behind
    <2>1. k \in 0..n /\ k - 1 \in 0..n /\ (k - 1) + 1 = k /\ Place(s, n, k) = current
      BY <1>3 DEF Place
    <2> QED BY <1>2, <2>1 DEF IsRing
  <1>5. before \in Nodes /\ behind \in Nodes
    BY <1>2, Sentinels DEF Place
  <1>6. /\ next' = [next EXCEPT ![before] = behind]
        /\ prev' = [prev EXCEPT ![behind] = before]
        /\ allocated' = allocated \ {current}
        /\ current' = NodeAfter(current)
        /\ loop' = IF next'[Sentinel] = Sentinel THEN "over" ELSE "running"
    BY <1>4 DEF Reap, Unlinked
  <1>7. next' \in [Nodes -> Nodes] /\ prev' \in [Nodes -> Nodes] /\ allocated' \subseteq Coroutines
    BY <1>5, <1>6 DEF RingInv
  <1>8. n - 1 \in Nat /\ r \in [1..(n - 1) -> Coroutines]
    <2>1. \A i \in 1..(n - 1) : i \in 1..n /\ i + 1 \in 1..n
      BY <1>3
    <2> QED BY <1>3, <2>1
  <1>9. \A i \in 0..n : Place(r, n - 1, i) = IF i < k THEN Place(s, n, i) ELSE Place(s, n, i + 1)
    BY <1>3 DEF Place
  <1>10. \A i \in 1..(n - 1) : r[i] \in allocated'
    <2> SUFFICES ASSUME NEW i \in 1..(n - 1) PROVE r[i] \in allocated'
      OBVIOUS
    <2>1. i \in 1..n /\ i + 1 \in 1..n
      BY <1>3
    <2>2. CASE i < k
      BY <1>2, <1>3, <1>6, <2>1, <2>2 DEF IsRing
    <2>3. CASE ~(i < k)
      BY <1>2, <1>3, <1>6, <2>1, <2>3 DEF IsRing
    <2> QED BY <2>2, <2>3
  <1>11. ASSUME NEW d \in allocated' PROVE \E i \in 1..(n - 1) : r[i] = d
    <2>1. PICK j \in 1..n : s[j] = d
      BY <1>2, <1>6, <1>11 DEF IsRing
    <2>2. j # k
      BY <1>3, <1>6, <1>11, <2>1
    <2>3. CASE j < k
      <3>1. j \in 1..(n - 1) /\ r[j] = d
        BY <1>3, <2>1, <2>3
      <3> QED BY <3>1
    <2>4. CASE j > k
      <3>1. j - 1 \in 1..(n - 1) /\ r[j - 1] = d
        BY <1>3, <2>1, <2>4
      <3> QED BY <3>1
    <2> QED BY <2>2, <2>3, <2>4
  <1>12. ASSUME NEW i \in 1..(n - 1), NEW j \in 1..(n - 1), r[i] = r[j] PROVE i = j
    <2>1. i \in 1..n /\ i + 1 \in 1..n /\ j \in 1..n /\ j + 1 \in 1..n
      BY <1>3
    <2>2. \A a, b \in 1..n : s[a] = s[b] => a = b
      BY <1>2 DEF IsRing
    <2>3. s[IF i < k THEN i ELSE i + 1] = s[IF j < k THEN j ELSE j + 1]
      BY <1>12
    <2>4. (IF i < k THEN i ELSE i + 1) = (IF j < k THEN j ELSE j + 1)
      BY <2>1, <2>2, <2>3
    <2> QED BY <1>3, <2>1, <2>4
  <1>13. ASSUME NEW i \in 0..(n - 1)
         PROVE  /\ next'[Place(r, n - 1, i)] = Place(r, n - 1, i + 1)
                /\ prev'[Place(r, n - 1, i + 1)] = Place(r, n - 1, i)
    <2>1. CASE i = k - 1
      <3>1. Place(r, n - 1, i) = before /\ Place(r, n - 1, i + 1) = behind
        BY <1>3, <1>9, <2>1
      <3> QED BY <1>5, <1>6, <3>1 DEF RingInv
    <2>2. CASE i # k - 1
      <3> DEFINE m == IF i < k THEN i ELSE i + 1
      <3>1. m \in 0..n /\ m # k - 1 /\ m # k
        BY <1>3, <2>2
      <3>2. Place(r, n - 1, i) = Place(s, n, m) /\ Place(r, n - 1, i + 1) = Place(s, n, m + 1)
        BY <1>3, <1>9, <2>2
      <3>3. next[Place(s, n, m)] = Place(s, n, m + 1) /\ prev[Place(s, n, m + 1)] = Place(s, n, m)
        BY <1>2, <3>1 DEF IsRing
      <3>4. Place(s, n, m) # before /\ Place(s, n, m + 1) # behind
        <4>1. k - 1 \in 0..n /\ m + 1 \in 1..(n + 1) /\ k + 1 \in 1..(n + 1) /\ m + 1 # k + 1
          BY <1>3, <3>1
        <4> QED BY <1>2, <3>1, <4>1, OnePlace
      <3>5. Place(s, n, m) \in Nodes /\ Place(s, n, m + 1) \in Nodes
        BY <1>2, Sentinels DEF Place
      <3> QED BY <1>5, <1>6, <3>2, <3>3, <3>4, <3>5 DEF RingInv
    <2> QED BY <2>1, <2>2
  <1>14. (n - 1) + 1 = n
    OBVIOUS
  <1>15. next'[Sentinel] = Place(r, n - 1, 1)
    <2>1. 0 \in 0..(n - 1) /\ Place(r, n - 1, 0) = Sentinel /\ 0 + 1 = 1
      BY <1>3 DEF Place
    <2> QED BY <1>13, <2>1
  <1>16. loop' = IF n = 1 THEN "over" ELSE "running"
    <2>1. CASE n = 1
      BY <1>6, <1>15, <2>1 DEF Place
    <2>2. CASE n # 1
      <3>1. 1 \in 1..(n - 1) /\ Place(r, n - 1, 1) = r[1] /\ r[1] \in Coroutines
        BY <1>8, <2>2 DEF Place
      <3> QED BY <1>6, <1>15, <2>2, <3>1, Sentinels
    <2> QED BY <2>1, <2>2
  <1>17. n = 1 => allocated' = {}
    BY <1>11
  <1>18. n # 1 => current' \in allocated'
    <2>1. SUFFICES ASSUME n # 1 PROVE current' \in allocated'
      OBVIOUS
    <2>3. NodeAfter(current) # current
      <3>1. behind # current
        BY <1>2, <1>3, Sentinels DEF IsRing, Place
      <3>2. next[Sentinel] = s[1]
        <4>1. 0 \in 0..n /\ Place(s, n, 0) = Sentinel /\ Place(s, n, 0 + 1) = s[1]
          BY <1>3 DEF Place
        <4> QED BY <1>2, <4>1 DEF IsRing
      <3>3. behind = Sentinel => s[1] # current
        <4>1. CASE k = n
          BY <1>2, <1>3, <2>1, <4>1 DEF IsRing
        <4>2. CASE k # n
          BY <1>2, <1>3, <4>2, Sentinels DEF Place
        <4> QED BY <4>1, <4>2
      <3> QED BY <1>4, <3>1, <3>2, <3>3 DEF NodeAfter
    <2>4. NodeAfter(current) \in allocated
      BY AfterIsAllocated
    <2> QED BY <1>6, <2>3, <2>4
  <1> HIDE DEF r, Shorter
  <1>19. IsRing(r, n - 1)'
    BY <1>10, <1>11, <1>12, <1>13, <1>14 DEF IsRing, Place
  <1> QED BY <1>7, <1>8, <1>16, <1>17, <1>18, <1>19 DEF r

LEMMA ReapKeepsRing ==
  ASSUME RingInv, current \in allocated, Reap
  PROVE  /\ RingInv'
         /\ loop' \in {"running", "over"}
         /\ loop' = "running" => current' \in allocated'
         /\ loop' = "over" => allocated' = {}
  <1>1. PICK n \in Nat : \E s \in [1..n -> Coroutines] : IsRing(s, n)
    BY DEF RingInv
  <1>2. PICK s \in [1..n -> Coroutines] : IsRing(s, n)
    BY <1>1
  <1>3. PICK k \in 1..n : s[k] = current
    BY <1>2 DEF IsRing
  <1>4. /\ next' \in [Nodes -> Nodes] /\ prev' \in [Nodes -> Nodes]
        /\ allocated' \subseteq Coroutines
        /\ n - 1 \in Nat /\ Shorter(s, n, k) \in [1..(n - 1) -> Coroutines]
        /\ IsRing(Shorter(s, n, k), n - 1)'
        /\ loop' = IF n = 1 THEN "over" ELSE "running"
        /\ n = 1 => allocated' = {}
        /\ n # 1 => current' \in allocated'
    BY <1>2, <1>3, ReapAtPlace
  <1> QED BY <1>4 DEF RingInv

(* The ring begins with a coroutine or there is none. *)
LEMMA FirstIsAllocated ==
  ASSUME RingInv
  PROVE  \/ next[Sentinel] \in allocated
         \/ next[Sentinel] = Sentinel /\ allocated = {}
  <1>1. PICK n \in Nat : \E s \in [1..n -> Coroutines] : IsRing(s, n)
    BY DEF RingInv
  <1>2. PICK s \in [1..n -> Coroutines] : IsRing(s, n)
    BY <1>1
  <1>3. next[Sentinel] = Place(s, n, 1)
    <2>1. 0 \in 0..n /\ Place(s, n, 0) = Sentinel /\ 0 + 1 = 1
      BY DEF Place
    <2> QED BY <1>2, <2>1 DEF IsRing
  <1>4. CASE n = 0
    BY <1>2, <1>3, <1>4 DEF IsRing, Place
  <1>5. CASE n # 0
    BY <1>2, <1>3, <1>5 DEF IsRing, Place
  <1> QED BY <1>4, <1>5

(* main creates coroutines only while there are nodes for them. *)
LEMMA CreatedIsRight ==
  ASSUME RingInv, n_coro \in Coroutines, Created < n_coro
  PROVE  Created + 1 \in Coroutines
  <1>1. IsFiniteSet(Coroutines)
    BY CoroutinesAssumption, FS_Interval
  <1>2. Created \in Nat
    BY <1>1, FS_Subset, FS_CardinalityType DEF RingInv, Created
  <1> QED BY <1>2, CoroutinesAssumption

(* The ring and the loop's phase do not depend on the rest of the program. *)
LEMMA RingStays ==
  ASSUME RingInv, UNCHANGED loopVars
  PROVE  RingInv'
  BY DEF RingInv, IsRing, Place, loopVars

(* A step of the coroutine that executes, which may yield at its end. *)
LEMMA YieldKeepsInv ==
  ASSUME Inv, loop = "running", coro_yield_with_metrics, UNCHANGED <<n_coro, main>>
  PROVE  Inv'
  <1>1. CASE coro_yield
    <2>1. current' \in allocated
      BY <1>1, AfterIsAllocated DEF Inv, PhaseInv, coro_yield
    <2>2. RingInv'
      BY <1>1 DEF Inv, RingInv, IsRing, Place, coro_yield
    <2> QED BY <1>1, <2>1, <2>2 DEF Inv, PhaseInv, coro_yield
  <1>2. CASE UNCHANGED loopVars
    BY <1>2, RingStays DEF Inv, PhaseInv, loopVars
  <1> QED BY <1>1, <1>2 DEF coro_yield_with_metrics

(* Every step keeps the ring, whoever yields and whoever returns. *)
LEMMA InvNext == Inv /\ [Next]_vars => Inv'
  <1> SUFFICES ASSUME Inv, [Next]_vars PROVE Inv'
    OBVIOUS
  <1>1. CASE CreateNext
    <2>1. RingInv'
      <3>1. Created + 1 \in Coroutines
        BY <1>1, CreatedIsRight DEF Inv, PhaseInv, CreateNext
      <3> QED BY <1>1, <3>1, CreateKeepsRing DEF Inv, CreateNext
    <2>2. PhaseInv'
      BY <1>1 DEF Inv, PhaseInv, CreateNext, coro_create, progVars
    <2> QED BY <2>1, <2>2 DEF Inv
  <1>2. CASE Start
    <2>1. RingInv'
      BY <1>2 DEF Inv, RingInv, IsRing, Place, Start, loop_start
    <2>2. PhaseInv'
      BY <1>2, FirstIsAllocated, Sentinels DEF Inv, RingInv, PhaseInv, Start, loop_start
    <2> QED BY <2>1, <2>2 DEF Inv
  <1>3. CASE Fail
    BY <1>3, RingStays DEF Inv, PhaseInv, Fail, loopVars
  <1>4. ASSUME NEW c \in Coroutines, Find(c) PROVE Inv'
    BY <1>4, YieldKeepsInv DEF Find, Executes
  <1>5. ASSUME NEW c \in Coroutines, NoneFree(c) PROVE Inv'
    <2>1. main = "loop" /\ loop = "running" /\ Reap /\ n_coro' = n_coro /\ main' # "create"
      BY <1>5 DEF NoneFree, Executes
    <2> QED BY <2>1, ReapKeepsRing DEF Inv, PhaseInv
  <1>6. ASSUME NEW c \in Coroutines, Input(c) PROVE Inv'
    BY <1>6, YieldKeepsInv DEF Input, Executes
  <1>7. ASSUME NEW c \in Coroutines, Sort(c) PROVE Inv'
    <2>1. coro_yield_with_metrics
      BY <1>7 DEF Sort, coro_yield_with_metrics
    <2> QED BY <1>7, <2>1, YieldKeepsInv DEF Sort, Executes
  <1>8. CASE Take \/ TakeWild \/ Output
    BY <1>8, RingStays DEF Inv, PhaseInv, Take, TakeWild, Output, loopVars
  <1>9. CASE UNCHANGED vars
    BY <1>9, RingStays DEF Inv, PhaseInv, vars, loopVars, progVars
  <1> QED BY <1>1, <1>2, <1>3, <1>4, <1>5, <1>6, <1>7, <1>8, <1>9 DEF Next

(* For any number of coroutines and files, and wherever they yield: the one   *)
(* that executes has not been freed, the links lead both ways between nodes   *)
(* that are there, and when the loop ends it is because everybody returned.   *)
THEOREM NodesAreNeverStray == Spec => []NoStrayPointer
  <1>1. Init => Inv
    BY InvInit
  <1>2. Inv /\ [Next]_vars => Inv'
    BY InvNext
  <1>3. Inv => NoStrayPointer
    BY InvIsEnough
  <1> QED BY <1>1, <1>2, <1>3, PTL DEF Spec

-------------------------------------------------------------------------------
(* The ring takes turns. *)

(* From its place k on, the ring once around. *)
Turn(s, n, k) == [i \in 1..n |-> s[IF i + k - 1 <= n THEN i + k - 1 ELSE i + k - 1 - n]]

(* The ring has as many places as there are coroutines. *)
LEMMA RingCount ==
  ASSUME NEW n \in Nat, NEW s \in [1..n -> Coroutines], IsRing(s, n)
  PROVE  Cardinality(allocated) = n
  <1>1. s \in [1..n -> allocated]
    BY DEF IsRing
  <1>2. s \in Injection(1..n, allocated)
    BY <1>1 DEF IsRing, Injection, IsInjective
  <1>3. s \in Surjection(1..n, allocated)
    BY <1>1 DEF IsRing, Surjection
  <1>4. ExistsBijection(1..n, allocated)
    BY <1>2, <1>3 DEF ExistsBijection, Bijection
  <1> QED BY <1>4, FS_CountingElements

(* A coroutine is followed by the one at the next place, the last one by the  *)
(* first.                                                                     *)
LEMMA AfterIsNextPlace ==
  ASSUME NEW n \in Nat, NEW s \in [1..n -> Coroutines], IsRing(s, n), NEW i \in 1..n
  PROVE  NodeAfter(s[i]) = s[IF i = n THEN 1 ELSE i + 1]
  <1>1. next[s[i]] = Place(s, n, i + 1)
    <2>1. i \in 0..n /\ Place(s, n, i) = s[i]
      BY DEF Place
    <2> QED BY <2>1 DEF IsRing
  <1>2. next[Sentinel] = s[1]
    <2>1. 0 \in 0..n /\ Place(s, n, 0) = Sentinel /\ Place(s, n, 0 + 1) = s[1]
      BY DEF Place
    <2> QED BY <2>1 DEF IsRing
  <1>3. CASE i = n
    <2>1. next[s[i]] = Sentinel
      BY <1>1, <1>3 DEF Place
    <2> QED BY <1>2, <1>3, <2>1 DEF NodeAfter
  <1>4. CASE i # n
    <2>1. i + 1 \in 1..n
      BY <1>4
    <2>2. next[s[i]] = s[i + 1] /\ s[i + 1] \in Coroutines
      BY <1>1, <2>1 DEF Place
    <2> QED BY <1>4, <2>2, Sentinels DEF NodeAfter
  <1> QED BY <1>3, <1>4

(* What RoundRobin's order stands for here. *)
Waiting == [k \in 1..Cardinality(allocated) |-> Order[k]]

WaitingIs ==
  \A n \in Nat : \A s \in [1..n -> Coroutines] : \A k \in Nat \ {0} :
    IsRing(s, n) /\ (n > 0 => k <= n /\ s[k] = First) => Waiting = Turn(s, n, k)

(* The order is the ring once around, from the one that executes on: else the *)
(* first place where they differ is preceded by one where they do not.        *)
LEMMA WaitingIsTurn == WaitingIs
  <1> SUFFICES ASSUME NEW n \in Nat, NEW s \in [1..n -> Coroutines], NEW k \in Nat \ {0},
                      IsRing(s, n), n > 0 => k <= n /\ s[k] = First
               PROVE  Waiting = Turn(s, n, k)
    BY DEF WaitingIs
  <1> DEFINE T == Turn(s, n, k)
             Unfold(at) == at = [i \in 1..Cardinality(allocated) |->
                                   IF i = 1 THEN First ELSE NodeAfter(at[i - 1])]
  <1>1. Cardinality(allocated) = n
    BY RingCount
  <1>2. \A i \in 1..n : T[i] = IF i = 1 THEN First ELSE NodeAfter(T[i - 1])
    <2> SUFFICES ASSUME NEW i \in 1..n
                 PROVE  T[i] = IF i = 1 THEN First ELSE NodeAfter(T[i - 1])
      OBVIOUS
    <2>1. CASE i = 1
      BY <2>1 DEF Turn
    <2>2. CASE i # 1
      <3> DEFINE p == IF i + k - 2 <= n THEN i + k - 2 ELSE i + k - 2 - n
      <3>1. p \in 1..n /\ i - 1 \in 1..n /\ k <= n
        BY <2>2
      <3>2. T[i - 1] = s[p]
        <4>1. (IF (i - 1) + k - 1 <= n THEN (i - 1) + k - 1 ELSE (i - 1) + k - 1 - n) = p
          OBVIOUS
        <4> QED BY <3>1, <4>1 DEF Turn
      <3>3. (IF p = n THEN 1 ELSE p + 1) = IF i + k - 1 <= n THEN i + k - 1 ELSE i + k - 1 - n
        BY <2>2, <3>1
      <3>4. NodeAfter(s[p]) = s[IF p = n THEN 1 ELSE p + 1]
        BY <3>1, AfterIsNextPlace
      <3>5. T[i] = s[IF p = n THEN 1 ELSE p + 1]
        BY <3>3 DEF Turn
      <3> QED BY <2>2, <3>2, <3>4, <3>5
    <2> QED BY <2>1, <2>2
  <1>3. T = [i \in 1..n |-> T[i]]
    BY DEF Turn
  <1> HIDE DEF T
  <1>4. Unfold(T)
    BY <1>1, <1>2, <1>3
  <1>5. Order = CHOOSE at : Unfold(at)
    BY DEF Order
  <1>6. Unfold(Order)
    BY <1>4, <1>5, Zenon
  <1>7. \A i \in 1..n : Order[i] = IF i = 1 THEN First ELSE NodeAfter(Order[i - 1])
    BY <1>1, <1>6
  <1>8. ASSUME NEW i \in 1..n, Order[i] # T[i] PROVE FALSE
    <2> DEFINE S == {j \in 1..n : Order[j] # T[j]}
    <2>1. S \in SUBSET Nat /\ S # {}
      BY <1>8
    <2>2. PICK m \in S : \A j \in S : m <= j
      BY <2>1, Least
    <2>3. m \in 1..n /\ Order[m] # T[m]
      BY <2>2
    <2>4. m # 1
      BY <1>2, <1>7, <2>3
    <2>5. m - 1 \in 1..n /\ m - 1 \notin S
      BY <2>2, <2>3, <2>4
    <2>6. Order[m - 1] = T[m - 1]
      BY <2>5
    <2> QED BY <1>2, <1>7, <2>3, <2>4, <2>6
  <1>9. Waiting = [i \in 1..n |-> Order[i]]
    BY <1>1 DEF Waiting
  <1> QED BY <1>3, <1>8, <1>9 DEF T

LEMMA WaitingIsTurnNext == WaitingIs'
  BY WaitingIsTurn, PTL

(* How the turns change: one more coroutine waits behind all others, the      *)
(* first one goes behind them, or it leaves.                                  *)
LEMMA TurnIsSeq ==
  ASSUME NEW n \in Nat, NEW s \in [1..n -> Coroutines], NEW k \in Nat \ {0}, n > 0 => k <= n
  PROVE  Turn(s, n, k) \in Seq(Coroutines) /\ Len(Turn(s, n, k)) = n
  BY DEF Turn

LEMMA SeqIsFunction ==
  ASSUME NEW n \in Nat, NEW q \in Seq(Coroutines), Len(q) = n
  PROVE  q = [i \in 1..n |-> q[i]]
  <1>1. q \in [1..n -> Coroutines]
    OBVIOUS
  <1> QED BY <1>1

LEMMA AppendIs ==
  ASSUME NEW q \in Seq(Coroutines), NEW c \in Coroutines, NEW n \in Nat, Len(q) + 1 = n
  PROVE  Append(q, c) = [i \in 1..n |-> IF i = n THEN c ELSE q[i]]
  <1>1. Append(q, c) \in Seq(Coroutines) /\ Len(Append(q, c)) = n
    OBVIOUS
  <1>2. \A i \in 1..n : Append(q, c)[i] = IF i = n THEN c ELSE q[i]
    OBVIOUS
  <1>3. Append(q, c) = [i \in 1..n |-> Append(q, c)[i]]
    BY <1>1, SeqIsFunction
  <1> QED BY <1>2, <1>3

LEMMA TailIs ==
  ASSUME NEW n \in Nat \ {0}, NEW q \in Seq(Coroutines), Len(q) = n
  PROVE  Tail(q) = [i \in 1..(n - 1) |-> q[i + 1]]
  <1>1. Tail(q) \in Seq(Coroutines) /\ Len(Tail(q)) = n - 1
    OBVIOUS
  <1>2. \A i \in 1..(n - 1) : Tail(q)[i] = q[i + 1]
    OBVIOUS
  <1>3. Tail(q) = [i \in 1..(n - 1) |-> Tail(q)[i]]
    <2>1. n - 1 \in Nat
      OBVIOUS
    <2> QED BY <1>1, <2>1, SeqIsFunction
  <1> QED BY <1>2, <1>3

LEMMA TurnOfLonger ==
  ASSUME NEW n \in Nat, NEW s \in [1..n -> Coroutines], NEW c \in Coroutines
  PROVE  Turn(Longer(s, n, c), n + 1, 1) = Append(Turn(s, n, 1), c)
  <1>1. Turn(s, n, 1) \in Seq(Coroutines) /\ Len(Turn(s, n, 1)) = n
    BY TurnIsSeq
  <1>2. \A i \in 1..n : Turn(s, n, 1)[i] = s[i]
    BY DEF Turn
  <1>3. Turn(Longer(s, n, c), n + 1, 1) = [i \in 1..(n + 1) |-> IF i = n + 1 THEN c ELSE s[i]]
    BY DEF Turn, Longer
  <1> QED BY <1>1, <1>2, <1>3

LEMMA TurnOfNext ==
  ASSUME NEW n \in Nat, NEW s \in [1..n -> Coroutines], NEW k \in 1..n
  PROVE  Turn(s, n, IF k = n THEN 1 ELSE k + 1)
           = Append(Tail(Turn(s, n, k)), Head(Turn(s, n, k)))
  <1> DEFINE T == Turn(s, n, k)
             R == Turn(s, n, IF k = n THEN 1 ELSE k + 1)
  <1>1. T \in Seq(Coroutines) /\ Len(T) = n /\ R \in Seq(Coroutines) /\ Len(R) = n
    BY TurnIsSeq
  <1>2. \A i \in 1..(n - 1) : R[i] = T[i + 1]
    BY DEF Turn
  <1>3. R[n] = T[1]
    BY DEF Turn
  <1> HIDE DEF T, R
  <1>4. Tail(T) \in Seq(Coroutines) /\ Len(Tail(T)) = n - 1 /\ \A i \in 1..(n - 1) : Tail(T)[i] = T[i + 1]
    BY <1>1
  <1>5. R = Append(Tail(T), Head(T))
    <2>1. Append(Tail(T), T[1]) = [i \in 1..n |-> IF i = n THEN T[1] ELSE Tail(T)[i]]
      <3>1. T[1] \in Coroutines /\ (n - 1) + 1 = n
        BY <1>1
      <3> QED BY <1>4, <3>1, AppendIs
    <2>2. R = [i \in 1..n |-> R[i]]
      BY <1>1, SeqIsFunction
    <2>3. \A i \in 1..n : R[i] = IF i = n THEN T[1] ELSE Tail(T)[i]
      BY <1>2, <1>3, <1>4, SMTT(30)
    <2>4. Head(T) = T[1]
      BY <1>1
    <2> QED BY <2>1, <2>2, <2>3, <2>4
  <1> QED BY <1>5 DEF T, R

LEMMA TurnOfShorter ==
  ASSUME NEW n \in Nat, NEW s \in [1..n -> Coroutines], NEW k \in 1..n
  PROVE  Turn(Shorter(s, n, k), n - 1, IF k = n THEN 1 ELSE k) = Tail(Turn(s, n, k))
  <1> DEFINE T == Turn(s, n, k)
             R == Turn(Shorter(s, n, k), n - 1, IF k = n THEN 1 ELSE k)
  <1>1. T \in Seq(Coroutines) /\ Len(T) = n
    BY TurnIsSeq
  <1>2. R = [i \in 1..(n - 1) |-> R[i]]
    BY DEF Turn
  <1>3. ASSUME NEW i \in 1..(n - 1) PROVE R[i] = T[i + 1]
    <2> DEFINE a == IF k = n THEN 1 ELSE k
               p == IF i + a - 1 <= n - 1 THEN i + a - 1 ELSE i + a - 1 - (n - 1)
               q == IF (i + 1) + k - 1 <= n THEN (i + 1) + k - 1 ELSE (i + 1) + k - 1 - n
    <2>1. p \in 1..(n - 1) /\ q \in 1..n /\ i + 1 \in 1..n
      OBVIOUS
    <2>2. (IF p < k THEN p ELSE p + 1) = q
      OBVIOUS
    <2>3. R[i] = Shorter(s, n, k)[p] /\ T[i + 1] = s[q]
      BY <2>1 DEF Turn
    <2>4. Shorter(s, n, k)[p] = s[IF p < k THEN p ELSE p + 1]
      BY <2>1 DEF Shorter
    <2> QED BY <2>2, <2>3, <2>4
  <1> HIDE DEF T, R
  <1>4. Tail(T) = [i \in 1..(n - 1) |-> T[i + 1]]
    BY <1>1, TailIs
  <1>5. R = Tail(T)
    BY <1>2, <1>3, <1>4
  <1> QED BY <1>5 DEF T, R

(* Before the loop starts, the first one of the ring is the first in turn.    *)
NewIs ==
  \A n \in Nat : \A s \in [1..n -> Coroutines] :
    IsRing(s, n) => /\ n > 0 => next[Sentinel] = s[1]
                    /\ n = 0 => next[Sentinel] = Sentinel

LEMMA NewIsFirst == NewIs
  <1> SUFFICES ASSUME NEW n \in Nat, NEW s \in [1..n -> Coroutines], IsRing(s, n)
               PROVE  /\ n > 0 => next[Sentinel] = s[1]
                      /\ n = 0 => next[Sentinel] = Sentinel
    BY DEF NewIs
  <1>1. 0 \in 0..n /\ Place(s, n, 0) = Sentinel
    BY DEF Place
  <1>2. next[Sentinel] = Place(s, n, 0 + 1)
    BY <1>1 DEF IsRing
  <1> QED BY <1>2 DEF Place

LEMMA NewIsFirstNext == NewIs'
  BY NewIsFirst, PTL

(* Nobody waits at first. *)
LEMMA TurnsInit == Init => Turns!Init
  <1> SUFFICES ASSUME Init PROVE Turns!Init
    OBVIOUS
  <1> DEFINE s == [i \in 1..0 |-> 1]
  <1>1. IsRing(s, 0) /\ s \in [1..0 -> Coroutines]
    BY Sentinels DEF Init, LoopInit, IsRing, Place
  <1>2. Waiting = Turn(s, 0, 1)
    <2> HIDE DEF s
    <2>1. 0 \in Nat /\ 1 \in Nat \ {0} /\ ~(0 > 0)
      OBVIOUS
    <2> QED BY <1>1, <2>1, WaitingIsTurn DEF WaitingIs
  <1>3. Turn(s, 0, 1) = <<>>
    BY DEF Turn
  <1> QED BY <1>2, <1>3 DEF Turns!Init, Waiting, Init, LoopInit

(* The steps of the library are steps of RoundRobin. *)
LEMMA CreateIsCreate ==
  ASSUME Inv, loop = "new", NEW c \in Coroutines, coro_create(c)
  PROVE  Turns!Create(c)
  <1>1. PICK n \in Nat : \E s \in [1..n -> Coroutines] : IsRing(s, n)
    BY DEF Inv, RingInv
  <1>2. PICK s \in [1..n -> Coroutines] : IsRing(s, n)
    BY <1>1
  <1>3. Waiting = Turn(s, n, 1)
    <2>1. n > 0 => 1 <= n /\ s[1] = First
      BY <1>2, NewIsFirst DEF NewIs, First
    <2> QED BY <1>2, <2>1, WaitingIsTurn DEF WaitingIs
  <1>4. Longer(s, n, c) \in [1..(n + 1) -> Coroutines] /\ IsRing(Longer(s, n, c), n + 1)'
    BY <1>2, CreateAtEnd DEF Inv
  <1> DEFINE r == Longer(s, n, c)
             m == n + 1
  <1>5. m \in Nat /\ m > 0 /\ r \in [1..m -> Coroutines] /\ IsRing(r, m)'
    BY <1>4
  <1>6. loop' = "new" /\ c \notin allocated
    BY DEF coro_create
  <1>7. Waiting' = Turn(r, m, 1)
    <2> HIDE DEF r, m
    <2>1. r[1] = First'
      BY <1>5, <1>6, NewIsFirstNext DEF NewIs, First
    <2>2. 1 \in Nat \ {0} /\ 1 <= m
      BY <1>5
    <2> QED BY <1>5, <2>1, <2>2, WaitingIsTurnNext DEF WaitingIs
  <1>8. Waiting' = Append(Waiting, c)
    BY <1>3, <1>7, TurnOfLonger
  <1>9. \A i \in 1..Len(Waiting) : Waiting[i] # c
    <2>1. Len(Waiting) = n /\ \A i \in 1..n : Waiting[i] = s[i]
      BY <1>3, TurnIsSeq DEF Turn
    <2> QED BY <1>2, <1>6, <2>1 DEF IsRing
  <1> QED BY <1>6, <1>8, <1>9 DEF Turns!Create, Waiting

LEMMA StartIsStart ==
  ASSUME Inv, loop_start
  PROVE  Turns!Start
  <1>1. PICK n \in Nat : \E s \in [1..n -> Coroutines] : IsRing(s, n)
    BY DEF Inv, RingInv
  <1>2. PICK s \in [1..n -> Coroutines] : IsRing(s, n)
    BY <1>1
  <1>3. loop = "new" /\ current' = next[Sentinel] /\ UNCHANGED <<next, prev, allocated>>
    BY DEF loop_start
  <1>4. IsRing(s, n)' /\ 1 \in Nat \ {0}
    BY <1>2, <1>3 DEF IsRing, Place
  <1>5. Waiting = Turn(s, n, 1)
    <2>1. n > 0 => 1 <= n /\ s[1] = First
      BY <1>2, <1>3, NewIsFirst DEF NewIs, First
    <2> QED BY <1>2, <1>4, <2>1, WaitingIsTurn DEF WaitingIs
  <1>6. Waiting' = Turn(s, n, 1)
    <2>1. n > 0 => 1 <= n /\ s[1] = First'
      BY <1>2, <1>3, NewIsFirst DEF NewIs, First, loop_start
    <2> QED BY <1>4, <2>1, WaitingIsTurnNext DEF WaitingIs
  <1>7. Waiting = <<>> <=> next[Sentinel] = Sentinel
    <2>1. Len(Waiting) = n /\ Waiting \in Seq(Coroutines)
      BY <1>5, TurnIsSeq
    <2>2. n = 0 <=> next[Sentinel] = Sentinel
      BY <1>2, NewIsFirst, Sentinels DEF NewIs
    <2> QED BY <2>1, <2>2
  <1> QED BY <1>3, <1>5, <1>6, <1>7 DEF Turns!Start, Waiting, loop_start

(* While the loop runs, the ring is walked from the place of the one that     *)
(* executes.                                                                  *)
LEMMA RunningPlace ==
  ASSUME Inv, loop = "running"
  PROVE  \E n \in Nat \ {0} : \E s \in [1..n -> Coroutines] : \E k \in 1..n :
           IsRing(s, n) /\ s[k] = current /\ Waiting = Turn(s, n, k)
  <1>1. PICK n \in Nat : \E s \in [1..n -> Coroutines] : IsRing(s, n)
    BY DEF Inv, RingInv
  <1>2. PICK s \in [1..n -> Coroutines] : IsRing(s, n)
    BY <1>1
  <1>3. PICK k \in 1..n : s[k] = current
    BY <1>2 DEF IsRing, Inv, PhaseInv
  <1>4. First = current /\ k \in Nat \ {0} /\ k <= n /\ n \in Nat \ {0}
    BY <1>3 DEF First
  <1>5. Waiting = Turn(s, n, k)
    BY <1>2, <1>3, <1>4, WaitingIsTurn DEF WaitingIs
  <1> QED BY <1>2, <1>3, <1>4, <1>5

LEMMA YieldIsYield ==
  ASSUME Inv, coro_yield
  PROVE  Turns!Yield
  <1>0. loop = "running" /\ loop' = "running" /\ UNCHANGED <<next, prev, allocated>>
    BY DEF coro_yield
  <1>n. PICK n \in Nat \ {0} : \E s \in [1..n -> Coroutines] : \E k \in 1..n :
          IsRing(s, n) /\ s[k] = current /\ Waiting = Turn(s, n, k)
    BY <1>0, RunningPlace
  <1>s. PICK s \in [1..n -> Coroutines] : \E k \in 1..n :
          IsRing(s, n) /\ s[k] = current /\ Waiting = Turn(s, n, k)
    BY <1>n
  <1>1. PICK k \in 1..n : IsRing(s, n) /\ s[k] = current /\ Waiting = Turn(s, n, k)
    BY <1>s
  <1> DEFINE j == IF k = n THEN 1 ELSE k + 1
  <1>2. j \in 1..n
    OBVIOUS
  <1>3. current' = s[j]
    <2>1. NodeAfter(current) = s[j]
      BY <1>1, AfterIsNextPlace
    <2>2. next[Sentinel] = s[1] /\ s[1] \in Coroutines
      BY <1>1, NewIsFirst DEF NewIs
    <2>3. CASE n = 1
      BY <1>1, <2>1, <2>3 DEF coro_yield
    <2>4. CASE n # 1
      <3>1. next[s[1]] = s[2] /\ s[2] \in Coroutines
        <4>1. 1 \in 0..n /\ Place(s, n, 1) = s[1] /\ Place(s, n, 1 + 1) = s[2] /\ 2 \in 1..n
          BY <2>4 DEF Place
        <4> QED BY <1>1, <4>1 DEF IsRing
      <3> QED BY <2>1, <2>2, <3>1, Sentinels DEF coro_yield
    <2> QED BY <2>3, <2>4
  <1>4. IsRing(s, n)'
    BY <1>0, <1>1 DEF IsRing, Place
  <1>5. Waiting' = Turn(s, n, j)
    <2> HIDE DEF j
    <2>1. j \in Nat \ {0} /\ j <= n /\ s[j] = First'
      BY <1>0, <1>2, <1>3 DEF First
    <2> QED BY <1>4, <2>1, WaitingIsTurnNext DEF WaitingIs
  <1>6. Waiting' = Append(Tail(Waiting), Head(Waiting))
    BY <1>1, <1>5, TurnOfNext
  <1> QED BY <1>0, <1>6 DEF Turns!Yield, Waiting

LEMMA ReapIsReturn ==
  ASSUME Inv, Reap
  PROVE  Turns!Return
  <1>0. loop = "running" /\ current' = NodeAfter(current) /\ current \in allocated
    BY DEF Reap, Inv, PhaseInv
  <1>n. PICK n \in Nat \ {0} : \E s \in [1..n -> Coroutines] : \E k \in 1..n :
          IsRing(s, n) /\ s[k] = current /\ Waiting = Turn(s, n, k)
    BY <1>0, RunningPlace
  <1>s. PICK s \in [1..n -> Coroutines] : \E k \in 1..n :
          IsRing(s, n) /\ s[k] = current /\ Waiting = Turn(s, n, k)
    BY <1>n
  <1>1. PICK k \in 1..n : IsRing(s, n) /\ s[k] = current /\ Waiting = Turn(s, n, k)
    BY <1>s
  <1> DEFINE r == Shorter(s, n, k)
             m == n - 1
             j == IF k = n THEN 1 ELSE k
  <1>2. /\ m \in Nat /\ r \in [1..m -> Coroutines] /\ IsRing(r, m)'
        /\ loop' = IF n = 1 THEN "over" ELSE "running"
    BY <1>0, <1>1, ReapAtPlace DEF Inv
  <1>3. j \in Nat \ {0} /\ (m > 0 => j <= m)
    OBVIOUS
  <1>4. m > 0 => r[j] = First'
    <2> SUFFICES ASSUME m > 0 PROVE r[j] = First'
      OBVIOUS
    <2>1. NodeAfter(current) = s[IF k = n THEN 1 ELSE k + 1]
      BY <1>1, AfterIsNextPlace
    <2>2. r[j] = s[IF k = n THEN 1 ELSE k + 1]
      BY <1>3 DEF Shorter
    <2>3. First' = current'
      BY <1>2 DEF First
    <2> QED BY <1>0, <2>1, <2>2, <2>3
  <1>5. Waiting' = Turn(r, m, j)
    <2> HIDE DEF r, m, j
    <2> QED BY <1>2, <1>3, <1>4, WaitingIsTurnNext DEF WaitingIs
  <1>6. Waiting' = Tail(Waiting)
    BY <1>1, <1>5, TurnOfShorter
  <1>7. Waiting' = <<>> <=> n = 1
    <2>1. Waiting' \in Seq(Coroutines) /\ Len(Waiting') = m
      <3> HIDE DEF r, m, j
      <3> QED BY <1>2, <1>3, <1>5, TurnIsSeq
    <2> QED BY <2>1
  <1> QED BY <1>0, <1>2, <1>6, <1>7 DEF Turns!Return, Waiting

(* The order depends on the ring and the one that executes only. *)
LEMMA WaitingStays ==
  ASSUME UNCHANGED loopVars
  PROVE  UNCHANGED Turns!vars
  BY DEF loopVars, Turns!vars, Order, First, NodeAfter

LEMMA MayYieldTurns ==
  ASSUME Inv, coro_yield_with_metrics
  PROVE  [Turns!Next]_Turns!vars
  BY YieldIsYield, WaitingStays DEF coro_yield_with_metrics, Turns!Next

LEMMA TurnsNext == Inv /\ [Next]_vars => [Turns!Next]_Turns!vars
  <1> SUFFICES ASSUME Inv, [Next]_vars PROVE [Turns!Next]_Turns!vars
    OBVIOUS
  <1>1. CASE CreateNext
    <2>1. loop = "new" /\ Created + 1 \in Coroutines /\ coro_create(Created + 1)
      BY <1>1, CreatedIsRight DEF Inv, PhaseInv, CreateNext
    <2> QED BY <2>1, CreateIsCreate DEF Turns!Next
  <1>2. CASE Start
    BY <1>2, StartIsStart DEF Start, Turns!Next
  <1>3. CASE Fail
    BY <1>3, WaitingStays DEF Fail
  <1>4. ASSUME NEW c \in Coroutines, Find(c) PROVE [Turns!Next]_Turns!vars
    BY <1>4, MayYieldTurns DEF Find
  <1>5. ASSUME NEW c \in Coroutines, NoneFree(c) PROVE [Turns!Next]_Turns!vars
    BY <1>5, ReapIsReturn DEF NoneFree, Turns!Next
  <1>6. ASSUME NEW c \in Coroutines, Input(c) PROVE [Turns!Next]_Turns!vars
    BY <1>6, MayYieldTurns DEF Input
  <1>7. ASSUME NEW c \in Coroutines, Sort(c) PROVE [Turns!Next]_Turns!vars
    BY <1>7, MayYieldTurns DEF Sort, coro_yield_with_metrics
  <1>8. CASE Take \/ TakeWild \/ Output
    BY <1>8, WaitingStays DEF Take, TakeWild, Output
  <1>9. CASE UNCHANGED vars
    BY <1>9, WaitingStays DEF vars
  <1> QED BY <1>1, <1>2, <1>3, <1>4, <1>5, <1>6, <1>7, <1>8, <1>9 DEF Next

(* For any number of coroutines and files: whoever yields or returns wherever *)
(* in the ring, the next one to execute is the one that has waited longest,   *)
(* nobody is passed over or lost, and the loop ends with the last return.     *)
THEOREM TurnsAreTaken == Spec => ImplementsRoundRobin
  <1>1. Init => Inv /\ Turns!Init
    BY InvInit, TurnsInit
  <1>2. Inv /\ [Next]_vars => Inv'
    BY InvNext
  <1>3. Inv /\ [Next]_vars => [Turns!Next]_Turns!vars
    BY TurnsNext
  <1> QED BY <1>1, <1>2, <1>3, PTL DEF Spec, ImplementsRoundRobin, Turns!Spec

-------------------------------------------------------------------------------
(* The loop of merge_sort does the merge of the two halves. *)
LEMMA MergedIsMerge ==
  ASSUME NEW a \in Seq(Nat), NEW lo \in Nat, NEW mi \in Nat, NEW hi \in Nat,
         lo <= mi, mi <= hi, hi <= Len(a)
  PROVE  IsMerge(Merged(a, lo, mi, hi), a, lo, mi, hi)
  <1> DEFINE n == Len(a)
             T == Merged(a, lo, mi, hi)
             on == [k \in 0..n |-> [l \in 0..n |->
                      IF TakesFirst(a, l, mi + k - l, mi, hi) THEN l + 1 ELSE l]]
             Unfold(f) == f = [k \in lo..hi |-> IF k = lo THEN lo ELSE on[k - 1][f[k - 1]]]
             first == CHOOSE f : Unfold(f)
  <1>1. n \in Nat /\ \A k \in 1..n : a[k] \in Nat
    OBVIOUS
  <1>2. T = [k \in 1..n |->
              IF k - 1 \notin lo..(hi - 1) THEN a[k]
              ELSE IF first[k] > first[k - 1] THEN a[first[k]]
              ELSE a[mi + k - first[k]]]
    BY DEF Merged
  <1>3. \A l \in 0..n : \A k \in 0..n : on[k][l] \in {l, l + 1}
    OBVIOUS
  <1>4. \A l, k \in 0..n : on[k][l] = IF TakesFirst(a, l, mi + k - l, mi, hi) THEN l + 1 ELSE l
    OBVIOUS
  <1> HIDE DEF T, on
  <1>5. \E f \in [lo..hi -> Nat] : IsWalk(f, on, lo, hi) /\ \A k \in lo..hi : f[k] <= k
    <2>1. n \in Nat /\ lo <= hi /\ hi <= n
      OBVIOUS
    <2> HIDE DEF n
    <2> QED BY <1>3, <2>1, WalkExists
  <1>6. Unfold(first)
    <2>1. PICK f \in [lo..hi -> Nat] : IsWalk(f, on, lo, hi)
      BY <1>5
    <2>2. Unfold(f)
      BY <2>1 DEF IsWalk
    <2> HIDE DEF Unfold
    <2> QED BY <2>2
  <1> HIDE DEF first
  <1>7. first[lo] = lo /\ \A k \in (lo + 1)..hi : first[k] = on[k - 1][first[k - 1]]
    <2>1. \A k \in lo..hi : first[k] = IF k = lo THEN lo ELSE on[k - 1][first[k - 1]]
      BY <1>6
    <2>2. lo \in lo..hi /\ \A k \in (lo + 1)..hi : k \in lo..hi /\ k # lo
      OBVIOUS
    <2> QED BY <2>1, <2>2
  <1> DEFINE Fine(k) == first[k] \in lo..mi /\ first[k] <= k /\ mi + k - first[k] <= hi
  <1>8. \A k \in lo..hi : Fine(k)
    <2> DEFINE S == {k \in lo..hi : ~Fine(k)}
    <2>1. ASSUME S # {} PROVE FALSE
      <3>1. S \in SUBSET Nat
        OBVIOUS
      <3> HIDE DEF Fine
      <3>2. PICK k \in S : \A q \in S : k <= q
        BY <2>1, <3>1, Least
      <3>3. k \in lo..hi /\ ~Fine(k)
        BY <3>2
      <3>4. k # lo
        BY <1>7, <3>3 DEF Fine
      <3>5. k - 1 \in lo..hi /\ k \in (lo + 1)..hi /\ ~(k <= k - 1) /\ k - 1 \in 0..n
        BY <3>3, <3>4
      <3>6. Fine(k - 1)
        BY <3>2, <3>5
      <3> DEFINE l == first[k - 1]
                 j == k - 1
      <3>7. l \in lo..mi /\ l <= j /\ mi + j - l <= hi /\ l \in 0..n /\ j \in 0..n
        BY <3>5, <3>6 DEF Fine
      <3>8. first[k] = IF TakesFirst(a, l, mi + j - l, mi, hi) THEN l + 1 ELSE l
        BY <1>4, <1>7, <3>5, <3>7
      <3>9. j + 1 = k /\ j \in Nat /\ j < hi
        BY <3>5
      <3> HIDE DEF l, j
      <3>10. CASE TakesFirst(a, l, mi + j - l, mi, hi)
        <4>1. l < mi
          BY <3>10 DEF TakesFirst
        <4>2. first[k] = l + 1
          BY <3>8, <3>10
        <4>3. l + 1 \in lo..mi /\ l + 1 <= k /\ mi + k - (l + 1) <= hi
          BY <3>7, <3>9, <4>1
        <4> QED BY <3>3, <4>2, <4>3 DEF Fine
      <3>11. CASE ~TakesFirst(a, l, mi + j - l, mi, hi)
        <4>1. ~(l < mi) \/ mi + j - l # hi
          BY <3>11 DEF TakesFirst
        <4>2. first[k] = l
          BY <3>8, <3>11
        <4>3. l \in lo..mi /\ l <= k /\ mi + k - l <= hi
          <5>1. CASE ~(l < mi)
            BY <3>7, <3>9, <5>1
          <5>2. CASE mi + j - l # hi
            BY <3>7, <3>9, <5>2
          <5> QED BY <4>1, <5>1, <5>2
        <4> QED BY <3>3, <4>2, <4>3 DEF Fine
      <3> QED BY <3>10, <3>11
    <2> HIDE DEF Fine
    <2> QED BY <2>1
  <1>9. first \in [lo..hi -> Nat]
    <2>1. first = [k \in lo..hi |-> first[k]]
      <3>1. DOMAIN first = lo..hi
        BY <1>6
      <3> QED BY <1>6, <3>1
    <2> QED BY <1>8, <2>1
  <1>10. IsCursor(first, a, lo, mi, hi)
    <2> SUFFICES ASSUME NEW k \in (lo + 1)..hi
                 PROVE  first[k] = IF Left(a, first[k - 1], k - 1, mi, hi)
                                   THEN first[k - 1] + 1 ELSE first[k - 1]
      BY <1>7 DEF IsCursor
    <2> DEFINE j == k - 1
               l == first[j]
    <2>1. j \in lo..hi /\ j \in 0..n /\ j \in Nat
      OBVIOUS
    <2>2. l \in lo..mi /\ l \in 0..n /\ l <= j /\ mi + j - l <= hi
      BY <1>8, <2>1
    <2>3. first[k] = on[j][l]
      BY <1>7
    <2> HIDE DEF j, l
    <2>4. on[j][l] = IF TakesFirst(a, l, mi + j - l, mi, hi) THEN l + 1 ELSE l
      BY <1>4, <2>1, <2>2
    <2>5. mi + j - l = hi <=> mi + j - l >= hi
      BY <2>1, <2>2
    <2>6. TakesFirst(a, l, mi + j - l, mi, hi) <=> Left(a, l, j, mi, hi)
      BY <2>5 DEF TakesFirst, Left
    <2> QED BY <2>3, <2>4, <2>6 DEF j, l
  <1>11. \A k \in 1..n : k \notin (lo + 1)..hi => T[k] = a[k]
    <2> SUFFICES ASSUME NEW k \in 1..n, k \notin (lo + 1)..hi PROVE T[k] = a[k]
      OBVIOUS
    <2>1. k - 1 \notin lo..(hi - 1)
      OBVIOUS
    <2> QED BY <1>2, <2>1
  <1>12. ASSUME NEW k \in (lo + 1)..hi PROVE T[k] = a[Source(first, k, mi)]
    <2>1. k - 1 \in lo..(hi - 1) /\ k \in 1..n
      OBVIOUS
    <2> QED BY <1>2, <2>1 DEF Source
  <1>13. T \in Seq(Nat) /\ Len(T) = n
    <2>1. ASSUME NEW k \in 1..n PROVE T[k] \in Nat
      <3>1. CASE k \in (lo + 1)..hi
        <4>1. Source(first, k, mi) \in 1..n
          <5>2. \/ /\ Left(a, first[k - 1], k - 1, mi, hi)
                   /\ first[k] = first[k - 1] + 1 /\ Source(first, k, mi) = first[k]
                   /\ first[k] \in (lo + 1)..mi
                \/ /\ ~Left(a, first[k - 1], k - 1, mi, hi)
                   /\ first[k] = first[k - 1] /\ Source(first, k, mi) = mi + k - first[k]
                   /\ mi + k - first[k] \in (mi + 1)..hi
            BY <1>9, <1>10, <3>1, SourceIs
          <5>3. Source(first, k, mi) \in (lo + 1)..mi \/ Source(first, k, mi) \in (mi + 1)..hi
            BY <5>2, Zenon
          <5> QED BY <5>3
        <4> QED BY <1>1, <1>12, <3>1, <4>1
      <3>2. CASE k \notin (lo + 1)..hi
        BY <1>1, <1>11, <3>2
      <3> QED BY <3>1, <3>2
    <2>2. T = [k \in 1..n |-> T[k]]
      <3>1. DOMAIN T = 1..n
        BY <1>2
      <3> QED BY <1>2, <3>1
    <2> HIDE DEF n
    <2>3. T \in [1..n -> Nat]
      BY <2>1, <2>2
    <2> QED BY <1>1, <2>3
  <1> HIDE DEF n
  <1> QED BY <1>9, <1>10, <1>11, <1>12, <1>13 DEF IsMerge, n, T

-------------------------------------------------------------------------------
(* The calls that a sort of n numbers still has to make: when one's turn comes *)
(* each of its halves has one number, or was put in order by the last call     *)
(* before it that had to do with it, or has been in order since before.        *)
Calls == Seq([at : Nat, len : Nat])

IsApart(call, lo, n) == call.at + call.len <= lo \/ lo + n <= call.at

MadeBefore(calls, k, lo, n) ==
  \E j \in 1..(k - 1) : /\ calls[j].at = lo /\ calls[j].len = n
                        /\ \A q \in (j + 1)..(k - 1) : IsApart(calls[q], lo, n)

InOrder(a, lo, n) == \A p \in (lo + 1)..(lo + n - 1) : a[p] <= a[p + 1]

Ready(a, calls, k, lo, n) ==
  \/ n <= 1
  \/ MadeBefore(calls, k, lo, n)
  \/ InOrder(a, lo, n) /\ \A q \in 1..(k - 1) : IsApart(calls[q], lo, n)

FirstHalf(call)  == call.len \div 2
SecondHalf(call) == call.len - call.len \div 2

Pending(a, calls) ==
  /\ calls \in Calls
  /\ \A k \in 1..Len(calls) :
       /\ calls[k].len >= 2 /\ calls[k].at + calls[k].len <= Len(a)
       /\ Ready(a, calls, k, calls[k].at, FirstHalf(calls[k]))
       /\ Ready(a, calls, k, calls[k].at + FirstHalf(calls[k]), SecondHalf(calls[k]))
  /\ Ready(a, calls, Len(calls) + 1, 0, Len(a))

(* No call is left: the array is in order. *)
LEMMA NoCallLeft ==
  ASSUME NEW a \in Seq(Nat), Pending(a, <<>>)
  PROVE  IsSorted(a)
  <1>1. Ready(a, <<>>, Len(<<>>) + 1, 0, Len(a))
    BY DEF Pending
  <1>2. Ready(a, <<>>, 1, 0, Len(a)) /\ Len(a) \in Nat
    BY <1>1
  <1>3. ~MadeBefore(<<>>, 1, 0, Len(a))
    BY DEF MadeBefore
  <1> QED BY <1>2, <1>3 DEF Ready, InOrder, IsSorted

LEMMA Halves ==
  ASSUME NEW n \in Nat, n >= 2
  PROVE  /\ n \div 2 \in 1..(n - 1) /\ n - n \div 2 \in 1..(n - 1)
         /\ n \div 2 + (n - n \div 2) = n
  OBVIOUS

(* The first call is made: the others are as ready as before. *)
LEMMA CallIsMade ==
  ASSUME NEW a \in Seq(Nat), NEW calls, Pending(a, calls), calls # <<>>
  PROVE  /\ MergeCall(a, Head(calls)) \in Seq(Nat)
         /\ Rearranged(a, MergeCall(a, Head(calls)))
         /\ Pending(MergeCall(a, Head(calls)), Tail(calls))
  <1> DEFINE one == Head(calls)
             rest == Tail(calls)
             lo == one.at
             n == one.len
             mi == lo + n \div 2
             hi == lo + n
             r == MergeCall(a, one)
  <1>1. calls \in Calls /\ Len(calls) \in Nat \ {0} /\ 1 \in 1..Len(calls) /\ one = calls[1]
    BY DEF Pending, Calls
  <1>2. /\ rest \in Calls /\ Len(rest) = Len(calls) - 1
        /\ \A k \in 1..Len(rest) : rest[k] = calls[k + 1]
    <2> DEFINE R == [at : Nat, len : Nat]
    <2>1. calls \in Seq(R)
      BY <1>1 DEF Calls
    <2> HIDE DEF R
    <2>2. rest \in Seq(R) /\ Len(rest) = Len(calls) - 1
      BY <1>1, <2>1
    <2>3. \A k \in 1..(Len(calls) - 1) : rest[k] = calls[k + 1]
      BY <1>1, <2>1
    <2> HIDE DEF rest
    <2> QED BY <2>2, <2>3 DEF Calls, R
  <1>3. \A k \in 1..Len(calls) : calls[k].at \in Nat /\ calls[k].len \in Nat
    <2> DEFINE R == [at : Nat, len : Nat]
    <2>1. calls \in Seq(R)
      BY <1>1 DEF Calls
    <2>2. \A c \in R : c.at \in Nat /\ c.len \in Nat
      OBVIOUS
    <2> HIDE DEF R
    <2>3. \A k \in 1..Len(calls) : calls[k] \in R
      BY <2>1
    <2> QED BY <2>2, <2>3
  <1>4. /\ lo \in Nat /\ n \in Nat /\ n >= 2 /\ hi <= Len(a) /\ Len(a) \in Nat
        /\ Ready(a, calls, 1, lo, n \div 2) /\ Ready(a, calls, 1, mi, n - n \div 2)
    BY <1>1, <1>3, SMTT(30) DEF Pending, FirstHalf, SecondHalf
  <1>5. mi \in Nat /\ hi \in Nat /\ lo <= mi /\ mi <= hi /\ mi + (n - n \div 2) = hi
    BY <1>4, Halves, SMTT(30)
  <1>6. IsMerge(r, a, lo, mi, hi)
    <2> HIDE DEF lo, n, mi, hi
    <2>1. IsMerge(Merged(a, lo, mi, hi), a, lo, mi, hi)
      BY <1>4, <1>5, MergedIsMerge
    <2> QED BY <2>1 DEF MergeCall, lo, n, mi, hi
  <1>7. r \in Seq(Nat) /\ Len(r) = Len(a) /\ \A k \in 1..Len(a) : k \notin (lo + 1)..hi => r[k] = a[k]
    BY <1>6 DEF IsMerge
  <1>8. Rearranged(a, r)
    <2> HIDE DEF lo, mi, hi, r, n
    <2> QED BY <1>4, <1>5, <1>6, MergeRearranges
  <1>9. ASSUME NEW x \in Nat, NEW y \in Nat, Ready(a, calls, 1, x, y)
        PROVE  \A p \in (x + 1)..(x + y - 1) : a[p] <= a[p + 1]
    <2>1. ~MadeBefore(calls, 1, x, y)
      BY DEF MadeBefore
    <2> QED BY <1>9, <2>1 DEF Ready, InOrder
  <1>10. InOrder(r, lo, n)
    <2>1. \A p \in (lo + 1)..(mi - 1) : a[p] <= a[p + 1]
      <3> DEFINE y == n \div 2
      <3>1. y \in Nat /\ mi = lo + y
        BY <1>4, Halves
      <3> HIDE DEF y
      <3> QED BY <1>4, <1>9, <3>1 DEF y
    <2>2. \A p \in (mi + 1)..(hi - 1) : a[p] <= a[p + 1]
      <3> DEFINE y == n - n \div 2
      <3>1. y \in Nat /\ hi = mi + y
        BY <1>4, Halves, SMTT(30)
      <3>2. Ready(a, calls, 1, mi, y)
        BY <1>4
      <3> HIDE DEF y, mi, hi
      <3> QED BY <1>5, <1>9, <3>1, <3>2
    <2> HIDE DEF lo, mi, hi, r, n
    <2>0. hi = lo + n
      BY DEF hi, lo, n
    <2> SUFFICES ASSUME NEW p \in (lo + 1)..(hi - 1) PROVE r[p] <= r[p + 1]
      <3>1. lo + n - 1 = hi - 1
        BY <1>4, <2>0
      <3> QED BY <3>1 DEF InOrder
    <2>3. lo \in Nat /\ mi \in Nat /\ hi \in Nat /\ lo <= mi /\ mi <= hi /\ hi <= Len(a)
      BY <1>4, <1>5
    <2> QED BY <1>6, <2>1, <2>2, <2>3, MergeSorts
  <1> HIDE DEF r
  <1>11. ASSUME NEW k \in 1..Len(calls), NEW x \in Nat, NEW y \in Nat, x + y <= Len(a),
                Ready(a, calls, k + 1, x, y)
         PROVE  Ready(r, rest, k, x, y)
    <2>1. \A q \in 1..(k - 1) : q \in 1..Len(rest) /\ rest[q] = calls[q + 1] /\ q + 1 \in 2..k
      BY <1>1, <1>2
    <2>2. CASE y <= 1
      BY <2>2 DEF Ready
    <2>3. CASE MadeBefore(calls, k + 1, x, y)
      <3>1. PICK j \in 1..k : /\ calls[j].at = x /\ calls[j].len = y
                              /\ \A q \in (j + 1)..k : IsApart(calls[q], x, y)
        BY <2>3, SMTT(30) DEF MadeBefore
      <3>2. CASE j = 1
        <4>1. x = lo /\ y = n
          BY <1>1, <3>1, <3>2
        <4>2. \A q \in 1..(k - 1) : IsApart(rest[q], x, y)
          BY <2>1, <3>1, <3>2
        <4> QED BY <1>10, <4>1, <4>2 DEF Ready
      <3>3. CASE j # 1
        <4>1. j - 1 \in 1..(k - 1) /\ (j - 1) + 1 = j
          BY <3>3
        <4>2. rest[j - 1].at = x /\ rest[j - 1].len = y
          BY <2>1, <3>1, <4>1
        <4>3. \A q \in ((j - 1) + 1)..(k - 1) : IsApart(rest[q], x, y)
          <5> SUFFICES ASSUME NEW q \in ((j - 1) + 1)..(k - 1) PROVE IsApart(rest[q], x, y)
            OBVIOUS
          <5>1. q \in 1..(k - 1) /\ q + 1 \in (j + 1)..k
            BY <4>1
          <5> QED BY <2>1, <3>1, <5>1
        <4> QED BY <4>1, <4>2, <4>3 DEF MadeBefore, Ready
      <3> QED BY <3>2, <3>3
    <2>4. CASE InOrder(a, x, y) /\ \A q \in 1..k : IsApart(calls[q], x, y)
      <3>1. IsApart(one, x, y)
        BY <1>1, <2>4
      <3>2. InOrder(r, x, y)
        <4> SUFFICES ASSUME NEW p \in (x + 1)..(x + y - 1) PROVE r[p] <= r[p + 1]
          BY DEF InOrder
        <4>1. p \in 1..Len(a) /\ p + 1 \in 1..Len(a)
          <5>1. Len(a) \in Nat
            OBVIOUS
          <5> QED BY <1>11, <5>1
        <4>2. p \notin (lo + 1)..hi /\ p + 1 \notin (lo + 1)..hi
          <5>1. hi <= x \/ x + y <= lo
            BY <3>1 DEF IsApart
          <5> HIDE DEF lo, hi
          <5> QED BY <1>4, <1>5, <5>1
        <4>3. a[p] <= a[p + 1]
          BY <2>4 DEF InOrder
        <4> QED BY <1>7, <4>1, <4>2, <4>3
      <3>3. \A q \in 1..(k - 1) : IsApart(rest[q], x, y)
        <4> SUFFICES ASSUME NEW q \in 1..(k - 1) PROVE IsApart(rest[q], x, y)
          OBVIOUS
        <4>1. q + 1 \in 1..k
          OBVIOUS
        <4> QED BY <2>1, <2>4, <4>1
      <3> QED BY <3>2, <3>3 DEF Ready
    <2>5. (k + 1) - 1 = k
      OBVIOUS
    <2> QED BY <1>11, <2>2, <2>3, <2>4, <2>5 DEF Ready
  <1>12. ASSUME NEW k \in 1..Len(rest)
         PROVE  /\ rest[k].len >= 2 /\ rest[k].at + rest[k].len <= Len(r)
                /\ Ready(r, rest, k, rest[k].at, FirstHalf(rest[k]))
                /\ Ready(r, rest, k, rest[k].at + FirstHalf(rest[k]), SecondHalf(rest[k]))
    <2> DEFINE K == k + 1
               h == calls[K].len \div 2
               g == calls[K].len - h
               x == calls[K].at
    <2>1. K \in 1..Len(calls) /\ rest[k] = calls[K] /\ k \in 1..Len(calls)
      BY <1>1, <1>2
    <2> HIDE DEF K
    <2>2. /\ calls[K].len >= 2 /\ x + calls[K].len <= Len(a)
          /\ Ready(a, calls, K, x, h) /\ Ready(a, calls, K, x + h, g)
      BY <2>1 DEF Pending, FirstHalf, SecondHalf
    <2>3. x \in Nat /\ calls[K].len \in Nat
      BY <1>3, <2>1
    <2>4. h \in Nat /\ g \in Nat /\ h + g = calls[K].len
      BY <2>2, <2>3, Halves, SMTT(30)
    <2> HIDE DEF x, h, g
    <2>5. x + h \in Nat /\ x + h <= Len(a) /\ (x + h) + g <= Len(a)
      BY <1>4, <2>2, <2>3, <2>4
    <2>6. Ready(r, rest, k, x, h) /\ Ready(r, rest, k, x + h, g)
      BY <1>11, <2>1, <2>2, <2>3, <2>4, <2>5 DEF K
    <2> QED BY <1>7, <2>1, <2>2, <2>6 DEF x, h, g, FirstHalf, SecondHalf
  <1>13. Ready(r, rest, Len(rest) + 1, 0, Len(r))
    <2> DEFINE K == Len(calls)
    <2>1. Len(rest) + 1 = K /\ K \in 1..Len(calls)
      BY <1>1, <1>2
    <2>2. Ready(a, calls, K + 1, 0, Len(a))
      BY DEF Pending
    <2> HIDE DEF K
    <2>3. 0 + Len(a) <= Len(a) /\ 0 \in Nat
      BY <1>4
    <2> QED BY <1>4, <1>7, <1>11, <2>1, <2>2, <2>3
  <1>14. Pending(r, rest)
    BY <1>2, <1>12, <1>13 DEF Pending
  <1> QED BY <1>7, <1>8, <1>14 DEF r

-------------------------------------------------------------------------------
(* The calls of merge_sort are in such an order from the beginning. *)
CallsOf(f, n) ==
  IF n <= 1 THEN <<>>
  ELSE f[n \div 2] \o Shifted(f[n - n \div 2], n \div 2) \o <<[at |-> 0, len |-> n]>>

IsSort(f, n) == f = [k \in 0..n |-> CallsOf(f, k)]

LEMMA SortExists ==
  ASSUME NEW max \in Nat
  PROVE  \E f : IsSort(f, max)
  <1> DEFINE S == {n \in Nat : ~ \E f : IsSort(f, n)}
  <1> SUFFICES ASSUME S # {} PROVE FALSE
    OBVIOUS
  <1>1. PICK n \in S : \A q \in S : n <= q
    <2>1. S \in SUBSET Nat
      OBVIOUS
    <2> QED BY <2>1, Least
  <1>2. n \in Nat /\ ~ \E f : IsSort(f, n)
    OBVIOUS
  <1>3. PICK f : n > 0 => IsSort(f, n - 1)
    <2>1. CASE n = 0
      BY <2>1
    <2>2. CASE n # 0
      <3>1. n - 1 \in Nat /\ ~(n <= n - 1)
        BY <1>2, <2>2
      <3>2. n - 1 \notin S
        BY <1>1, <3>1
      <3> QED BY <3>1, <3>2
    <2> QED BY <2>1, <2>2
  <1> DEFINE g == [k \in 0..n |-> IF k = n THEN CallsOf(f, n) ELSE f[k]]
  <1>4. ASSUME NEW k \in 0..n PROVE CallsOf(g, k) = CallsOf(f, k)
    <2>1. CASE k <= 1
      BY <2>1 DEF CallsOf
    <2>2. CASE ~(k <= 1)
      <3> DEFINE x == k \div 2
                 y == k - k \div 2
      <3>1. x \in 1..(k - 1) /\ y \in 1..(k - 1)
        BY <2>2, Halves
      <3> HIDE DEF x, y
      <3>2. g[x] = f[x] /\ g[y] = f[y]
        BY <3>1
      <3> HIDE DEF g
      <3>3. CallsOf(g, k) = g[x] \o Shifted(g[y], x) \o <<[at |-> 0, len |-> k]>>
        BY <2>2 DEF CallsOf, x, y
      <3>4. CallsOf(f, k) = f[x] \o Shifted(f[y], x) \o <<[at |-> 0, len |-> k]>>
        BY <2>2 DEF CallsOf, x, y
      <3> QED BY <3>2, <3>3, <3>4
    <2> QED BY <2>1, <2>2
  <1>5. ASSUME NEW k \in 0..n PROVE g[k] = CallsOf(f, k)
    <2>1. CASE k = n
      BY <2>1
    <2>2. CASE k # n
      <3>1. n > 0 /\ k \in 0..(n - 1)
        BY <1>2, <2>2
      <3>2. f = [q \in 0..(n - 1) |-> CallsOf(f, q)]
        BY <1>3, <3>1 DEF IsSort
      <3>3. f[k] = CallsOf(f, k)
        BY <3>1, <3>2
      <3> QED BY <2>2, <3>3
    <2> QED BY <2>1, <2>2
  <1>6. g = [k \in 0..n |-> g[k]]
    OBVIOUS
  <1> HIDE DEF g
  <1>7. g = [k \in 0..n |-> CallsOf(g, k)]
    BY <1>4, <1>5, <1>6
  <1> QED BY <1>2, <1>7 DEF IsSort

LEMMA SortUnfolds ==
  \A n \in 0..MaxLength : merge_sort[n] = CallsOf(merge_sort, n)
  <1> DEFINE Unfold(f) == IsSort(f, MaxLength)
  <1>1. merge_sort = CHOOSE f : Unfold(f)
    BY DEF merge_sort, IsSort, CallsOf
  <1>2. \E f : Unfold(f)
    BY ConstantsAssumption, SortExists
  <1> HIDE DEF Unfold
  <1>3. Unfold(merge_sort)
    BY <1>1, <1>2
  <1>4. merge_sort = [n \in 0..MaxLength |-> CallsOf(merge_sort, n)]
    BY <1>3 DEF Unfold, IsSort
  <1> QED BY <1>4

Planned(calls, n) ==
  /\ calls \in Calls
  /\ \A k \in 1..Len(calls) :
       /\ calls[k].len >= 2 /\ calls[k].at + calls[k].len <= n
       /\ FirstHalf(calls[k]) <= 1 \/ MadeBefore(calls, k, calls[k].at, FirstHalf(calls[k]))
       /\ \/ SecondHalf(calls[k]) <= 1
          \/ MadeBefore(calls, k, calls[k].at + FirstHalf(calls[k]), SecondHalf(calls[k]))
  /\ n <= 1 \/ MadeBefore(calls, Len(calls) + 1, 0, n)

LEMMA PlannedIsPending ==
  ASSUME NEW a, NEW calls, Planned(calls, Len(a))
  PROVE  Pending(a, calls)
  BY DEF Planned, Pending, Ready

LEMMA ConcatIs ==
  ASSUME NEW S, NEW a \in Seq(S), NEW b \in Seq(S)
  PROVE  /\ a \o b \in Seq(S) /\ Len(a \o b) = Len(a) + Len(b)
         /\ \A k \in 1..Len(a) : (a \o b)[k] = a[k]
         /\ \A k \in 1..Len(b) : (a \o b)[Len(a) + k] = b[k]
  OBVIOUS

Row(A, B, h, n) == A \o Shifted(B, h) \o <<[at |-> 0, len |-> n]>>

(* What two sorts make of their calls, and the call that merges them. *)
IsRow(m, A, B, h, n) ==
  /\ m \in Calls /\ Len(m) = Len(A) + Len(B) + 1
  /\ \A k \in 1..Len(A) : m[k] = A[k]
  /\ \A k \in 1..Len(B) : m[Len(A) + k].at = B[k].at + h /\ m[Len(A) + k].len = B[k].len
  /\ m[Len(A) + Len(B) + 1].at = 0 /\ m[Len(A) + Len(B) + 1].len = n

LEMMA CallsInARow ==
  ASSUME NEW A \in Calls, NEW B \in Calls, NEW h \in Nat, NEW n \in Nat
  PROVE  IsRow(Row(A, B, h, n), A, B, h, n)
  <1> DEFINE R == [at : Nat, len : Nat]
             C == Shifted(B, h)
             D == <<[at |-> 0, len |-> n]>>
             p == Len(A)
             q == Len(B)
             both == A \o C
             m == Row(A, B, h, n)
  <1>1. A \in Seq(R) /\ B \in Seq(R) /\ p \in Nat /\ q \in Nat
    <2>1. A \in Seq(R) /\ B \in Seq(R)
      BY DEF Calls
    <2> HIDE DEF R
    <2> QED BY <2>1
  <1>2. \A c \in R : /\ c.at \in Nat /\ c.len \in Nat /\ c = [at |-> c.at, len |-> c.len]
                     /\ [c EXCEPT !.at = @ + h] \in R
                     /\ [c EXCEPT !.at = @ + h].at = c.at + h
                     /\ [c EXCEPT !.at = @ + h].len = c.len
    OBVIOUS
  <1>3. D \in Seq(R) /\ Len(D) = 1 /\ D[1].at = 0 /\ D[1].len = n
    OBVIOUS
  <1> HIDE DEF R, D
  <1>4. \A k \in 1..q : B[k] \in R
    BY <1>1
  <1>5. C \in Seq(R) /\ Len(C) = q /\ \A k \in 1..q : C[k].at = B[k].at + h /\ C[k].len = B[k].len
    <2>1. C = [k \in 1..q |-> [B[k] EXCEPT !.at = @ + h]]
      BY DEF Shifted
    <2>2. C \in [1..q -> R]
      BY <1>2, <1>4, <2>1
    <2>3. C \in Seq(R) /\ Len(C) = q
      <3> HIDE DEF C, q
      <3> QED BY <1>1, <2>2
    <2> QED BY <1>2, <1>4, <2>1, <2>3
  <1> HIDE DEF C
  <1>6. /\ both \in Seq(R) /\ Len(both) = p + q
        /\ (\A k \in 1..p : both[k] = A[k]) /\ \A k \in 1..q : both[p + k] = C[k]
    <2>1. A \in Seq(R) /\ C \in Seq(R) /\ q = Len(C) /\ p = Len(A)
      BY <1>1, <1>5
    <2> HIDE DEF p, q
    <2>2. /\ A \o C \in Seq(R) /\ Len(A \o C) = p + q
          /\ (\A k \in 1..p : (A \o C)[k] = A[k]) /\ \A k \in 1..q : (A \o C)[p + k] = C[k]
      BY <2>1
    <2> QED BY <2>2
  <1>7. m = both \o D
    BY DEF D, C, Row
  <1> HIDE DEF both, p, q, m
  <1> DEFINE N == p + q
  <1>n. p \in Nat /\ q \in Nat /\ N \in Nat /\ N = p + q /\ Len(both) = N
    BY <1>1, <1>6 DEF p, q
  <1> HIDE DEF N
  <1>8. both \in Seq(R) /\ D \in Seq(R)
    BY <1>3, <1>6
  <1>c. /\ both \o D \in Seq(R) /\ Len(both \o D) = Len(both) + Len(D)
        /\ \A k \in 1..Len(both) : (both \o D)[k] = both[k]
        /\ \A k \in 1..Len(D) : (both \o D)[Len(both) + k] = D[k]
    BY <1>8
  <1>d. both \o D \in Seq(R) /\ Len(both \o D) = N + 1
    <2>1. Len(both \o D) = Len(both) + Len(D)
      BY <1>c
    <2> QED BY <1>3, <1>c, <1>n, <2>1
  <1>e. (\A k \in 1..N : (both \o D)[k] = both[k]) /\ (both \o D)[N + 1] = D[1]
    <2>1. 1 \in 1..Len(D)
      BY <1>3
    <2>2. (both \o D)[Len(both) + 1] = D[1]
      BY <1>c, <2>1
    <2> QED BY <1>c, <1>n, <2>2
  <1>9. /\ m \in Seq(R) /\ Len(m) = N + 1
        /\ (\A k \in 1..N : m[k] = both[k]) /\ m[N + 1] = D[1]
    BY <1>7, <1>d, <1>e
  <1>10. (\A k \in 1..p : m[k] = A[k]) /\ \A k \in 1..q : m[p + k] = C[k]
    <2>1. (\A k \in 1..p : k \in 1..N) /\ \A k \in 1..q : p + k \in 1..N
      BY <1>n
    <2> QED BY <1>6, <1>9, <2>1
  <1>11. m \in Calls
    BY <1>9 DEF Calls, R
  <1> QED BY <1>3, <1>5, <1>n, <1>8, <1>9, <1>10, <1>11 DEF p, q, m, IsRow

LEMMA CallTypes ==
  ASSUME NEW calls \in Calls
  PROVE  Len(calls) \in Nat /\ \A k \in 1..Len(calls) : calls[k].at \in Nat /\ calls[k].len \in Nat
  <1> DEFINE R == [at : Nat, len : Nat]
  <1>1. calls \in Seq(R)
    BY DEF Calls
  <1>2. \A c \in R : c.at \in Nat /\ c.len \in Nat
    OBVIOUS
  <1> HIDE DEF R
  <1>3. Len(calls) \in Nat /\ \A k \in 1..Len(calls) : calls[k] \in R
    BY <1>1
  <1> QED BY <1>2, <1>3

LEMMA SortGoesOn ==
  ASSUME NEW n \in Nat, n >= 2, NEW h \in Nat, h <= n, NEW A, NEW B,
         h = n \div 2, Planned(A, h), Planned(B, n - h)
  PROVE  Planned(Row(A, B, h, n), n)
  <1> DEFINE m == Row(A, B, h, n)
             p == Len(A)
             q == Len(B)
  <1>1. A \in Calls /\ B \in Calls
    BY DEF Planned
  <1>2. /\ m \in Calls /\ Len(m) = p + q + 1
        /\ \A k \in 1..p : m[k] = A[k]
        /\ \A k \in 1..q : m[p + k].at = B[k].at + h /\ m[p + k].len = B[k].len
        /\ m[p + q + 1].at = 0 /\ m[p + q + 1].len = n
    <2>1. IsRow(m, A, B, h, n)
      BY <1>1, CallsInARow
    <2> QED BY <2>1 DEF IsRow
  <1>3. /\ p \in Nat /\ \A k \in 1..p : A[k].at \in Nat /\ A[k].len \in Nat
        /\ q \in Nat /\ \A k \in 1..q : B[k].at \in Nat /\ B[k].len \in Nat
    BY <1>1, CallTypes
  <1> HIDE DEF m, p, q
  <1>4. ASSUME NEW k \in 1..(p + 1), NEW x, NEW y, MadeBefore(A, k, x, y)
        PROVE  MadeBefore(m, k, x, y)
    <2>1. \A j \in 1..(k - 1) : j \in 1..p
      BY <1>3
    <2> QED BY <1>2, <1>4, <2>1 DEF MadeBefore
  <1>5. ASSUME NEW k \in 1..(q + 1), NEW x \in Nat, NEW y \in Nat, MadeBefore(B, k, x, y)
        PROVE  MadeBefore(m, p + k, x + h, y)
    <2>1. PICK j \in 1..(k - 1) : /\ B[j].at = x /\ B[j].len = y
                                  /\ \A u \in (j + 1)..(k - 1) : IsApart(B[u], x, y)
      BY <1>5 DEF MadeBefore
    <2>2. j \in 1..q /\ p + j \in 1..((p + k) - 1)
      BY <1>3
    <2>3. m[p + j].at = x + h /\ m[p + j].len = y
      BY <1>2, <2>1, <2>2
    <2>4. ASSUME NEW v \in ((p + j) + 1)..((p + k) - 1) PROVE IsApart(m[v], x + h, y)
      <3> DEFINE u == v - p
      <3>1. u \in (j + 1)..(k - 1) /\ u \in 1..q /\ p + u = v
        BY <1>3
      <3> HIDE DEF u
      <3>2. m[v].at = B[u].at + h /\ m[v].len = B[u].len
        BY <1>2, <3>1
      <3>3. IsApart(B[u], x, y) /\ B[u].at \in Nat /\ B[u].len \in Nat
        BY <1>3, <2>1, <3>1
      <3> QED BY <3>2, <3>3 DEF IsApart
    <2> QED BY <2>2, <2>3, <2>4 DEF MadeBefore
  <1>6. h >= 1 /\ n - h >= 1 /\ n - h \in Nat
    BY Halves
  (* The halves of the last call. *)
  <1> DEFINE K == p + q + 1
  <1>k. K = p + q + 1 /\ K - 1 = p + q
    BY <1>3
  <1> HIDE DEF K
  <1>7. h <= 1 \/ MadeBefore(m, K, 0, h)
    <2> SUFFICES ASSUME ~(h <= 1) PROVE MadeBefore(m, K, 0, h)
      OBVIOUS
    <2>1. MadeBefore(A, p + 1, 0, h)
      BY DEF Planned, p
    <2>2. PICK j \in 1..p : A[j].at = 0 /\ A[j].len = h /\ \A u \in (j + 1)..p : IsApart(A[u], 0, h)
      BY <1>3, <2>1 DEF MadeBefore
    <2>3. j \in 1..(K - 1) /\ m[j].at = 0 /\ m[j].len = h
      BY <1>2, <1>3, <1>k, <2>2
    <2>4. ASSUME NEW v \in (j + 1)..(K - 1) PROVE IsApart(m[v], 0, h)
      <3>1. CASE v <= p
        <4>1. v \in 1..p /\ v \in (j + 1)..p
          BY <1>3, <1>k, <3>1
        <4> QED BY <1>2, <2>2, <4>1
      <3>2. CASE ~(v <= p)
        <4> DEFINE u == v - p
        <4>1. u \in 1..q /\ p + u = v
          BY <1>3, <1>k, <3>2
        <4> HIDE DEF u
        <4>2. m[v].at = B[u].at + h /\ B[u].at \in Nat
          BY <1>2, <1>3, <4>1
        <4> QED BY <4>2 DEF IsApart
      <3> QED BY <3>1, <3>2
    <2> QED BY <2>3, <2>4 DEF MadeBefore
  <1>8. n - h <= 1 \/ MadeBefore(m, K, h, n - h)
    <2> SUFFICES ASSUME ~(n - h <= 1) PROVE MadeBefore(m, K, h, n - h)
      OBVIOUS
    <2>1. MadeBefore(B, q + 1, 0, n - h)
      BY DEF Planned, q
    <2>2. q + 1 \in 1..(q + 1) /\ 0 + h = h /\ p + (q + 1) = K
      BY <1>3, <1>k
    <2>3. MadeBefore(m, p + (q + 1), 0 + h, n - h)
      BY <1>5, <1>6, <2>1, <2>2
    <2> QED BY <2>2, <2>3
  <1>9. ASSUME NEW k \in 1..Len(m)
        PROVE  /\ m[k].len >= 2 /\ m[k].at + m[k].len <= n
               /\ FirstHalf(m[k]) <= 1 \/ MadeBefore(m, k, m[k].at, FirstHalf(m[k]))
               /\ \/ SecondHalf(m[k]) <= 1
                  \/ MadeBefore(m, k, m[k].at + FirstHalf(m[k]), SecondHalf(m[k]))
    <2>1. CASE k <= p
      <3>1. k \in 1..p /\ k \in 1..(p + 1) /\ m[k] = A[k] /\ A[k].at \in Nat /\ A[k].len \in Nat
        BY <1>2, <1>3, <2>1
      <3>2. /\ A[k].len >= 2 /\ A[k].at + A[k].len <= h
            /\ FirstHalf(A[k]) <= 1 \/ MadeBefore(A, k, A[k].at, FirstHalf(A[k]))
            /\ \/ SecondHalf(A[k]) <= 1
               \/ MadeBefore(A, k, A[k].at + FirstHalf(A[k]), SecondHalf(A[k]))
        BY <3>1 DEF Planned, p
      <3>3. A[k].at + A[k].len <= n
        BY <3>1, <3>2
      <3> QED BY <1>4, <3>1, <3>2, <3>3
    <2>2. CASE k > p /\ k <= p + q
      <3> DEFINE u == k - p
                 x == B[u].at
                 y == FirstHalf(B[u])
                 z == SecondHalf(B[u])
      <3>1. u \in 1..q /\ p + u = k /\ u \in 1..(q + 1)
        BY <1>3, <2>2
      <3> HIDE DEF u
      <3>2. m[k].at = x + h /\ m[k].len = B[u].len /\ x \in Nat /\ B[u].len \in Nat
        BY <1>2, <1>3, <3>1
      <3>3. /\ B[u].len >= 2 /\ x + B[u].len <= n - h
            /\ y <= 1 \/ MadeBefore(B, u, x, y)
            /\ z <= 1 \/ MadeBefore(B, u, x + y, z)
        BY <3>1 DEF Planned, q
      <3>4. y \in Nat /\ z \in Nat
        BY <3>2, <3>3, Halves DEF FirstHalf, SecondHalf
      <3>5. y = FirstHalf(m[k]) /\ z = SecondHalf(m[k])
        BY <3>2 DEF FirstHalf, SecondHalf
      <3> HIDE DEF x, y, z
      <3>6. y <= 1 \/ MadeBefore(m, k, x + h, y)
        BY <1>5, <3>1, <3>2, <3>3, <3>4
      <3>7. z <= 1 \/ MadeBefore(m, k, (x + h) + y, z)
        <4>1. x + y \in Nat /\ (x + y) + h = (x + h) + y
          BY <3>2, <3>4
        <4> QED BY <1>5, <3>1, <3>3, <3>4, <4>1
      <3>8. (x + h) + B[u].len <= n
        BY <3>2, <3>3
      <3> QED BY <3>2, <3>3, <3>5, <3>6, <3>7, <3>8
    <2>3. CASE k = K
      <3>1. m[k].at = 0 /\ m[k].len = n /\ FirstHalf(m[k]) = h /\ SecondHalf(m[k]) = n - h /\ 0 + h = h
        BY <1>2, <1>k, <2>3 DEF FirstHalf, SecondHalf
      <3> QED BY <1>7, <1>8, <2>3, <3>1
    <2>4. k <= p \/ (k > p /\ k <= p + q) \/ k = K
      BY <1>2, <1>3, <1>k
    <2> QED BY <2>1, <2>2, <2>3, <2>4
  <1>10. MadeBefore(m, Len(m) + 1, 0, n)
    <2>1. K \in Nat /\ K >= 1 /\ Len(m) = K /\ m[K].at = 0 /\ m[K].len = n
      BY <1>2, <1>3, <1>k
    <2>2. K \in 1..(K + 1 - 1) /\ \A u \in (K + 1)..(K + 1 - 1) : FALSE
      BY <2>1
    <2> QED BY <2>1, <2>2 DEF MadeBefore
  <1> QED BY <1>2, <1>9, <1>10 DEF Planned, m

LEMMA SortIsPlanned ==
  ASSUME NEW n \in 0..MaxLength
  PROVE  Planned(merge_sort[n], n)
  <1> DEFINE S == {k \in 0..MaxLength : ~Planned(merge_sort[k], k)}
  <1> SUFFICES ASSUME S # {} PROVE FALSE
    OBVIOUS
  <1>1. PICK k \in S : \A q \in S : k <= q
    <2>1. S \in SUBSET Nat
      OBVIOUS
    <2> HIDE DEF S
    <2> QED BY <2>1, Least
  <1>2. k \in 0..MaxLength /\ ~Planned(merge_sort[k], k) /\ merge_sort[k] = CallsOf(merge_sort, k)
    BY SortUnfolds
  <1>3. CASE k <= 1
    <2>1. merge_sort[k] = <<>>
      BY <1>2, <1>3 DEF CallsOf
    <2>2. Planned(<<>>, k)
      BY <1>3 DEF Planned, Calls
    <2> QED BY <1>2, <2>1, <2>2
  <1>4. CASE ~(k <= 1)
    <2> DEFINE h == k \div 2
               A == merge_sort[h]
               B == merge_sort[k - h]
    <2>1. k \in Nat /\ k >= 2 /\ h \in 1..(k - 1) /\ k - h \in 1..(k - 1)
      BY <1>2, <1>4, ConstantsAssumption, Halves
    <2>2. merge_sort[k] = Row(A, B, h, k)
      BY <1>2, <1>4 DEF CallsOf, Row
    <2>3. \A l \in 1..(k - 1) : Planned(merge_sort[l], l)
      <3> SUFFICES ASSUME NEW l \in 1..(k - 1), ~Planned(merge_sort[l], l) PROVE FALSE
        OBVIOUS
      <3>1. l \in 0..MaxLength /\ ~(k <= l)
        BY <1>2, ConstantsAssumption
      <3>2. l \in S
        BY <3>1
      <3> HIDE DEF S
      <3> QED BY <1>1, <3>1, <3>2
    <2>4. Planned(A, h) /\ Planned(B, k - h)
      BY <2>1, <2>3
    <2> DEFINE g == h
    <2>5. g = k \div 2 /\ g \in Nat /\ g <= k /\ Planned(A, g) /\ Planned(B, k - g)
      BY <2>1, <2>4
    <2>6. merge_sort[k] = Row(A, B, g, k)
      BY <2>2
    <2> HIDE DEF g, A, B
    <2>7. Planned(Row(A, B, g, k), k)
      BY <2>1, <2>5, SortGoesOn
    <2> QED BY <1>2, <2>6, <2>7
  <1> QED BY <1>3, <1>4

-------------------------------------------------------------------------------
(* The program's own invariant.  What its variables hold: *)
DataInv ==
  /\ contents \in Seq(Contents) /\ n_files \in 1..MaxFiles
  /\ \A k \in 1..n_files : /\ contents[k] \in Seq(Nat) /\ Len(contents[k]) <= MaxLength
                           /\ \A p \in 1..Len(contents[k]) : contents[k][p] <= IntMax
  /\ status \in [1..n_files -> {0, 1}]
  /\ result \in [1..n_files -> Seq(Int)]
  /\ pc \in [Coroutines -> {"find", "input", "sort", "over"}]
  /\ file_i \in [Coroutines -> 1..(n_files + 1)]
  /\ merges \in [Coroutines -> Calls]
  /\ main \in {"create", "loop", "merge", "printed", "wild", "failed"}
  /\ current \in Nodes

(* main creates them all before the loop starts; only who is in the ring has a *)
(* file, and who has returned is not in it any more.                          *)
CrewInv ==
  /\ allocated \subseteq 1..n_coro
  /\ main = "create" => \E k \in Nat : allocated = 1..k
  /\ main = "create" => \A c \in Coroutines : pc[c] = "find"
  /\ \A c \in Coroutines : IF c \in allocated THEN pc[c] # "over" ELSE pc[c] \in {"find", "over"}

(* Every file before the one that somebody looks at is claimed.  Who claimed   *)
(* it still has it, and nobody else does, or it is sorted.                     *)
Has(c, k) == pc[c] \in {"input", "sort"} /\ file_i[c] = k

IsDone(k) == /\ result[k] \in Seq(Nat) /\ IsSorted(result[k])
             /\ Rearranged(contents[k], result[k])

ClaimInv ==
  /\ \A c \in Coroutines : \A k \in 1..n_files : k < file_i[c] \/ Has(c, k) => status[k] = 1
  /\ \A c \in Coroutines : pc[c] \in {"input", "sort"} => file_i[c] \in 1..n_files
  /\ \A c, d \in Coroutines : \A k \in 1..n_files : Has(c, k) /\ Has(d, k) => c = d
  /\ \A k \in 1..n_files :
       IF status[k] = 0 THEN result[k] = Unread
       ELSE IsDone(k) \/ \E c \in Coroutines : Has(c, k)
  /\ loop = "over" => \A k \in 1..n_files : status[k] = 1

(* An array in work holds its file's numbers, and is as far as the calls that  *)
(* are left require.                                                          *)
WorkInv(c) ==
  /\ pc[c] # "sort" => merges[c] = <<>>
  /\ pc[c] = "input" => result[file_i[c]] = Unread
  /\ pc[c] = "sort" => /\ merges[c] # <<>>
                       /\ result[file_i[c]] \in Seq(Nat)
                       /\ Rearranged(contents[file_i[c]], result[file_i[c]])
                       /\ Pending(result[file_i[c]], merges[c])
WorksInv == \A c \in Coroutines : WorkInv(c)

(* main merges only when the loop is over. *)
Merging == {"merge", "printed", "wild"}
MergeInv ==
  /\ main \notin Merging => cursors = [k \in 1..n_files |-> 0] /\ merged = <<>>
  /\ main \in Merging => loop = "over" /\ Halfway(n_files, result, cursors, merged)
  /\ \A k \in 1..Len(merged) : merged[k] < IntMax
  /\ main = "printed" => \A k \in 1..n_files : ~More(k)
  /\ main = "wild" => /\ \E k \in 1..n_files : More(k)
                      /\ \A k \in 1..n_files : More(k) => Value(k) >= IntMax

ProgInv == DataInv /\ CrewInv /\ ClaimInv /\ WorksInv /\ MergeInv

-------------------------------------------------------------------------------
LEMMA CoroutinesAre ==
  \A c \in Coroutines : /\ c \in Nat /\ c > 0 /\ Cardinality(Coroutines) \in Nat
                        /\ \A d \in 1..c : d \in Coroutines
  BY CoroutinesAssumption

LEMMA NumbersOf ==
  ASSUME NEW a \in Seq(0..IntMax)
  PROVE  a \in Seq(Nat) /\ \A p \in 1..Len(a) : a[p] <= IntMax
  <1> DEFINE S == 0..IntMax
  <1>1. a \in Seq(S) /\ \A x \in S : x \in Nat /\ x <= IntMax
    BY ConstantsAssumption
  <1> HIDE DEF S
  <1> QED BY <1>1

LEMMA ProgInit == Init => ProgInv
  <1> SUFFICES ASSUME Init PROVE ProgInv
    OBVIOUS
  <1>1. PICK n \in 1..MaxFiles : contents \in [1..n -> Contents]
    BY DEF Init
  <1>2. n \in Nat /\ contents \in Seq(Contents) /\ n_files = n
    BY <1>1, ConstantsAssumption DEF n_files
  <1>3. ASSUME NEW k \in 1..n_files
        PROVE  /\ contents[k] \in Seq(Nat) /\ Len(contents[k]) <= MaxLength
               /\ \A p \in 1..Len(contents[k]) : contents[k][p] <= IntMax
    <2>1. contents[k] \in Contents
      BY <1>1, <1>2
    <2>2. contents[k] \in Seq(0..IntMax) /\ Len(contents[k]) <= MaxLength
      BY <2>1, ConstantsAssumption
    <2> QED BY <2>2, NumbersOf
  <1>4. DataInv
    <2>1. Unread \in Seq(Int)
      BY DEF Unread
    <2>2. <<>> \in Calls
      BY DEF Calls
    <2>3. 1 \in 1..(n_files + 1)
      BY <1>2
    <2>4. current \in Nodes
      BY Sentinels DEF Init, LoopInit
    <2> QED BY <1>1, <1>2, <1>3, <2>1, <2>2, <2>3, <2>4 DEF Init, DataInv
  <1>5. CrewInv
    <2>1. allocated = 1..0 /\ 0 \in Nat /\ allocated = {}
      BY DEF Init, LoopInit
    <2> QED BY <2>1 DEF Init, CrewInv
  <1>6. ClaimInv
    BY DEF Init, LoopInit, ClaimInv, Has
  <1>7. WorksInv
    BY DEF Init, WorksInv, WorkInv
  <1>8. MergeInv
    BY DEF Init, MergeInv, Merging
  <1> QED BY <1>4, <1>5, <1>6, <1>7, <1>8 DEF ProgInv

-------------------------------------------------------------------------------
(* What the steps of a coroutine make of its array. *)
LEMMA InputMakes ==
  ASSUME DataInv, ClaimInv, NEW c \in Coroutines, Input(c)
  PROVE  \E k \in 1..n_files : \E m \in Calls :
           /\ k = file_i[c] /\ Pending(contents[k], m)
           /\ result' = [result EXCEPT ![k] = contents[k]] /\ merges' = [merges EXCEPT ![c] = m]
           /\ pc' = [pc EXCEPT ![c] = IF m = <<>> THEN "find" ELSE "sort"]
  <1> DEFINE k == file_i[c]
             m == merge_sort[Len(contents[k])]
  <1>1. k \in 1..n_files
    BY DEF ClaimInv, Input
  <1>2. Len(contents[k]) \in 0..MaxLength
    BY <1>1, ConstantsAssumption DEF DataInv
  <1> HIDE DEF k
  <1>3. Planned(m, Len(contents[k]))
    BY <1>2, SortIsPlanned
  <1> HIDE DEF m
  <1>4. Pending(contents[k], m) /\ m \in Calls
    BY <1>3, PlannedIsPending DEF Planned
  <1>5. result' = [result EXCEPT ![k] = contents[k]] /\ merges' = [merges EXCEPT ![c] = m]
    BY DEF Input, k, m
  <1>6. merges'[c] = m
    BY <1>5 DEF DataInv
  <1>7. pc' = [pc EXCEPT ![c] = IF m = <<>> THEN "find" ELSE "sort"]
    BY <1>6 DEF Input, After
  <1> QED BY <1>1, <1>4, <1>5, <1>7 DEF k

LEMMA SortMakes ==
  ASSUME DataInv, ClaimInv, WorksInv, NEW c \in Coroutines, Sort(c)
  PROVE  \E k \in 1..n_files : \E m \in Calls : \E r \in Seq(Nat) :
           /\ k = file_i[c] /\ Pending(r, m) /\ Rearranged(contents[k], r)
           /\ result' = [result EXCEPT ![k] = r] /\ merges' = [merges EXCEPT ![c] = m]
           /\ pc' = [pc EXCEPT ![c] = IF m = <<>> THEN "find" ELSE "sort"]
  <1> DEFINE k == file_i[c]
             a == result[k]
             m == Tail(merges[c])
             r == MergeCall(a, Head(merges[c]))
  <1>1. k \in 1..n_files /\ pc[c] = "sort"
    BY DEF ClaimInv, Sort
  <1>2. merges[c] # <<>> /\ a \in Seq(Nat) /\ Rearranged(contents[k], a) /\ Pending(a, merges[c])
    BY <1>1 DEF WorksInv, WorkInv
  <1> HIDE DEF k, a
  <1>3. r \in Seq(Nat) /\ Rearranged(a, r) /\ Pending(r, m)
    BY <1>2, CallIsMade
  <1>4. result' = [result EXCEPT ![k] = r] /\ merges' = [merges EXCEPT ![c] = m]
    <2>1. result' = [result EXCEPT ![k] = MergeCall(@, Head(merges[c]))]
      BY DEF Sort, k
    <2>2. merges' = [merges EXCEPT ![c] = Tail(@)]
      BY DEF Sort
    <2> QED BY <1>1, <2>1, <2>2 DEF a, DataInv
  <1> HIDE DEF r, m
  <1>5. Rearranged(contents[k], r)
    BY <1>2, <1>3, RearrangedAgain
  <1>6. merges'[c] = m
    BY <1>4 DEF DataInv
  <1>7. pc' = [pc EXCEPT ![c] = IF m = <<>> THEN "find" ELSE "sort"]
    BY <1>6 DEF Sort, After
  <1>8. m \in Calls
    BY <1>3 DEF Pending
  <1> QED BY <1>1, <1>3, <1>4, <1>5, <1>7, <1>8 DEF k

-------------------------------------------------------------------------------
(* Each part, over each action. *)
LEMMA OnTheRing ==
  ASSUME Inv, current \in Nodes
  PROVE  /\ next[Sentinel] \in Nodes /\ NodeAfter(current) \in Nodes
         /\ coro_yield_with_metrics => /\ UNCHANGED <<allocated, loop>>
                                       /\ current' \in Nodes
  <1>1. next[Sentinel] \in Nodes /\ NodeAfter(current) \in Nodes
    BY Sentinels DEF Inv, RingInv, NodeAfter
  <1> QED BY <1>1 DEF coro_yield_with_metrics, coro_yield, loopVars

LEMMA DataNext ==
  ASSUME Inv, DataInv, ClaimInv, WorksInv, [Next]_vars
  PROVE  DataInv'
  <1>t. /\ status \in [1..n_files -> {0, 1}]
        /\ result \in [1..n_files -> Seq(Int)]
        /\ pc \in [Coroutines -> {"find", "input", "sort", "over"}]
        /\ file_i \in [Coroutines -> 1..(n_files + 1)]
        /\ merges \in [Coroutines -> Calls]
        /\ main \in {"create", "loop", "merge", "printed", "wild", "failed"}
        /\ current \in Nodes /\ n_files \in Nat
    BY ConstantsAssumption DEF DataInv
  <1>r. /\ next[Sentinel] \in Nodes /\ NodeAfter(current) \in Nodes
        /\ coro_yield_with_metrics => current' \in Nodes
    BY <1>t, OnTheRing
  <1>0. contents' = contents /\ n_files' = n_files
    <2>1. contents' = contents
      BY DEF Next, vars, progVars, CreateNext, Start, Fail, Find, NoneFree, Input, Sort,
             Take, TakeWild, Output
    <2> QED BY <2>1 DEF n_files
  <1> DEFINE Typed ==
        /\ status' \in [1..n_files -> {0, 1}]
        /\ result' \in [1..n_files -> Seq(Int)]
        /\ pc' \in [Coroutines -> {"find", "input", "sort", "over"}]
        /\ file_i' \in [Coroutines -> 1..(n_files + 1)]
        /\ merges' \in [Coroutines -> Calls]
        /\ main' \in {"create", "loop", "merge", "printed", "wild", "failed"}
        /\ current' \in Nodes
  <1> SUFFICES Typed
    BY <1>0 DEF DataInv
  <1>n. \A a \in Seq(Nat) : a \in Seq(Int)
    OBVIOUS
  <1>1. CASE CreateNext \/ Start \/ Fail
    BY <1>1, <1>t, <1>r DEF CreateNext, Start, Fail, coro_create, loop_start, progVars, loopVars
  <1>2. ASSUME NEW c \in Coroutines, Find(c) PROVE Typed
    <2>1. PICK k \in FreeFiles(c) : status' = Claimed(k) /\ file_i' = [file_i EXCEPT ![c] = k]
      BY <1>2 DEF Find
    <2>2. k \in 1..n_files /\ k \in 1..(n_files + 1)
      BY <1>t, <2>1 DEF FreeFiles
    <2> QED BY <1>2, <1>t, <1>r, <2>1, <2>2 DEF Find, Claimed
  <1>3. ASSUME NEW c \in Coroutines, NoneFree(c) PROVE Typed
    <2>1. n_files + 1 \in 1..(n_files + 1)
      BY <1>t
    <2> QED BY <1>3, <1>t, <1>r, <2>1 DEF NoneFree, Reap
  <1>4. ASSUME NEW c \in Coroutines, Input(c) \/ Sort(c) PROVE Typed
    <2>1. \E k \in 1..n_files : \E m \in Calls : \E a \in Seq(Nat) :
            /\ result' = [result EXCEPT ![k] = a] /\ merges' = [merges EXCEPT ![c] = m]
            /\ pc' = [pc EXCEPT ![c] = IF m = <<>> THEN "find" ELSE "sort"]
      <3>1. \A k \in 1..n_files : contents[k] \in Seq(Nat)
        BY DEF DataInv
      <3>2. CASE Input(c)
        BY <3>1, <3>2, InputMakes
      <3>3. CASE Sort(c)
        BY <3>3, SortMakes
      <3> QED BY <1>4, <3>2, <3>3
    <2>2. /\ status' = status /\ file_i' = file_i /\ main' = main
          /\ coro_yield_with_metrics
      BY <1>4 DEF Input, Sort, coro_yield_with_metrics
    <2> QED BY <1>t, <1>r, <1>n, <2>1, <2>2
  <1>5. CASE Take \/ TakeWild \/ Output \/ UNCHANGED vars
    BY <1>5, <1>t DEF Take, TakeWild, Output, vars, loopVars, progVars
  <1> QED BY <1>1, <1>2, <1>3, <1>4, <1>5 DEF Next

LEMMA CrewNext ==
  ASSUME Inv, DataInv, CrewInv, [Next]_vars
  PROVE  CrewInv'
  <1>t. /\ pc \in [Coroutines -> {"find", "input", "sort", "over"}] /\ current \in Nodes
        /\ n_coro \in Coroutines /\ allocated \subseteq Coroutines
        /\ loop = "running" => current \in allocated
    BY DEF DataInv, Inv, PhaseInv, RingInv
  <1>r. coro_yield_with_metrics => UNCHANGED <<allocated, loop>>
    BY <1>t, OnTheRing
  <1>1. CASE CreateNext
    <2>1. PICK k \in Nat : allocated = 1..k
      BY <1>1 DEF CrewInv, CreateNext
    <2>2. Created = k
      BY <2>1, FS_Interval DEF Created
    <2>3. /\ allocated' = allocated \cup {k + 1} /\ k < n_coro /\ main = "create"
          /\ UNCHANGED <<n_coro, main, pc>>
      BY <1>1, <2>2 DEF CreateNext, coro_create, progVars
    <2>4. allocated' = 1..(k + 1) /\ k + 1 \in Nat
      BY <2>1, <2>3
    <2>5. allocated' \subseteq 1..n_coro
      BY <1>t, <2>3, <2>4, CoroutinesAre
    <2>6. \A c \in Coroutines : pc'[c] = "find"
      BY <2>3 DEF CrewInv
    <2> QED BY <2>3, <2>4, <2>5, <2>6 DEF CrewInv
  <1>2. CASE Start
    BY <1>2 DEF CrewInv, Start, loop_start
  <1>3. CASE Fail
    BY <1>3 DEF CrewInv, Fail, loopVars
  <1>4. ASSUME NEW c \in Coroutines, Find(c) \/ Input(c) \/ Sort(c) PROVE CrewInv'
    <2>1. /\ main = "loop" /\ loop = "running" /\ c = current
          /\ coro_yield_with_metrics /\ UNCHANGED <<n_coro, main>>
      BY <1>4 DEF Find, Input, Sort, Executes, coro_yield_with_metrics
    <2>2. c \in allocated /\ allocated' = allocated
      BY <1>t, <1>r, <2>1
    <2>3. \E where \in {"find", "input", "sort"} : pc' = [pc EXCEPT ![c] = where]
      BY <1>4 DEF Find, Input, Sort, After
    <2> QED BY <1>t, <2>1, <2>2, <2>3 DEF CrewInv
  <1>5. ASSUME NEW c \in Coroutines, NoneFree(c) PROVE CrewInv'
    <2>1. /\ main = "loop" /\ main' # "create" /\ c = current /\ n_coro' = n_coro
          /\ allocated' = allocated \ {c} /\ pc' = [pc EXCEPT ![c] = "over"]
      BY <1>5 DEF NoneFree, Executes, Reap
    <2> QED BY <1>t, <2>1 DEF CrewInv
  <1>6. CASE Take \/ TakeWild \/ Output
    BY <1>6 DEF CrewInv, Take, TakeWild, Output, loopVars
  <1>7. CASE UNCHANGED vars
    BY <1>7 DEF CrewInv, vars, loopVars, progVars
  <1> QED BY <1>1, <1>2, <1>3, <1>4, <1>5, <1>6, <1>7 DEF Next

LEMMA WorkMakes ==
  ASSUME DataInv, ClaimInv, WorksInv, NEW c \in Coroutines, Input(c) \/ Sort(c)
  PROVE  \E k \in 1..n_files : \E m \in Calls : \E r \in Seq(Nat) :
           /\ Has(c, k) /\ k = file_i[c] /\ Pending(r, m) /\ Rearranged(contents[k], r)
           /\ result' = [result EXCEPT ![k] = r] /\ merges' = [merges EXCEPT ![c] = m]
           /\ pc' = [pc EXCEPT ![c] = IF m = <<>> THEN "find" ELSE "sort"]
           /\ UNCHANGED <<contents, status, file_i, main, cursors, merged>>
  <1>0. /\ pc[c] \in {"input", "sort"}
        /\ UNCHANGED <<contents, status, file_i, main, cursors, merged>>
    BY DEF Input, Sort
  <1>1. CASE Input(c)
    <2>1. PICK k \in 1..n_files : \E m \in Calls :
            /\ k = file_i[c] /\ Pending(contents[k], m)
            /\ result' = [result EXCEPT ![k] = contents[k]] /\ merges' = [merges EXCEPT ![c] = m]
            /\ pc' = [pc EXCEPT ![c] = IF m = <<>> THEN "find" ELSE "sort"]
      BY <1>1, InputMakes
    <2>2. contents[k] \in Seq(Nat) /\ Rearranged(contents[k], contents[k]) /\ Has(c, k)
      BY <1>0, <2>1, SameIsRearranged DEF DataInv, Has
    <2> QED BY <1>0, <2>1, <2>2
  <1>2. CASE Sort(c)
    <2>1. PICK k \in 1..n_files : \E m \in Calls : \E r \in Seq(Nat) :
            /\ k = file_i[c] /\ Pending(r, m) /\ Rearranged(contents[k], r)
            /\ result' = [result EXCEPT ![k] = r] /\ merges' = [merges EXCEPT ![c] = m]
            /\ pc' = [pc EXCEPT ![c] = IF m = <<>> THEN "find" ELSE "sort"]
      BY <1>2, SortMakes
    <2>2. Has(c, k)
      BY <1>0, <2>1 DEF Has
    <2> QED BY <1>0, <2>1, <2>2
  <1> QED BY <1>1, <1>2

(* Steps that neither claim nor return nor work. *)
LEMMA ClaimsStay ==
  ASSUME ClaimInv, UNCHANGED <<contents, status, result, pc, file_i>>, loop' = "over" => loop = "over"
  PROVE  ClaimInv'
  BY DEF ClaimInv, Has, IsDone, n_files

LEMMA ClaimNext ==
  ASSUME Inv, DataInv, ClaimInv, WorksInv, [Next]_vars
  PROVE  ClaimInv'
  <1>t. /\ status \in [1..n_files -> {0, 1}]
        /\ pc \in [Coroutines -> {"find", "input", "sort", "over"}]
        /\ file_i \in [Coroutines -> 1..(n_files + 1)]
        /\ result \in [1..n_files -> Seq(Int)]
        /\ n_files \in Nat /\ current \in Nodes
    BY ConstantsAssumption DEF DataInv
  <1>c. /\ \A d \in Coroutines : \A j \in 1..n_files : j < file_i[d] \/ Has(d, j) => status[j] = 1
        /\ \A d \in Coroutines : pc[d] \in {"input", "sort"} => file_i[d] \in 1..n_files
        /\ \A d, e \in Coroutines : \A j \in 1..n_files : Has(d, j) /\ Has(e, j) => d = e
        /\ \A j \in 1..n_files :
             IF status[j] = 0 THEN result[j] = Unread
             ELSE IsDone(j) \/ \E d \in Coroutines : Has(d, j)
        /\ loop = "over" => \A j \in 1..n_files : status[j] = 1
    BY DEF ClaimInv
  <1>r. coro_yield_with_metrics => UNCHANGED <<allocated, loop>>
    BY <1>t, OnTheRing
  <1>1. CASE CreateNext \/ Fail \/ Take \/ TakeWild \/ Output \/ UNCHANGED vars
    <2>1. UNCHANGED <<contents, status, result, pc, file_i>> /\ loop' = loop
      BY <1>1 DEF CreateNext, Fail, Take, TakeWild, Output, vars, loopVars, progVars, coro_create
    <2> QED BY <2>1, ClaimsStay
  <1>2. CASE Start
    <2>1. /\ UNCHANGED <<contents, status, result, pc, file_i>> /\ Created = n_coro
          /\ loop' = IF next[Sentinel] = Sentinel THEN "over" ELSE "running"
      BY <1>2 DEF Start, loop_start
    <2>2. next[Sentinel] # Sentinel
      <3> SUFFICES ASSUME next[Sentinel] = Sentinel PROVE FALSE
        OBVIOUS
      <3>1. allocated = {}
        BY FirstIsAllocated, Sentinels DEF Inv, RingInv
      <3>2. Created = 0
        BY <3>1, FS_EmptySet DEF Created
      <3> QED BY <2>1, <3>2, CoroutinesAre DEF Inv, PhaseInv
    <2> QED BY <2>1, <2>2, ClaimsStay
  <1>3. ASSUME NEW c \in Coroutines, Find(c) PROVE ClaimInv'
    <2>1. /\ pc[c] = "find" /\ loop = "running" /\ coro_yield_with_metrics
          /\ pc' = [pc EXCEPT ![c] = "input"] /\ UNCHANGED <<contents, result>>
      BY <1>3 DEF Find, Executes
    <2>2. PICK k \in FreeFiles(c) :
            /\ \A j \in FreeFiles(c) : k <= j
            /\ status' = Claimed(k) /\ file_i' = [file_i EXCEPT ![c] = k]
      BY <1>3 DEF Find
    <2>3. k \in 1..n_files /\ status[k] = 0 /\ status' = [status EXCEPT ![k] = 1] /\ k >= file_i[c]
      BY <1>t, <2>2 DEF FreeFiles, Claimed
    <2>4. loop' = "running" /\ n_files' = n_files
      BY <1>r, <2>1 DEF n_files
    <2>5. \A d \in Coroutines : \A j \in 1..n_files :
            Has(d, j)' <=> IF d = c THEN j = k ELSE Has(d, j)
      BY <1>t, <2>1, <2>2, <2>3 DEF Has
    <2>6. \A j \in 1..n_files : j < k => status[j] = 1
      <3> SUFFICES ASSUME NEW j \in 1..n_files, j < k, status[j] # 1 PROVE FALSE
        OBVIOUS
      <3>1. ~(j < file_i[c])
        BY <1>c
      <3>2. j \in FreeFiles(c)
        BY <1>t, <3>1 DEF FreeFiles
      <3> QED BY <2>2, <2>3, <3>2
    <2>7. \A d \in Coroutines : \A j \in 1..n_files : j < file_i'[d] \/ Has(d, j)' => status'[j] = 1
      <3> SUFFICES ASSUME NEW d \in Coroutines, NEW j \in 1..n_files, j < file_i'[d] \/ Has(d, j)'
                   PROVE  status'[j] = 1
        OBVIOUS
      <3>1. CASE d = c
        BY <1>t, <2>2, <2>3, <2>5, <2>6, <3>1
      <3>2. CASE d # c
        BY <1>t, <1>c, <2>2, <2>3, <2>5, <3>2
      <3> QED BY <3>1, <3>2
    <2>8. \A d \in Coroutines : pc'[d] \in {"input", "sort"} => file_i'[d] \in 1..n_files
      BY <1>t, <1>c, <2>1, <2>2, <2>3
    <2>9. \A d, e \in Coroutines : \A j \in 1..n_files : Has(d, j)' /\ Has(e, j)' => d = e
      BY <1>c, <2>3, <2>5
    <2>10. ASSUME NEW j \in 1..n_files
           PROVE  IF status'[j] = 0 THEN result'[j] = Unread
                  ELSE IsDone(j)' \/ \E d \in Coroutines : Has(d, j)'
      <3>1. IsDone(j)' <=> IsDone(j)
        BY <2>1 DEF IsDone
      <3>2. CASE j = k
        BY <1>t, <2>3, <2>5, <3>2
      <3>3. CASE j # k
        <4>1. status'[j] = status[j] /\ result'[j] = result[j]
          BY <1>t, <2>1, <2>3, <3>3
        <4>2. \A d \in Coroutines : Has(d, j) => Has(d, j)'
          BY <2>1, <2>5 DEF Has
        <4> QED BY <1>c, <3>1, <4>1, <4>2
      <3> QED BY <3>2, <3>3
    <2> QED BY <2>4, <2>7, <2>8, <2>9, <2>10 DEF ClaimInv
  <1>4. ASSUME NEW c \in Coroutines, NoneFree(c) PROVE ClaimInv'
    <2>1. /\ pc[c] = "find" /\ FreeFiles(c) = {} /\ UNCHANGED <<contents, status, result>>
          /\ pc' = [pc EXCEPT ![c] = "over"] /\ file_i' = [file_i EXCEPT ![c] = n_files + 1]
      BY <1>4 DEF NoneFree
    <2>2. \A j \in 1..n_files : status[j] = 1
      <3> SUFFICES ASSUME NEW j \in 1..n_files, status[j] # 1 PROVE FALSE
        OBVIOUS
      <3>1. ~(j < file_i[c])
        BY <1>c
      <3>2. j \in FreeFiles(c)
        BY <1>t, <3>1 DEF FreeFiles
      <3> QED BY <2>1, <3>2
    <2>3. \A d \in Coroutines : \A j \in 1..n_files : Has(d, j)' <=> Has(d, j)
      BY <1>t, <2>1 DEF Has
    <2>4. \A d \in Coroutines : pc'[d] \in {"input", "sort"} => file_i'[d] \in 1..n_files
      BY <1>t, <1>c, <2>1
    <2>5. \A j \in 1..n_files : IsDone(j)' <=> IsDone(j)
      BY <2>1 DEF IsDone
    <2>6. n_files' = n_files
      BY <2>1 DEF n_files
    <2> QED BY <1>c, <2>1, <2>2, <2>3, <2>4, <2>5, <2>6 DEF ClaimInv
  <1>5. ASSUME NEW c \in Coroutines, Input(c) \/ Sort(c) PROVE ClaimInv'
    <2>1. PICK k \in 1..n_files : \E m \in Calls : \E r \in Seq(Nat) :
           /\ Has(c, k) /\ k = file_i[c] /\ Pending(r, m) /\ Rearranged(contents[k], r)
           /\ result' = [result EXCEPT ![k] = r] /\ merges' = [merges EXCEPT ![c] = m]
           /\ pc' = [pc EXCEPT ![c] = IF m = <<>> THEN "find" ELSE "sort"]
           /\ UNCHANGED <<contents, status, file_i, main, cursors, merged>>
      BY <1>5, WorkMakes
    <2>2. PICK m \in Calls : \E r \in Seq(Nat) :
           /\ Has(c, k) /\ k = file_i[c] /\ Pending(r, m) /\ Rearranged(contents[k], r)
           /\ result' = [result EXCEPT ![k] = r] /\ merges' = [merges EXCEPT ![c] = m]
           /\ pc' = [pc EXCEPT ![c] = IF m = <<>> THEN "find" ELSE "sort"]
           /\ UNCHANGED <<contents, status, file_i, main, cursors, merged>>
      BY <2>1
    <2>3. PICK r \in Seq(Nat) :
           /\ Has(c, k) /\ k = file_i[c] /\ Pending(r, m) /\ Rearranged(contents[k], r)
           /\ result' = [result EXCEPT ![k] = r] /\ merges' = [merges EXCEPT ![c] = m]
           /\ pc' = [pc EXCEPT ![c] = IF m = <<>> THEN "find" ELSE "sort"]
           /\ UNCHANGED <<contents, status, file_i, main, cursors, merged>>
      BY <2>2
    <2>4. loop' = loop /\ n_files' = n_files
      <3>1. coro_yield_with_metrics
        BY <1>5 DEF Input, Sort, coro_yield_with_metrics
      <3> QED BY <1>r, <2>3, <3>1 DEF n_files
    <2>5. \A d \in Coroutines : \A j \in 1..n_files :
            Has(d, j)' <=> Has(d, j) /\ (d = c => m # <<>>)
      BY <1>t, <2>3 DEF Has
    <2>6. \A d \in Coroutines : pc'[d] \in {"input", "sort"} => file_i'[d] \in 1..n_files
      BY <1>t, <1>c, <2>3 DEF Has
    <2>7. ASSUME NEW j \in 1..n_files
          PROVE  IF status'[j] = 0 THEN result'[j] = Unread
                 ELSE IsDone(j)' \/ \E d \in Coroutines : Has(d, j)'
      <3>1. CASE j = k
        <4>1. status'[j] = 1 /\ result'[j] = r /\ contents' = contents
          BY <1>t, <1>c, <2>3, <3>1
        <4>2. CASE m = <<>>
          <5>1. IsSorted(r)
            BY <2>3, <4>2, NoCallLeft
          <5>2. IsDone(j)'
            BY <2>3, <3>1, <4>1, <5>1 DEF IsDone
          <5> QED BY <4>1, <5>2
        <4>3. CASE m # <<>>
          BY <2>3, <2>5, <3>1, <4>1, <4>3
        <4> QED BY <4>2, <4>3
      <3>2. CASE j # k
        <4>1. status'[j] = status[j] /\ result'[j] = result[j] /\ contents' = contents
          BY <1>t, <2>3, <3>2
        <4>2. \A d \in Coroutines : Has(d, j) => Has(d, j)'
          BY <2>3, <2>5, <3>2 DEF Has
        <4>3. IsDone(j)' <=> IsDone(j)
          BY <4>1 DEF IsDone
        <4> QED BY <1>c, <4>1, <4>2, <4>3
      <3> QED BY <3>1, <3>2
    <2> QED BY <1>c, <2>3, <2>4, <2>5, <2>6, <2>7 DEF ClaimInv
  <1> QED BY <1>1, <1>2, <1>3, <1>4, <1>5 DEF Next

LEMMA WorksNext ==
  ASSUME Inv, DataInv, ClaimInv, WorksInv, [Next]_vars
  PROVE  WorksInv'
  <1>t. /\ status \in [1..n_files -> {0, 1}]
        /\ pc \in [Coroutines -> {"find", "input", "sort", "over"}]
        /\ file_i \in [Coroutines -> 1..(n_files + 1)]
        /\ merges \in [Coroutines -> Calls]
        /\ result \in [1..n_files -> Seq(Int)] /\ n_files \in Nat
    BY ConstantsAssumption DEF DataInv
  <1>w. \A d \in Coroutines : WorkInv(d)
    BY DEF WorksInv
  <1>s. ASSUME NEW d \in Coroutines, contents' = contents, pc'[d] = pc[d], file_i'[d] = file_i[d],
               merges'[d] = merges[d],
               pc[d] \in {"input", "sort"} => result'[file_i[d]] = result[file_i[d]]
        PROVE  WorkInv(d)'
    BY <1>s, <1>w DEF WorkInv
  <1>1. CASE UNCHANGED <<contents, pc, file_i, merges, result>>
    BY <1>1, <1>s DEF WorksInv
  <1>2. ASSUME NEW c \in Coroutines, Find(c) PROVE WorksInv'
    <2>1. PICK k \in FreeFiles(c) : status' = Claimed(k) /\ file_i' = [file_i EXCEPT ![c] = k]
      BY <1>2 DEF Find
    <2>2. /\ pc[c] = "find" /\ pc' = [pc EXCEPT ![c] = "input"]
          /\ UNCHANGED <<contents, result, merges>>
      BY <1>2 DEF Find
    <2>3. k \in 1..n_files /\ status[k] = 0
      BY <1>t, <2>1 DEF FreeFiles
    <2>4. result[k] = Unread
      BY <2>3 DEF ClaimInv
    <2>5. WorkInv(c)'
      <3>1. pc'[c] = "input" /\ file_i'[c] = k /\ merges'[c] = <<>> /\ result'[k] = Unread
        BY <1>t, <1>w, <2>1, <2>2, <2>4 DEF WorkInv
      <3> QED BY <3>1 DEF WorkInv
    <2>6. ASSUME NEW d \in Coroutines, d # c PROVE WorkInv(d)'
      BY <1>s, <1>t, <2>1, <2>2, <2>6
    <2> QED BY <2>5, <2>6 DEF WorksInv
  <1>3. ASSUME NEW c \in Coroutines, NoneFree(c) PROVE WorksInv'
    <2>1. /\ pc[c] = "find" /\ pc' = [pc EXCEPT ![c] = "over"]
          /\ file_i' = [file_i EXCEPT ![c] = n_files + 1]
          /\ UNCHANGED <<contents, result, merges>>
      BY <1>3 DEF NoneFree
    <2>2. WorkInv(c)'
      <3>1. pc'[c] = "over" /\ merges'[c] = <<>>
        BY <1>t, <1>w, <2>1 DEF WorkInv
      <3> QED BY <3>1 DEF WorkInv
    <2>3. ASSUME NEW d \in Coroutines, d # c PROVE WorkInv(d)'
      BY <1>s, <1>t, <2>1, <2>3
    <2> QED BY <2>2, <2>3 DEF WorksInv
  <1>4. ASSUME NEW c \in Coroutines, Input(c) \/ Sort(c) PROVE WorksInv'
    <2>1. PICK k \in 1..n_files : \E m \in Calls : \E r \in Seq(Nat) :
           /\ Has(c, k) /\ k = file_i[c] /\ Pending(r, m) /\ Rearranged(contents[k], r)
           /\ result' = [result EXCEPT ![k] = r] /\ merges' = [merges EXCEPT ![c] = m]
           /\ pc' = [pc EXCEPT ![c] = IF m = <<>> THEN "find" ELSE "sort"]
           /\ UNCHANGED <<contents, status, file_i, main, cursors, merged>>
      BY <1>4, WorkMakes
    <2>2. PICK m \in Calls : \E r \in Seq(Nat) :
           /\ Has(c, k) /\ k = file_i[c] /\ Pending(r, m) /\ Rearranged(contents[k], r)
           /\ result' = [result EXCEPT ![k] = r] /\ merges' = [merges EXCEPT ![c] = m]
           /\ pc' = [pc EXCEPT ![c] = IF m = <<>> THEN "find" ELSE "sort"]
           /\ UNCHANGED <<contents, status, file_i, main, cursors, merged>>
      BY <2>1
    <2>3. PICK r \in Seq(Nat) :
           /\ Has(c, k) /\ k = file_i[c] /\ Pending(r, m) /\ Rearranged(contents[k], r)
           /\ result' = [result EXCEPT ![k] = r] /\ merges' = [merges EXCEPT ![c] = m]
           /\ pc' = [pc EXCEPT ![c] = IF m = <<>> THEN "find" ELSE "sort"]
           /\ UNCHANGED <<contents, status, file_i, main, cursors, merged>>
      BY <2>2
    <2>4. WorkInv(c)'
      <3>1. /\ pc'[c] = IF m = <<>> THEN "find" ELSE "sort"
            /\ file_i'[c] = k /\ merges'[c] = m /\ result'[k] = r /\ contents' = contents
        BY <1>t, <2>3
      <3>2. CASE m = <<>>
        BY <3>1, <3>2 DEF WorkInv
      <3>3. CASE m # <<>>
        BY <2>3, <3>1, <3>3 DEF WorkInv
      <3> QED BY <3>2, <3>3
    <2>5. ASSUME NEW d \in Coroutines, d # c PROVE WorkInv(d)'
      <3>1. ASSUME pc[d] \in {"input", "sort"} PROVE result'[file_i[d]] = result[file_i[d]]
        <4>1. file_i[d] \in 1..n_files /\ Has(d, file_i[d])
          BY <3>1 DEF ClaimInv, Has
        <4>2. file_i[d] # k
          BY <2>3, <2>5, <4>1 DEF ClaimInv
        <4> QED BY <1>t, <2>3, <4>1, <4>2
      <3> QED BY <1>s, <1>t, <2>3, <2>5, <3>1
    <2> QED BY <2>4, <2>5 DEF WorksInv
  <1>5. CASE CreateNext \/ Start \/ Fail \/ Take \/ TakeWild \/ Output \/ UNCHANGED vars
    <2>1. UNCHANGED <<contents, pc, file_i, merges, result>>
      BY <1>5 DEF CreateNext, Start, Fail, Take, TakeWild, Output, vars, progVars
    <2> QED BY <1>1, <2>1
  <1> QED BY <1>2, <1>3, <1>4, <1>5 DEF Next

-------------------------------------------------------------------------------
(* When the loop is over, all files are sorted. *)
AllAreDone ==
  Inv /\ CrewInv /\ ClaimInv /\ loop = "over" => \A k \in 1..n_files : IsDone(k)

LEMMA AllIsDone == AllAreDone
  <1> SUFFICES ASSUME Inv, CrewInv, ClaimInv, loop = "over", NEW k \in 1..n_files PROVE IsDone(k)
    BY DEF AllAreDone
  <1>1. allocated = {}
    BY DEF Inv, PhaseInv
  <1>2. \A c \in Coroutines : ~Has(c, k)
    BY <1>1 DEF CrewInv, Has
  <1> QED BY <1>2 DEF ClaimInv

LEMMA AllIsDoneNext == AllAreDone'
  BY AllIsDone, PTL

LEMMA ResultsAre ==
  ASSUME Inv, CrewInv, ClaimInv, loop = "over"
  PROVE  \A k \in 1..n_files : result[k] \in Seq(Nat) /\ IsSorted(result[k])
  BY AllIsDone DEF AllAreDone, IsDone

LEMMA MergeNext ==
  ASSUME Inv, DataInv, CrewInv, ClaimInv, MergeInv, Inv', CrewInv', ClaimInv', [Next]_vars
  PROVE  MergeInv'
  <1> DEFINE n == n_files
  <1>n. n \in Nat
    BY ConstantsAssumption DEF DataInv
  <1>m. /\ main \notin Merging => cursors = [k \in 1..n |-> 0] /\ merged = <<>>
        /\ main \in Merging => loop = "over" /\ Halfway(n, result, cursors, merged)
        /\ \A k \in 1..Len(merged) : merged[k] < IntMax
        /\ main = "printed" => \A k \in 1..n : ~More(k)
        /\ main = "wild" => /\ \E k \in 1..n : More(k)
                            /\ \A k \in 1..n : More(k) => Value(k) >= IntMax
    BY DEF MergeInv
  <1>1. CASE /\ main \notin Merging /\ main' \notin Merging
             /\ UNCHANGED <<contents, cursors, merged>>
    BY <1>1, <1>m DEF MergeInv, Merging, n_files
  <1>2. CASE CreateNext \/ Start \/ Fail
    BY <1>1, <1>2 DEF CreateNext, Start, Fail, progVars, Merging
  <1>3. ASSUME NEW c \in Coroutines, Find(c) \/ Input(c) \/ Sort(c) PROVE MergeInv'
    BY <1>1, <1>3 DEF Find, Input, Sort, Executes, Merging
  <1>4. ASSUME NEW c \in Coroutines, NoneFree(c) PROVE MergeInv'
    <2>1. /\ main = "loop" /\ main' = (IF loop' = "over" THEN "merge" ELSE main)
          /\ UNCHANGED <<contents, result, cursors, merged>> /\ main \notin Merging
      BY <1>4 DEF NoneFree, Executes, Merging
    <2>2. CASE loop' = "over"
      <3>1. \A k \in 1..n : IsDone(k)'
        <4>1. n_files' = n_files
          BY <2>1 DEF n_files
        <4> QED BY <2>2, <4>1, AllIsDoneNext DEF AllAreDone
      <3>2. \A k \in 1..n : result[k] \in Seq(Nat) /\ IsSorted(result[k])
        BY <2>1, <3>1 DEF IsDone
      <3>3. cursors = [k \in 1..n |-> 0] /\ merged = <<>>
        BY <1>m, <2>1
      <3> HIDE DEF n
      <3>4. Halfway(n, result, cursors, <<>>)
        BY <1>n, <3>2, <3>3, HalfwayBegins
      <3>5. n_files' = n /\ main' = "merge"
        BY <2>1, <2>2 DEF n_files, n
      <3> QED BY <2>1, <2>2, <3>3, <3>4, <3>5 DEF MergeInv, Merging
    <2>3. CASE loop' # "over"
      <3>1. main' \notin Merging
        BY <2>1, <2>3
      <3> QED BY <1>1, <2>1, <3>1
    <2> QED BY <2>2, <2>3
  <1>5. CASE Take
    <2>1. PICK j \in 1..n : /\ Takes(j) /\ merged' = Append(merged, Value(j))
                            /\ cursors' = [cursors EXCEPT ![j] = @ + 1]
      BY <1>5 DEF Take
    <2>2. main = "merge" /\ UNCHANGED <<main, loop, contents, result>>
      BY <1>5 DEF Take, loopVars
    <2>3. loop = "over" /\ Halfway(n, result, cursors, merged)
      BY <1>m, <2>2 DEF Merging
    <2> DEFINE d == result
               at == cursors
               out == merged
    <2>4. /\ \A k \in 1..n : d[k] \in Seq(Nat)
          /\ at[j] < Len(d[j])
          /\ \A k \in 1..n : at[k] < Len(d[k]) => d[j][at[j] + 1] <= d[k][at[k] + 1]
          /\ merged' = Append(out, d[j][at[j] + 1])
      BY <2>1, <2>3, ResultsAre DEF Takes, More, Value
    <2>5. cursors' = [at EXCEPT ![j] = @ + 1] /\ Halfway(n, d, at, out)
      BY <2>1, <2>3
    <2> HIDE DEF n, d, at, out
    <2>6. Halfway(n, d, [at EXCEPT ![j] = @ + 1], Append(out, d[j][at[j] + 1]))
      BY <1>n, <2>4, <2>5, HalfwayGoesOn
    <2>7. Halfway(n, result, cursors', merged')
      BY <2>4, <2>5, <2>6 DEF d
    <2>8. n_files' = n
      BY <2>2 DEF n_files, n
    <2>9. \A k \in 1..Len(merged') : merged'[k] < IntMax
      <3> DEFINE v == Value(j)
      <3>1. out \in Seq(Nat) /\ \A k \in 1..Len(out) : out[k] < IntMax
        BY <1>m, <2>5 DEF Halfway, out
      <3>2. merged' = Append(out, v) /\ v < IntMax
        BY <2>1 DEF Takes, out
      <3> HIDE DEF v
      <3>3. Len(merged') = Len(out) + 1 /\ merged'[Len(out) + 1] = v
            /\ \A k \in 1..Len(out) : merged'[k] = out[k]
        BY <3>1, <3>2
      <3> QED BY <3>1, <3>2, <3>3
    <2> QED BY <2>2, <2>3, <2>7, <2>8, <2>9 DEF MergeInv, Merging
  <1>6. CASE TakeWild \/ Output
    <2>1. main = "merge" /\ UNCHANGED <<loop, contents, result, cursors, merged>>
      BY <1>6 DEF TakeWild, Output, loopVars
    <2>2. loop = "over" /\ Halfway(n, result, cursors, merged)
      BY <1>m, <2>1 DEF Merging
    <2>3. n_files' = n /\ \A k : (More(k)' <=> More(k)) /\ Value(k)' = Value(k)
      BY <2>1 DEF n_files, More, Value
    <2>4. CASE Output
      <3>1. main' = "printed" /\ \A k \in 1..n : ~More(k)
        BY <2>4 DEF Output
      <3> HIDE DEF n
      <3> QED BY <1>m, <2>1, <2>2, <2>3, <3>1 DEF MergeInv, Merging
    <2>5. CASE TakeWild
      <3>1. main' = "wild" /\ (\E k \in 1..n : More(k)) /\ ~ \E k \in 1..n : Takes(k)
        BY <2>5 DEF TakeWild
      <3>2. \A k \in 1..n : More(k) => Value(k) >= IntMax
        <4> SUFFICES ASSUME NEW j \in 1..n, More(j), ~(Value(j) >= IntMax) PROVE FALSE
          OBVIOUS
        <4> DEFINE d == result
                   at == cursors
        <4>1. /\ n \in Nat /\ (\A k \in 1..n : d[k] \in Seq(Nat)) /\ at \in [1..n -> Nat]
              /\ IntMax \in Nat /\ at[j] < Len(d[j])
          BY <1>n, <2>2, ResultsAre, ConstantsAssumption DEF Halfway, More
        <4>2. d[j][at[j] + 1] < IntMax
          <5>1. d[j][at[j] + 1] \in Nat
            BY <4>1, NumberAt
          <5> QED BY <4>1, <5>1, SMTT(30) DEF Value
        <4>3. \A k \in 1..n : (More(k) <=> at[k] < Len(d[k])) /\ Value(k) = d[k][at[k] + 1]
          BY DEF More, Value
        <4> HIDE DEF n, d, at
        <4>4. PICK u \in 1..n :
                /\ at[u] < Len(d[u]) /\ d[u][at[u] + 1] < IntMax
                /\ \A k \in 1..n : at[k] < Len(d[k]) => d[u][at[u] + 1] <= d[k][at[k] + 1]
                /\ \A k \in 1..(u - 1) : at[k] < Len(d[k]) => d[u][at[u] + 1] < d[k][at[k] + 1]
          BY <4>1, <4>2, FirstOfLeast
        <4>5. \A k \in 1..(u - 1) : k \in 1..n
          BY <1>n
        <4>6. Takes(u)
          BY <4>3, <4>4, <4>5 DEF Takes, n
        <4> QED BY <3>1, <4>6
      <3> HIDE DEF n
      <3> QED BY <1>m, <2>1, <2>2, <2>3, <3>1, <3>2 DEF MergeInv, Merging
    <2> QED BY <1>6, <2>4, <2>5
  <1>7. CASE UNCHANGED vars
    <2>1. UNCHANGED <<main, loop, contents, result, cursors, merged>>
      BY <1>7 DEF vars, loopVars, progVars
    <2>2. n_files' = n_files /\ \A k : (More(k)' <=> More(k)) /\ Value(k)' = Value(k)
      BY <2>1 DEF n_files, More, Value
    <2> QED BY <2>1, <2>2 DEF MergeInv
  <1> QED BY <1>2, <1>3, <1>4, <1>5, <1>6, <1>7 DEF Next

LEMMA ProgNext == Inv /\ ProgInv /\ [Next]_vars => ProgInv'
  <1> SUFFICES ASSUME Inv, ProgInv, [Next]_vars PROVE ProgInv'
    OBVIOUS
  <1>1. DataInv /\ CrewInv /\ ClaimInv /\ WorksInv /\ MergeInv
    BY DEF ProgInv
  <1>2. Inv'
    BY InvNext
  <1>3. DataInv'
    BY <1>1, DataNext
  <1>4. CrewInv'
    BY <1>1, CrewNext
  <1>5. ClaimInv'
    BY <1>1, ClaimNext
  <1>6. WorksInv'
    BY <1>1, WorksNext
  <1>7. MergeInv'
    BY <1>1, <1>2, <1>4, <1>5, MergeNext
  <1> QED BY <1>3, <1>4, <1>5, <1>6, <1>7 DEF ProgInv

-------------------------------------------------------------------------------
(* What the runs check follows.  The types: *)
LEMMA TypesAreRight == Inv /\ ProgInv => TypeOK
  <1> SUFFICES ASSUME Inv, ProgInv PROVE TypeOK
    OBVIOUS
  <1>t. DataInv /\ CrewInv /\ ClaimInv /\ WorksInv /\ MergeInv
    BY DEF ProgInv
  <1>n. n_files \in Nat
    BY <1>t, ConstantsAssumption DEF DataInv
  <1>1. /\ next \in [Nodes -> Nodes] /\ prev \in [Nodes -> Nodes]
        /\ allocated \subseteq 1..n_coro /\ n_coro \in Coroutines
        /\ current \in Nodes /\ loop \in {"new", "running", "over"}
    BY <1>t DEF Inv, RingInv, PhaseInv, DataInv, CrewInv
  <1>2. ASSUME NEW k \in 1..n_files PROVE result[k] = Unread \/ Len(result[k]) = Len(contents[k])
    <2>1. CASE status[k] = 0
      BY <1>t, <2>1 DEF ClaimInv
    <2>2. CASE IsDone(k)
      BY <2>2 DEF IsDone, Rearranged
    <2>3. ASSUME NEW c \in Coroutines, Has(c, k)
          PROVE  result[k] = Unread \/ Len(result[k]) = Len(contents[k])
      BY <1>t, <2>3 DEF Has, WorksInv, WorkInv, Rearranged
    <2> QED BY <1>t, <2>1, <2>2, <2>3 DEF ClaimInv
  <1>3. ASSUME NEW c \in Coroutines, NEW k \in 1..Len(merges[c])
        PROVE  merges[c][k].at + merges[c][k].len <= Len(contents[file_i[c]])
    <2>1. pc[c] = "sort"
      <3> SUFFICES ASSUME pc[c] # "sort" PROVE FALSE
        OBVIOUS
      <3>1. merges[c] = <<>>
        BY <1>t DEF WorksInv, WorkInv
      <3> QED BY <1>3, <3>1
    <2>2. /\ Pending(result[file_i[c]], merges[c])
          /\ Len(result[file_i[c]]) = Len(contents[file_i[c]])
      BY <1>t, <2>1 DEF WorksInv, WorkInv, Rearranged
    <2> QED BY <1>3, <2>2 DEF Pending
  <1>4. ASSUME NEW k \in 1..n_files PROVE cursors[k] \in 0..Len(result[k])
    <2>1. Len(result[k]) \in Nat
      BY <1>t DEF DataInv
    <2>2. CASE main \notin Merging
      BY <1>t, <2>1, <2>2 DEF MergeInv
    <2>3. CASE main \in Merging
      BY <1>t, <2>1, <2>3 DEF MergeInv, Halfway
    <2> QED BY <2>2, <2>3
  <1> QED BY <1>t, <1>1, <1>2, <1>3, <1>4 DEF TypeOK, DataInv

LEMMA ProgIsOwned == Inv /\ ProgInv => OneSorterPerFile
  <1> SUFFICES ASSUME Inv, ProgInv PROVE OneSorterPerFile
    OBVIOUS
  <1>t. DataInv /\ CrewInv /\ ClaimInv
    BY DEF ProgInv
  <1>1. ASSUME NEW c \in Coroutines, NEW k \in 1..n_files
        PROVE  c \in SortersOf(k) <=> Has(c, k)
    <2>1. Has(c, k) => c \in allocated
      BY <1>t DEF CrewInv, Has
    <2> QED BY <2>1 DEF SortersOf, Has
  <1>2. \A k \in 1..n_files : SortersOf(k) \subseteq Coroutines
    BY DEF SortersOf, Inv, RingInv
  <1>3. ASSUME NEW k \in 1..n_files, status[k] = 0
        PROVE  loop # "over" /\ SortersOf(k) = {} /\ result[k] = Unread
    <2>1. \A c \in Coroutines : ~Has(c, k)
      BY <1>t, <1>3 DEF ClaimInv
    <2>2. SortersOf(k) = {}
      BY <1>1, <1>2, <2>1
    <2> QED BY <1>t, <1>3, <2>2 DEF ClaimInv
  <1>4. ASSUME NEW k \in 1..n_files, status[k] = 1
        PROVE  \/ Cardinality(SortersOf(k)) = 1
               \/ SortersOf(k) = {} /\ SortedInto(contents[k], result[k])
    <2>1. CASE \E c \in Coroutines : Has(c, k)
      <3>1. PICK c \in Coroutines : Has(c, k)
        BY <2>1
      <3>2. \A d \in SortersOf(k) : d = c
        <4>1. \A d \in SortersOf(k) : d \in Coroutines /\ Has(d, k)
          BY <1>1, <1>2
        <4> QED BY <1>t, <3>1, <4>1 DEF ClaimInv
      <3>3. SortersOf(k) = {c}
        BY <1>1, <3>1, <3>2
      <3> QED BY <3>3, FS_Singleton
    <2>2. CASE ~ \E c \in Coroutines : Has(c, k)
      <3>1. SortersOf(k) = {}
        BY <1>1, <1>2, <2>2
      <3>2. IsDone(k)
        BY <1>t, <1>4, <2>2 DEF ClaimInv
      <3>3. contents[k] \in Seq(Nat)
        BY <1>t DEF DataInv
      <3>4. \A p \in 1..Len(contents[k]) : contents[k][p] \in Nat
        BY <3>3
      <3> QED BY <3>1, <3>2, <3>4 DEF IsDone, Rearranged, SortedInto
    <2> QED BY <2>1, <2>2
  <1>5. \A k \in 1..n_files : status[k] \in {0, 1}
    BY <1>t DEF DataInv
  <1> QED BY <1>3, <1>4, <1>5, TypesAreRight DEF OneSorterPerFile

(* The numbers of all files. *)
LEMMA CountIsPlaces ==
  ASSUME DataInv, NEW x
  PROVE  CountInFiles(x) = Cardinality(Places(n_files, contents, Lengths(n_files, contents), x))
  <1> DEFINE n == n_files
             lens == Lengths(n, contents)
             P == Places(n, contents, lens, x)
             All == {p \in (1..n) \X (1..MaxLength) : p[2] <= Len(contents[p[1]])}
             S == {p \in All : contents[p[1]][p[2]] = x}
  <1>1. /\ n \in Nat /\ MaxLength \in Nat
        /\ \A j \in 1..n : Len(contents[j]) \in Nat /\ Len(contents[j]) <= MaxLength
    BY ConstantsAssumption DEF DataInv
  <1>2. lens \in [1..n -> Nat] /\ \A j \in 1..n : lens[j] = Len(contents[j])
    BY <1>1 DEF Lengths
  <1> HIDE DEF n, lens
  <1>3. \A p : p \in P <=> \E j \in 1..n : \E k \in 1..lens[j] : p = <<j, k>> /\ contents[j][k] = x
    <2>1. n \in Nat /\ lens \in [1..n -> Nat]
      BY <1>1, <1>2
    <2>2. \A p : p \in P <=> IsPlace(p, n, contents, lens, x)
      BY <2>1, PlacesAre
    <2> QED BY <2>2 DEF IsPlace
  <1>4. ASSUME NEW p, p \in P PROVE p \in S
    <2>1. PICK j \in 1..n : \E k \in 1..lens[j] : p = <<j, k>> /\ contents[j][k] = x
      BY <1>3, <1>4
    <2>2. PICK k \in 1..lens[j] : p = <<j, k>> /\ contents[j][k] = x
      BY <2>1
    <2>3. k \in 1..MaxLength /\ k <= Len(contents[j])
      BY <1>1, <1>2
    <2> QED BY <2>2, <2>3
  <1>5. ASSUME NEW p, p \in S PROVE p \in P
    <2>1. PICK j \in 1..n, k \in 1..MaxLength : p = <<j, k>>
      BY <1>5
    <2>2. k <= Len(contents[j]) /\ contents[j][k] = x
      BY <1>5, <2>1
    <2>3. k \in 1..lens[j]
      BY <1>1, <1>2, <2>2
    <2> QED BY <1>3, <2>1, <2>2, <2>3
  <1>6. S = P
    <2> HIDE DEF S, P
    <2> QED BY <1>4, <1>5
  <1>7. CountInFiles(x) = Cardinality(S)
    BY DEF CountInFiles, n
  <1> QED BY <1>6, <1>7 DEF n, lens

LEMMA NumbersOfFiles ==
  ASSUME DataInv, \A j \in 1..n_files : IsDone(j), NEW x \in Nat
  PROVE  Cardinality(Places(n_files, result, Lengths(n_files, result), x)) = CountInFiles(x)
  <1> DEFINE n == n_files
             g == [j \in 1..n |-> j]
             d == result
             e == contents
  <1>1. n \in Nat
    BY ConstantsAssumption DEF DataInv
  <1>2. g \in Bijection(1..n, 1..n) /\ \A j \in 1..n : g[j] = j
    <2>1. g \in [1..n -> 1..n] /\ \A j \in 1..n : g[j] = j
      OBVIOUS
    <2> HIDE DEF g
    <2> QED BY <2>1, Fun_IsBij
  <1>3. \A j \in 1..n : d[j] \in Seq(Nat) /\ e[j] \in Seq(Nat)
    BY DEF DataInv, IsDone
  <1>4. \A j \in 1..n : Rearranged(e[g[j]], d[j])
    BY <1>2 DEF IsDone
  <1> HIDE DEF g, d, e, n
  <1>5. Cardinality(Places(n, d, Lengths(n, d), x))
          = Cardinality(Places(n, e, Lengths(n, e), x))
    <2>1. g \in Bijection(1..n, 1..n)
      BY <1>2
    <2>2. \A j \in 1..n : d[j] \in Seq(Nat) /\ e[j] \in Seq(Nat)
      BY <1>3
    <2>3. \A j \in 1..n : Rearranged(e[g[j]], d[j])
      BY <1>4
    <2> QED BY <1>1, <2>1, <2>2, <2>3, SameInAll, ZenonT(30)
  <1> QED BY <1>5, CountIsPlaces DEF n, d, e

LEMMA ProgIsRight == Inv /\ ProgInv => ResultIsRight
  <1> SUFFICES ASSUME Inv, ProgInv PROVE ResultIsRight
    OBVIOUS
  <1>t. DataInv /\ CrewInv /\ ClaimInv /\ MergeInv
    BY DEF ProgInv
  <1> DEFINE n == n_files
             d == result
             at == cursors
             out == merged
  <1>n. n \in Nat /\ IntMax \in Nat
    BY <1>t, ConstantsAssumption DEF DataInv
  <1>1. SUFFICES ASSUME main \in Merging PROVE ResultIsRight
    BY DEF ResultIsRight, Merging
  <1>2. loop = "over" /\ Halfway(n, d, at, out)
    BY <1>t, <1>1 DEF MergeInv
  <1>3. \A j \in 1..n : IsDone(j)
    BY <1>t, <1>2, AllIsDone DEF AllAreDone
  <1>4. (\A j \in 1..n : d[j] \in Seq(Nat)) /\ at \in [1..n -> Nat] /\ IsSorted(out)
    BY <1>2, <1>3 DEF IsDone, Halfway
  <1>5. ASSUME NEW j \in 1..n, More(j) PROVE Value(j) \in Nat
    <2>1. at[j] \in Nat /\ at[j] < Len(d[j])
      BY <1>4, <1>5 DEF More
    <2>2. d[j][at[j] + 1] \in Nat
      BY <1>4, <2>1, NumberAt
    <2> QED BY <2>2 DEF Value
  <1>6. ASSUME NEW x \in Nat, \A j \in 1..n : More(j) => Value(j) > x
        PROVE  Count(x, merged) = CountInFiles(x)
    <2>1. AllAbove(n, d, at, x)
      BY <1>6 DEF More, Value, AllAbove
    <2>2. Cardinality(Places(n, d, Lengths(n, d), x)) = CountInFiles(x)
      BY <1>t, <1>3, NumbersOfFiles
    <2> HIDE DEF n, d, at, out
    <2>3. Count(x, out) = Cardinality(Places(n, d, Lengths(n, d), x))
      <3>1. \A j \in 1..n : d[j] \in Seq(Nat)
        BY <1>4
      <3>2. Halfway(n, d, at, out) /\ n \in Nat
        BY <1>2, <1>n
      <3> QED BY <2>1, <3>1, <3>2, HalfwayBelow
    <2> QED BY <2>2, <2>3 DEF out
  <1>7. main = "printed" => \A x \in 0..IntMax : Count(x, merged) = CountInFiles(x)
    <2> SUFFICES ASSUME main = "printed", NEW x \in 0..IntMax PROVE Count(x, merged) = CountInFiles(x)
      OBVIOUS
    <2>1. x \in Nat /\ \A j \in 1..n : ~More(j)
      BY <1>t, <1>n DEF MergeInv
    <2> QED BY <1>6, <2>1
  <1>9. ASSUME main = "printed" PROVE CountInFiles(IntMax) = 0
    <2>1. \A k \in 1..Len(merged) : merged[k] < IntMax
      BY <1>t DEF MergeInv
    <2>2. merged \in Seq(Nat)
      BY <1>2 DEF Halfway
    <2>3. {k \in 1..Len(merged) : merged[k] = IntMax} = {}
      BY <1>n, <2>1, <2>2
    <2>4. Count(IntMax, merged) = 0
      BY <2>3, FS_EmptySet DEF Count
    <2> QED BY <1>n, <1>7, <1>9, <2>4
  <1>8. ASSUME main = "wild"
        PROVE  CountInFiles(IntMax) > 0 /\ \A x \in 0..(IntMax - 1) : Count(x, merged) = CountInFiles(x)
    <2>1. (\E j \in 1..n : More(j)) /\ \A j \in 1..n : More(j) => Value(j) >= IntMax
      BY <1>t, <1>8 DEF MergeInv
    <2>2. ASSUME NEW x \in 0..(IntMax - 1) PROVE Count(x, merged) = CountInFiles(x)
      <3>1. x \in Nat /\ \A j \in 1..n : More(j) => Value(j) > x
        BY <1>n, <1>5, <2>1
      <3> QED BY <1>6, <3>1
    <2>3. CountInFiles(IntMax) > 0
      <3>1. PICK j \in 1..n : More(j)
        BY <2>1
      <3> DEFINE a == result[j]
                 b == contents[j]
                 v == Value(j)
                 k == cursors[j] + 1
      <3>2. a \in Seq(Nat) /\ b \in Seq(Nat) /\ Rearranged(b, a)
            /\ \A p \in 1..Len(b) : b[p] <= IntMax
        BY <1>t, <1>3 DEF DataInv, IsDone
      <3>3. v \in Nat /\ v >= IntMax /\ v = a[k] /\ k \in 1..Len(a)
        <4>1. cursors[j] \in Nat /\ cursors[j] < Len(a) /\ v = a[k]
          BY <1>4, <3>1 DEF Value, More
        <4>2. v \in Nat /\ v >= IntMax
          BY <1>5, <2>1, <3>1
        <4>3. Len(a) \in Nat
          BY <3>2
        <4>4. k \in 1..Len(a)
          <5> HIDE DEF a
          <5> QED BY <4>1, <4>3
        <4> QED BY <4>1, <4>2, <4>4
      <3> HIDE DEF a, b, v, k, n, d, at, out
      <3>4. Count(v, a) > 0 /\ Count(v, b) = Count(v, a)
        BY <3>2, <3>3, NumbersOccur DEF Rearranged
      <3>5. PICK p \in 1..Len(b) : b[p] = v
        BY <3>2, <3>4, NumbersOccur
      <3>6. v = IntMax
        BY <1>n, <3>2, <3>3, <3>5
      <3> DEFINE lens == Lengths(n, contents)
                 P == Places(n, contents, lens, IntMax)
      <3>7. lens \in [1..n -> Nat] /\ contents[j] = b /\ lens[j] = Len(b)
        <4>1. \A q \in 1..n : Len(contents[q]) \in Nat
          BY <1>t DEF DataInv, n
        <4> QED BY <4>1 DEF Lengths, b
      <3> HIDE DEF lens
      <3>8. <<j, p>> \in P /\ IsFiniteSet(P)
        <4>1. IsPlace(<<j, p>>, n, contents, lens, IntMax)
          BY <3>5, <3>6, <3>7 DEF IsPlace
        <4> QED BY <1>n, <3>7, <4>1, PlacesAre
      <3>9. CountInFiles(IntMax) = Cardinality(P)
        BY <1>t, CountIsPlaces DEF n, lens
      <3> HIDE DEF P
      <3>10. Cardinality(P) \in Nat /\ Cardinality(P) # 0
        BY <3>8, FS_CardinalityType, FS_EmptySet
      <3> QED BY <3>9, <3>10
    <2> QED BY <2>2, <2>3
  <1> QED BY <1>4, <1>7, <1>8, <1>9 DEF ResultIsRight

(* For any number of coroutines and files, of any contents, and wherever a      *)
(* coroutine yields: a claimed file is in the hands of one coroutine until its *)
(* numbers are sorted, every call of merge_sort stays inside of its array, and *)
(* the loop does not end before all files are sorted.                          *)
THEOREM FilesHaveOneSorter == Spec => []OneSorterPerFile
  <1>1. Init => Inv /\ ProgInv
    BY InvInit, ProgInit
  <1>2. Inv /\ ProgInv /\ [Next]_vars => Inv' /\ ProgInv'
    BY InvNext, ProgNext
  <1>3. Inv /\ ProgInv => OneSorterPerFile
    BY ProgIsOwned
  <1> QED BY <1>1, <1>2, <1>3, PTL DEF Spec

(* For any of them, too: what main prints is sorted and holds the numbers of    *)
(* all files as often as they do; it is printed exactly when none of them is    *)
(* INT_MAX, else the merge goes astray when all smaller ones are in.            *)
THEOREM PrintedIsRight == Spec => []ResultIsRight
  <1>1. Init => Inv /\ ProgInv
    BY InvInit, ProgInit
  <1>2. Inv /\ ProgInv /\ [Next]_vars => Inv' /\ ProgInv'
    BY InvNext, ProgNext
  <1>3. Inv /\ ProgInv => ResultIsRight
    BY ProgIsRight
  <1> QED BY <1>1, <1>2, <1>3, PTL DEF Spec
===============================================================================
