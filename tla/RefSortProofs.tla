------------------------------ MODULE RefSortProofs ------------------------------
(***************************************************************************)
(* The list of coroutines and its scheduler are sound for any number of     *)
(* coroutines, names and files, and their turns are the rounds of Rounds.   *)
(* The files keep their numbers and become sorted, and what is merged of    *)
(* them is the sorted whole.                                                *)
(***************************************************************************)
EXTENDS RefSort, MergeLemmas, TLAPS

(* The list: n coroutines s[1], ..., s[n] in the order of their links, which  *)
(* are those that are not deleted.  It is said to exist and not computed.     *)
IsList(s, n) ==
  /\ \A k \in 1..n : s[k] \in stacks
  /\ \A c \in stacks : \E k \in 1..n : s[k] = c
  /\ \A k, l \in 1..n : s[k] = s[l] => k = l
  /\ coro_list = IF n = 0 THEN NULL ELSE s[1]
  /\ \A k \in 1..n : next[s[k]] = IF k = n THEN NULL ELSE s[k + 1]
  /\ \A k \in 1..n : prev[s[k]] = IF k = 1 THEN NULL ELSE s[k - 1]

ListInv ==
  /\ stacks \subseteq Coroutines
  /\ next \in [Coroutines -> Coroutines \cup {NULL}]
  /\ prev \in [Coroutines -> Coroutines \cup {NULL}]
  /\ \E n \in Nat : \E s \in [1..n -> Coroutines] : IsList(s, n)

(* Nobody in the list has ended, and it is nobody's turn but one's of them or *)
(* the scheduler's; only the scheduler may find one who has ended.            *)
NoneFinished == \A c \in stacks : ~is_finished[c]

SchedInv ==
  /\ coro_count \in Coroutines
  /\ ctx \in [Coroutines -> {"none", "coro_body", "coro_yield"}]
  /\ is_finished \in [Coroutines -> BOOLEAN]
  /\ \A c \in stacks : ctx[c] # "none"
  /\ \A c, d \in stacks : is_finished[c] /\ is_finished[d] => c = d
  /\ \/ coro_this_ptr = coro_sched
     \/ coro_this_ptr \in stacks /\ is_sched_waiting /\ NoneFinished
  /\ main = "create" => coro_this_ptr = coro_sched /\ NoneFinished

Inv == ListInv /\ SchedInv

LEMMA Pointers ==
  /\ NULL \notin Coroutines /\ coro_sched \notin Coroutines /\ coro_sched # NULL
  /\ IsFiniteSet(Coroutines) /\ Coroutines \subseteq Nat
  <1> DEFINE n == Cardinality(Coroutines)
  <1>1. n \in Nat /\ Coroutines = 1..n
    BY CoroutinesAssumption
  <1> HIDE DEF n
  <1>2. IsFiniteSet(Coroutines)
    BY <1>1, FS_Interval
  <1> QED BY <1>1, <1>2 DEF NULL, coro_sched

-------------------------------------------------------------------------------
(* What the walk over the list finds.                                         *)
(* The list has as many places as there are coroutines.                       *)
LEMMA ListCount ==
  ASSUME NEW n \in Nat, NEW s \in [1..n -> Coroutines], IsList(s, n)
  PROVE  Cardinality(stacks) = n
  <1>1. s \in [1..n -> stacks]
    BY DEF IsList
  <1>2. s \in Injection(1..n, stacks)
    BY <1>1 DEF IsList, Injection, IsInjective
  <1>3. s \in Surjection(1..n, stacks)
    BY <1>1 DEF IsList, Surjection
  <1>4. ExistsBijection(1..n, stacks)
    BY <1>2, <1>3 DEF ExistsBijection, Bijection
  <1> QED BY <1>4, FS_CountingElements

ListedIs ==
  \A n \in Nat : \A s \in [1..n -> Coroutines] :
    IsList(s, n) => DOMAIN Listed = 1..n /\ \A k \in 1..n : Listed[k] = s[k]

(* Listed is the order of the links: else the first place where they differ   *)
(* is preceded by one where they do not.                                      *)
LEMMA ListedIsList == ListedIs
  <1> SUFFICES ASSUME NEW n \in Nat, NEW s \in [1..n -> Coroutines], IsList(s, n)
               PROVE  DOMAIN Listed = 1..n /\ \A k \in 1..n : Listed[k] = s[k]
    BY DEF ListedIs
  <1> DEFINE Unfold(at) ==
        at = [k \in 1..Cardinality(stacks) |->
                IF k = 1 THEN coro_list ELSE IF at[k - 1] = NULL THEN NULL ELSE next[at[k - 1]]]
  <1>1. Cardinality(stacks) = n
    BY ListCount
  <1>2. \A k \in 1..n : s[k] = IF k = 1 THEN coro_list
                               ELSE IF s[k - 1] = NULL THEN NULL ELSE next[s[k - 1]]
    <2> SUFFICES ASSUME NEW k \in 1..n
                 PROVE  s[k] = IF k = 1 THEN coro_list
                               ELSE IF s[k - 1] = NULL THEN NULL ELSE next[s[k - 1]]
      OBVIOUS
    <2>1. CASE k = 1
      BY <2>1 DEF IsList
    <2>2. CASE k # 1
      <3>1. k - 1 \in 1..n /\ k - 1 # n /\ (k - 1) + 1 = k
        BY <2>2
      <3>2. next[s[k - 1]] = s[k] /\ s[k - 1] # NULL
        BY <3>1, Pointers DEF IsList
      <3> QED BY <2>2, <3>2
    <2> QED BY <2>1, <2>2
  <1>3. s = [k \in 1..n |-> s[k]]
    OBVIOUS
  <1>4. Unfold(s)
    BY <1>1, <1>2, <1>3
  <1>5. Listed = CHOOSE at : Unfold(at)
    BY DEF Listed
  <1>6. Unfold(Listed)
    BY <1>4, <1>5, Zenon
  <1>7. \A k \in 1..n : Listed[k] = IF k = 1 THEN coro_list
                                    ELSE IF Listed[k - 1] = NULL THEN NULL ELSE next[Listed[k - 1]]
    BY <1>1, <1>6
  <1>8. ASSUME NEW k \in 1..n, Listed[k] # s[k] PROVE FALSE
    <2> DEFINE S == {j \in 1..n : Listed[j] # s[j]}
    <2>1. S \in SUBSET Nat /\ S # {}
      BY <1>8
    <2>2. PICK j \in S : \A l \in S : j <= l
      BY <2>1, Least
    <2>3. j \in 1..n /\ Listed[j] # s[j]
      BY <2>2
    <2>4. j # 1
      BY <1>2, <1>7, <2>3
    <2>5. j - 1 \in 1..n /\ j - 1 \notin S
      BY <2>2, <2>3, <2>4
    <2>6. Listed[j - 1] = s[j - 1]
      BY <2>5
    <2> QED BY <1>2, <1>7, <2>3, <2>4, <2>6
  <1>9. DOMAIN Listed = 1..n
    BY <1>1, <1>6
  <1> QED BY <1>8, <1>9

LEMMA ListedIsListNext == ListedIs'
  BY ListedIsList, PTL

(* What the users of the library rely on follows. *)
LEMMA InvIsEnough == Inv => NoStrayJump
  <1> SUFFICES ASSUME Inv PROVE NoStrayJump
    OBVIOUS
  <1>1. PICK n \in Nat : \E s \in [1..n -> Coroutines] : IsList(s, n)
    BY DEF Inv, ListInv
  <1>2. PICK s \in [1..n -> Coroutines] : IsList(s, n)
    BY <1>1
  <1>3. DOMAIN Listed = 1..n /\ \A k \in 1..n : Listed[k] = s[k]
    BY <1>2, ListedIsList DEF ListedIs
  <1>4. {Listed[k] : k \in DOMAIN Listed} = stacks
    <2>1. \A k \in DOMAIN Listed : Listed[k] \in stacks
      BY <1>2, <1>3 DEF IsList
    <2>2. \A c \in stacks : \E k \in DOMAIN Listed : Listed[k] = c
      BY <1>2, <1>3 DEF IsList
    <2> QED BY <2>1, <2>2
  <1>5. stacks = {} <=> coro_list = NULL
    <2>1. CASE n = 0
      BY <1>2, <2>1 DEF IsList
    <2>2. CASE n # 0
      <3>1. 1 \in 1..n
        BY <2>2
      <3> QED BY <1>2, <2>2, <3>1, Pointers DEF IsList
    <2> QED BY <2>1, <2>2
  <1>6. ASSUME NEW c \in stacks
        PROVE  /\ IF prev[c] = NULL THEN coro_list = c ELSE next[prev[c]] = c
               /\ next[c] = NULL \/ prev[next[c]] = c
               /\ ctx[c] # "none"
    <2>1. PICK k \in 1..n : s[k] = c
      BY <1>2 DEF IsList
    <2>2. next[c] = (IF k = n THEN NULL ELSE s[k + 1]) /\ prev[c] = IF k = 1 THEN NULL ELSE s[k - 1]
      BY <1>2, <2>1 DEF IsList
    <2>3. IF prev[c] = NULL THEN coro_list = c ELSE next[prev[c]] = c
      <3>1. CASE k = 1
        BY <1>2, <2>1, <2>2, <3>1 DEF IsList
      <3>2. CASE k # 1
        <4>1. k - 1 \in 1..n /\ k - 1 # n /\ (k - 1) + 1 = k /\ s[k - 1] # NULL
          BY <3>2, Pointers
        <4>2. next[s[k - 1]] = s[k]
          BY <1>2, <4>1 DEF IsList
        <4> QED BY <2>1, <2>2, <3>2, <4>1, <4>2
      <3> QED BY <3>1, <3>2
    <2>4. next[c] = NULL \/ prev[next[c]] = c
      <3>1. CASE k # n
        <4>1. k + 1 \in 1..n /\ k + 1 # 1 /\ (k + 1) - 1 = k
          BY <3>1
        <4>2. prev[s[k + 1]] = s[k]
          BY <1>2, <4>1 DEF IsList
        <4> QED BY <2>1, <2>2, <3>1, <4>2
      <3> QED BY <2>2, <3>1
    <2> QED BY <2>3, <2>4 DEF Inv, SchedInv
  <1>7. coro_this_ptr # coro_sched =>
          coro_this_ptr \in stacks /\ ~is_finished[coro_this_ptr] /\ is_sched_waiting
    BY DEF Inv, SchedInv, NoneFinished
  <1>8. Cardinality({c \in stacks : is_finished[c]}) <= IF coro_this_ptr = coro_sched THEN 1 ELSE 0
    <2> DEFINE E == {c \in stacks : is_finished[c]}
    <2>1. CASE E = {}
      <3>1. Cardinality(E) = 0
        BY <2>1, FS_EmptySet
      <3> QED BY <3>1
    <2>2. CASE E # {}
      <3>1. PICK c \in E : TRUE
        BY <2>2
      <3>2. E = {c} /\ coro_this_ptr = coro_sched
        BY <3>1 DEF Inv, SchedInv, NoneFinished
      <3>3. Cardinality(E) = 1
        BY <3>2, FS_Singleton
      <3> QED BY <3>2, <3>3
    <2> QED BY <2>1, <2>2
  <1> QED BY <1>4, <1>5, <1>6, <1>7, <1>8 DEF NoStrayJump

-------------------------------------------------------------------------------
(* The two changes of the list. *)

(* A new coroutine becomes the first. *)
Longer(s, n, c) == [k \in 1..(n + 1) |-> IF k = 1 THEN c ELSE s[k - 1]]

LEMMA NewAtHead ==
  ASSUME ListInv, NEW c \in Coroutines, coro_new(c),
         NEW n \in Nat, NEW s \in [1..n -> Coroutines], IsList(s, n)
  PROVE  /\ Longer(s, n, c) \in [1..(n + 1) -> Coroutines]
         /\ IsList(Longer(s, n, c), n + 1)'
         /\ ListInv'
  <1> DEFINE r == Longer(s, n, c)
  <1>1. /\ next' = [next EXCEPT ![c] = coro_list]
        /\ prev' = [x \in Coroutines |-> IF x = c THEN NULL ELSE IF x = coro_list THEN c ELSE prev[x]]
        /\ stacks' = stacks \cup {c} /\ c \notin stacks /\ coro_list' = c
    BY DEF coro_new
  <1>2. r \in [1..(n + 1) -> Coroutines]
    BY DEF Longer
  <1>3. r[1] = c /\ \A k \in 1..n : r[k + 1] = s[k]
    BY DEF Longer
  <1>4. \A k \in 1..(n + 1) : k # 1 => k - 1 \in 1..n /\ r[k] = s[k - 1]
    BY DEF Longer
  <1>5. coro_list \in Coroutines \cup {NULL}
    BY DEF IsList
  <1> HIDE DEF r
  <1>6. \A k \in 1..n : s[k] \in stacks /\ s[k] # c
    BY <1>1 DEF IsList
  <1>7. \A k \in 1..(n + 1) : r[k] \in stacks'
    BY <1>1, <1>3, <1>4, <1>6
  <1>8. \A d \in stacks' : \E k \in 1..(n + 1) : r[k] = d
    <2>1. 1 \in 1..(n + 1)
      OBVIOUS
    <2>2. ASSUME NEW d \in stacks PROVE \E k \in 1..(n + 1) : r[k] = d
      <3>1. PICK k \in 1..n : s[k] = d
        BY DEF IsList
      <3>2. k + 1 \in 1..(n + 1) /\ r[k + 1] = d
        BY <1>3, <3>1
      <3> QED BY <3>2
    <2> QED BY <1>1, <1>3, <2>1, <2>2
  <1>9. \A k, l \in 1..(n + 1) : r[k] = r[l] => k = l
    <2>1. \A k, l \in 1..n : s[k] = s[l] => k = l
      BY DEF IsList
    <2> QED BY <1>3, <1>4, <1>6, <2>1
  <1>10. ASSUME NEW k \in 1..(n + 1)
         PROVE  next'[r[k]] = IF k = n + 1 THEN NULL ELSE r[k + 1]
    <2>1. CASE k = 1
      <3>1. next'[r[k]] = coro_list
        BY <1>1, <1>3, <2>1 DEF ListInv
      <3>2. n # 0 => r[2] = s[1]
        BY <1>3
      <3> QED BY <2>1, <3>1, <3>2 DEF IsList
    <2>2. CASE k # 1
      <3>1. k - 1 \in 1..n /\ r[k] = s[k - 1] /\ (k - 1 # n => k \in 1..n)
        BY <1>4, <2>2
      <3>2. next'[s[k - 1]] = next[s[k - 1]]
        BY <1>1, <1>6, <3>1 DEF ListInv
      <3>3. next[s[k - 1]] = IF k - 1 = n THEN NULL ELSE s[(k - 1) + 1]
        BY <3>1 DEF IsList
      <3>4. (k - 1) + 1 = k /\ (k - 1 = n <=> k = n + 1)
        OBVIOUS
      <3> QED BY <1>3, <3>1, <3>2, <3>3, <3>4
    <2> QED BY <2>1, <2>2
  <1>11. ASSUME NEW k \in 1..(n + 1)
         PROVE  prev'[r[k]] = IF k = 1 THEN NULL ELSE r[k - 1]
    <2>1. CASE k = 1
      BY <1>1, <1>3, <2>1
    <2>2. CASE k # 1
      <3>1. k - 1 \in 1..n /\ r[k] = s[k - 1] /\ s[k - 1] # c
        BY <1>4, <1>6, <2>2
      <3>2. prev'[r[k]] = IF s[k - 1] = coro_list THEN c ELSE prev[s[k - 1]]
        BY <1>1, <3>1
      <3>3. coro_list = s[1] /\ 1 \in 1..n
        BY <3>1 DEF IsList
      <3>4. CASE k = 2
        BY <1>3, <3>2, <3>3, <3>4
      <3>5. CASE k # 2
        <4>1. k - 1 # 1 /\ (k - 1) - 1 \in 1..n /\ ((k - 1) - 1) + 1 = k - 1
          BY <2>2, <3>5
        <4>2. s[k - 1] # s[1]
          BY <3>1, <3>3, <4>1 DEF IsList
        <4>3. prev[s[k - 1]] = s[(k - 1) - 1]
          BY <3>1, <4>1 DEF IsList
        <4>4. r[k - 1] = s[(k - 1) - 1]
          BY <1>3, <4>1
        <4> QED BY <2>2, <3>2, <3>3, <4>2, <4>3, <4>4
      <3> QED BY <3>4, <3>5
    <2> QED BY <2>1, <2>2
  <1>12. coro_list' = IF n + 1 = 0 THEN NULL ELSE r[1]
    BY <1>1, <1>3
  <1>13. IsList(r, n + 1)'
    BY <1>7, <1>8, <1>9, <1>10, <1>11, <1>12 DEF IsList
  <1>14. /\ next' \in [Coroutines -> Coroutines \cup {NULL}]
         /\ prev' \in [Coroutines -> Coroutines \cup {NULL}] /\ stacks' \subseteq Coroutines
    BY <1>1, <1>5 DEF ListInv
  <1>15. n + 1 \in Nat
    OBVIOUS
  <1>16. ListInv'
    BY <1>2, <1>13, <1>14, <1>15 DEF ListInv
  <1> QED BY <1>2, <1>13, <1>16 DEF r

(* One that is deleted is cut out; those behind it move up. *)
Shorter(s, n, k) == [l \in 1..(n - 1) |-> IF l < k THEN s[l] ELSE s[l + 1]]

LEMMA DeleteAtPlace ==
  ASSUME ListInv, NEW n \in Nat, NEW s \in [1..n -> Coroutines], IsList(s, n), NEW k \in 1..n,
         coro_list_delete(s[k]), stacks' = stacks \ {s[k]}
  PROVE  /\ n - 1 \in Nat /\ Shorter(s, n, k) \in [1..(n - 1) -> Coroutines]
         /\ IsList(Shorter(s, n, k), n - 1)'
         /\ ListInv'
  <1> DEFINE r == Shorter(s, n, k)
  <1>1. /\ next' = [x \in Coroutines |-> IF x = prev[s[k]] THEN next[s[k]] ELSE next[x]]
        /\ prev' = [x \in Coroutines |-> IF x = next[s[k]] THEN prev[s[k]] ELSE prev[x]]
        /\ coro_list' = IF prev[s[k]] = NULL THEN next[s[k]] ELSE coro_list
    BY DEF coro_list_delete, ListWithout
  <1>2. n - 1 \in Nat /\ r \in [1..(n - 1) -> Coroutines]
    BY DEF Shorter
  <1>3. \A l \in 1..(n - 1) :
          /\ l < k => r[l] = s[l] /\ l \in 1..n
          /\ ~(l < k) => r[l] = s[l + 1] /\ l + 1 \in 1..n
    BY DEF Shorter
  <1> HIDE DEF r
  <1>4. /\ next[s[k]] = IF k = n THEN NULL ELSE s[k + 1]
        /\ prev[s[k]] = IF k = 1 THEN NULL ELSE s[k - 1]
    BY DEF IsList
  <1>5. \A a, b \in 1..n : s[a] = s[b] => a = b
    BY DEF IsList
  <1>6. \A l \in 1..(n - 1) : r[l] \in stacks'
    <2> SUFFICES ASSUME NEW l \in 1..(n - 1) PROVE r[l] \in stacks'
      OBVIOUS
    <2>1. CASE l < k
      BY SMTT(30), <1>3, <1>5, <2>1 DEF IsList
    <2>2. CASE ~(l < k)
      <3>1. l + 1 \in 1..n /\ l + 1 # k /\ r[l] = s[l + 1]
        BY <1>3, <2>2
      <3> QED BY <1>5, <3>1 DEF IsList
    <2> QED BY <2>1, <2>2
  <1>7. ASSUME NEW d \in stacks' PROVE \E l \in 1..(n - 1) : r[l] = d
    <2>1. PICK j \in 1..n : s[j] = d
      BY <1>7 DEF IsList
    <2>2. j # k
      BY <1>7, <2>1
    <2>3. CASE j < k
      <3>1. j \in 1..(n - 1) /\ r[j] = d
        BY <1>3, <2>1, <2>3
      <3> QED BY <3>1
    <2>4. CASE j > k
      <3>1. j - 1 \in 1..(n - 1) /\ ~(j - 1 < k) /\ (j - 1) + 1 = j
        BY <2>4
      <3>2. r[j - 1] = d
        BY <1>3, <2>1, <3>1
      <3> QED BY <3>1, <3>2
    <2> QED BY <2>2, <2>3, <2>4
  <1>8. ASSUME NEW a \in 1..(n - 1), NEW b \in 1..(n - 1), r[a] = r[b] PROVE a = b
    <2>1. CASE a < k /\ b < k
      BY <1>3, <1>5, <1>8, <2>1
    <2>2. CASE a < k /\ ~(b < k)
      <3>1. a \in 1..n /\ b + 1 \in 1..n /\ a # b + 1 /\ s[a] = s[b + 1]
        BY <1>3, <1>8, <2>2
      <3> QED BY <1>5, <3>1
    <2>3. CASE ~(a < k) /\ b < k
      <3>1. a + 1 \in 1..n /\ b \in 1..n /\ a + 1 # b /\ s[a + 1] = s[b]
        BY <1>3, <1>8, <2>3
      <3> QED BY <1>5, <3>1
    <2>4. CASE ~(a < k) /\ ~(b < k)
      <3>1. a + 1 \in 1..n /\ b + 1 \in 1..n /\ s[a + 1] = s[b + 1]
        BY <1>3, <1>8, <2>4
      <3>2. a + 1 = b + 1
        BY <1>5, <3>1
      <3> QED BY <3>2
    <2> QED BY <2>1, <2>2, <2>3, <2>4
  <1>9. \A l \in 1..n : s[l] \in Coroutines /\ s[l] # NULL
    BY Pointers
  <1>10. ASSUME NEW l \in 1..(n - 1)
         PROVE  next'[r[l]] = IF l = n - 1 THEN NULL ELSE r[l + 1]
    <2>1. CASE l = k - 1
      <3>1. l \in 1..n /\ l < k /\ k # 1 /\ r[l] = s[l] /\ prev[s[k]] = s[l]
        BY <1>3, <1>4, <2>1
      <3>2. next'[r[l]] = IF k = n THEN NULL ELSE s[k + 1]
        BY <1>1, <1>4, <1>9, <3>1
      <3>3. l # n - 1 => l + 1 \in 1..(n - 1) /\ ~(l + 1 < k) /\ (l + 1) + 1 = k + 1
        BY <2>1
      <3>4. l # n - 1 => r[l + 1] = s[k + 1]
        BY <1>3, <3>3
      <3>5. l = n - 1 <=> k = n
        BY <2>1
      <3> QED BY <3>2, <3>4, <3>5
    <2>2. CASE l < k - 1
      <3>1. l \in 1..n /\ l + 1 \in 1..(n - 1) /\ l # n /\ l # n - 1 /\ r[l] = s[l] /\ r[l + 1] = s[l + 1]
        BY <1>3, <2>2
      <3>2. s[l] # prev[s[k]]
        <4>1. k # 1 => k - 1 \in 1..n /\ k - 1 # l
          BY <2>2
        <4> QED BY <1>4, <1>5, <1>9, <3>1, <4>1
      <3>3. next[s[l]] = s[l + 1]
        BY <3>1 DEF IsList
      <3> QED BY <1>1, <1>9, <3>1, <3>2, <3>3
    <2>3. CASE l > k - 1
      <3>1. l + 1 \in 1..n /\ r[l] = s[l + 1]
        BY <1>3, <2>3
      <3>2. s[l + 1] # prev[s[k]]
        <4>1. k # 1 => k - 1 \in 1..n /\ k - 1 # l + 1
          BY <2>3
        <4> QED BY <1>4, <1>5, <1>9, <3>1, <4>1
      <3>3. next[s[l + 1]] = IF l + 1 = n THEN NULL ELSE s[(l + 1) + 1]
        BY <3>1 DEF IsList
      <3>4. l # n - 1 => l + 1 \in 1..(n - 1) /\ ~(l + 1 < k)
        BY <2>3
      <3>5. l # n - 1 => r[l + 1] = s[(l + 1) + 1]
        BY <1>3, <3>4
      <3>6. l + 1 = n <=> l = n - 1
        OBVIOUS
      <3> QED BY <1>1, <1>9, <3>1, <3>2, <3>3, <3>5, <3>6
    <2> QED BY <2>1, <2>2, <2>3
  <1>11. ASSUME NEW l \in 1..(n - 1)
         PROVE  prev'[r[l]] = IF l = 1 THEN NULL ELSE r[l - 1]
    <2>1. CASE l = k
      <3>1. l + 1 \in 1..n /\ r[l] = s[l + 1] /\ k # n /\ next[s[k]] = s[l + 1]
        BY <1>3, <1>4, <2>1
      <3>2. prev'[r[l]] = IF k = 1 THEN NULL ELSE s[k - 1]
        BY <1>1, <1>4, <1>9, <3>1
      <3>3. l # 1 => l - 1 \in 1..(n - 1) /\ l - 1 < k
        BY <2>1
      <3>4. l # 1 => r[l - 1] = s[l - 1]
        BY <1>3, <3>3
      <3> QED BY <2>1, <3>2, <3>4
    <2>2. CASE l < k
      <3>1. l \in 1..n /\ r[l] = s[l]
        BY <1>3, <2>2
      <3>2. s[l] # next[s[k]]
        <4>1. k # n => k + 1 \in 1..n /\ k + 1 # l
          BY <2>2
        <4> QED BY <1>4, <1>5, <1>9, <3>1, <4>1
      <3>3. prev[s[l]] = IF l = 1 THEN NULL ELSE s[l - 1]
        BY <3>1 DEF IsList
      <3>4. l # 1 => l - 1 \in 1..(n - 1) /\ l - 1 < k
        BY <2>2
      <3>5. l # 1 => r[l - 1] = s[l - 1]
        BY <1>3, <3>4
      <3> QED BY <1>1, <1>9, <3>1, <3>2, <3>3, <3>5
    <2>3. CASE l > k
      <3>1. l + 1 \in 1..n /\ r[l] = s[l + 1] /\ l # 1 /\ l + 1 # 1 /\ (l + 1) - 1 = l
        BY <1>3, <2>3
      <3>2. s[l + 1] # next[s[k]]
        <4>1. k # n => k + 1 \in 1..n /\ k + 1 # l + 1
          BY <2>3
        <4> QED BY <1>4, <1>5, <1>9, <3>1, <4>1
      <3>3. prev[s[l + 1]] = s[l]
        BY <3>1 DEF IsList
      <3>4. l - 1 \in 1..(n - 1) /\ ~(l - 1 < k) /\ (l - 1) + 1 = l
        BY <2>3
      <3>5. r[l - 1] = s[l]
        BY <1>3, <3>4
      <3> QED BY <1>1, <1>9, <3>1, <3>2, <3>3, <3>5
    <2> QED BY <2>1, <2>2, <2>3
  <1>12. coro_list' = IF n - 1 = 0 THEN NULL ELSE r[1]
    <2>1. CASE k = 1
      <3>1. n - 1 # 0 => 1 \in 1..(n - 1) /\ ~(1 < k) /\ r[1] = s[1 + 1] /\ k # n
        BY <1>3, <2>1
      <3> QED BY <1>1, <1>4, <2>1, <3>1
    <2>2. CASE k # 1
      <3>1. 1 \in 1..(n - 1) /\ 1 < k /\ n - 1 # 0 /\ n # 0 /\ k - 1 \in 1..n
        BY <2>2
      <3>2. r[1] = s[1]
        BY <1>3, <3>1
      <3>3. prev[s[k]] # NULL
        BY <1>4, <1>9, <2>2, <3>1
      <3>4. coro_list = s[1]
        BY <3>1 DEF IsList
      <3> QED BY <1>1, <3>1, <3>2, <3>3, <3>4
    <2> QED BY <2>1, <2>2
  <1>13. IsList(r, n - 1)'
    BY <1>6, <1>7, <1>8, <1>10, <1>11, <1>12 DEF IsList
  <1>14. /\ next' \in [Coroutines -> Coroutines \cup {NULL}]
         /\ prev' \in [Coroutines -> Coroutines \cup {NULL}] /\ stacks' \subseteq Coroutines
    BY <1>1, <1>9 DEF ListInv
  <1>15. ListInv'
    BY <1>2, <1>13, <1>14 DEF ListInv
  <1> QED BY <1>2, <1>13, <1>15 DEF r

-------------------------------------------------------------------------------
(* The invariant. *)

(* At the start the list is empty. *)
LEMMA InvInit == Init => Inv
  <1> SUFFICES ASSUME Init PROVE Inv
    OBVIOUS
  <1> DEFINE s == [k \in 1..0 |-> 1]
  <1>1. s \in [1..0 -> Coroutines] /\ 0 \in Nat /\ IsList(s, 0)
    BY DEF Init, CoroInit, IsList
  <1>2. ListInv
    <2> HIDE DEF s
    <2> QED BY <1>1 DEF Init, CoroInit, ListInv
  <1>3. SchedInv
    BY DEF Init, CoroInit, SchedInv, NoneFinished
  <1> QED BY <1>2, <1>3 DEF Inv

(* The list depends on the links and on who is deleted. *)
LEMMA ListStays ==
  ASSUME UNCHANGED <<coro_list, next, prev, stacks>>
  PROVE  /\ ListInv => ListInv'
         /\ \A n \in Nat : \A s \in [1..n -> Coroutines] : IsList(s, n) => IsList(s, n)'
  BY SMTT(30) DEF ListInv, IsList

(* main creates coroutines only while there are names for them. *)
LEMMA CreatedIsRight ==
  ASSUME stacks \subseteq Coroutines, coro_count \in Coroutines, Cardinality(stacks) < coro_count
  PROVE  Cardinality(stacks) + 1 \in Coroutines
  <1>1. Cardinality(stacks) \in Nat
    BY Pointers, FS_Subset, FS_CardinalityType
  <1> QED BY <1>1, CoroutinesAssumption

(* The one that executes hands over to one in the list that has not ended, or *)
(* to the scheduler.                                                          *)
LEMMA YieldKeepsInv ==
  ASSUME Inv, coro_yield, coro_count' = coro_count, main' # "create"
  PROVE  Inv'
  <1>1. PICK n \in Nat : \E s \in [1..n -> Coroutines] : IsList(s, n)
    BY DEF Inv, ListInv
  <1>2. PICK s \in [1..n -> Coroutines] : IsList(s, n)
    BY <1>1
  <1>3. coro_this_ptr \in stacks /\ is_sched_waiting /\ NoneFinished
    BY DEF coro_yield, Inv, SchedInv
  <1>4. /\ coro_this_ptr' = YieldsTo(coro_this_ptr)
        /\ is_sched_waiting' = (is_sched_waiting /\ coro_this_ptr' # coro_sched)
        /\ UNCHANGED <<coro_list, next, prev, stacks, is_finished>>
        /\ ctx' = [ctx EXCEPT ![coro_this_ptr] = "coro_yield"]
    BY DEF coro_yield
  <1>5. coro_this_ptr' = coro_sched \/ coro_this_ptr' \in stacks
    <2>1. PICK k \in 1..n : s[k] = coro_this_ptr
      BY <1>2, <1>3 DEF IsList
    <2>2. next[coro_this_ptr] = IF k = n THEN NULL ELSE s[k + 1]
      BY <1>2, <2>1 DEF IsList
    <2>3. k # n => s[k + 1] \in stacks
      <3>1. k # n => k + 1 \in 1..n
        OBVIOUS
      <3> QED BY <1>2, <3>1 DEF IsList
    <2> QED BY <1>4, <2>2, <2>3 DEF YieldsTo
  <1>6. coro_this_ptr' \in stacks => is_sched_waiting'
    BY <1>3, <1>4, Pointers DEF Inv, ListInv
  <1>7. ListInv'
    BY <1>4, ListStays DEF Inv
  <1>8. /\ ctx' \in [Coroutines -> {"none", "coro_body", "coro_yield"}]
        /\ \A c \in stacks : ctx'[c] # "none"
    BY <1>4 DEF Inv, SchedInv, ListInv
  <1>9. SchedInv'
    BY <1>3, <1>4, <1>5, <1>6, <1>8 DEF Inv, SchedInv, NoneFinished
  <1> QED BY <1>7, <1>9 DEF Inv

(* Its end is the only one the scheduler will find. *)
LEMMA EndKeepsInv ==
  ASSUME Inv, coro_body_returns, coro_count' = coro_count, main' # "create"
  PROVE  Inv'
  <1>1. coro_this_ptr \in stacks /\ NoneFinished
    BY DEF coro_body_returns, Inv, SchedInv
  <1>2. ListInv'
    BY ListStays DEF Inv, coro_body_returns
  <1>3. SchedInv'
    BY <1>1 DEF Inv, SchedInv, ListInv, NoneFinished, coro_body_returns
  <1> QED BY <1>2, <1>3 DEF Inv

(* The scheduler begins a round only when it has found nobody who has ended.  *)
LEMMA BeginKeepsInv ==
  ASSUME Inv, WaitBegins, UNCHANGED <<coro_count, main>>, main # "create"
  PROVE  Inv' /\ NoneFinished
  <1>1. PICK n \in Nat : \E s \in [1..n -> Coroutines] : IsList(s, n)
    BY DEF Inv, ListInv
  <1>2. PICK s \in [1..n -> Coroutines] : IsList(s, n)
    BY <1>1
  <1>3. DOMAIN Listed = 1..n /\ \A k \in 1..n : Listed[k] = s[k]
    BY <1>2, ListedIsList DEF ListedIs
  <1>4. NoneFinished
    <2> SUFFICES ASSUME NEW c \in stacks PROVE ~is_finished[c]
      BY DEF NoneFinished
    <2>1. PICK k \in 1..n : s[k] = c
      BY <1>2 DEF IsList
    <2>2. k \in DOMAIN Listed /\ Listed[k] = c /\ c # NULL
      BY <1>3, <2>1, Pointers
    <2> QED BY <2>2 DEF WaitBegins, Finished, OnList
  <1>5. coro_list \in stacks
    <2>1. n # 0
      BY <1>2 DEF WaitBegins, IsList
    <2>2. 1 \in 1..n
      BY <2>1
    <2> QED BY <1>2, <2>1, <2>2 DEF IsList
  <1>6. ListInv'
    BY ListStays DEF Inv, WaitBegins
  <1>7. SchedInv'
    BY <1>4, <1>5 DEF Inv, SchedInv, NoneFinished, WaitBegins
  <1> QED BY <1>4, <1>6, <1>7 DEF Inv

(* The one it returns is the only one that has ended. *)
LEMMA ReturnsOneThatEnded ==
  ASSUME Inv, NEW c \in stacks, WaitReturns(c),
         NEW n \in Nat, NEW s \in [1..n -> Coroutines], IsList(s, n)
  PROVE  \E k \in 1..n : s[k] = c /\ is_finished[c]
  <1>1. DOMAIN Listed = 1..n /\ \A k \in 1..n : Listed[k] = s[k]
    BY ListedIsList DEF ListedIs
  <1>2. PICK k \in DOMAIN Listed : Finished(k) /\ Listed[k] = c
    BY DEF WaitReturns
  <1> QED BY <1>1, <1>2 DEF Finished

LEMMA ReturnsKeepsInv ==
  ASSUME Inv, NEW c \in stacks, WaitReturns(c), UNCHANGED <<coro_count, main>>
  PROVE  Inv'
  <1>1. PICK n \in Nat : \E s \in [1..n -> Coroutines] : IsList(s, n)
    BY DEF Inv, ListInv
  <1>2. PICK s \in [1..n -> Coroutines] : IsList(s, n)
    BY <1>1
  <1>3. PICK k \in 1..n : s[k] = c /\ is_finished[c]
    BY <1>2, ReturnsOneThatEnded
  <1>4. coro_list_delete(s[k]) /\ stacks' = stacks \ {s[k]}
    BY <1>3 DEF WaitReturns
  <1>5. ListInv'
    BY <1>2, <1>4, DeleteAtPlace DEF Inv
  <1>6. \A d \in stacks' : d \in stacks /\ ~is_finished[d]
    BY <1>3, <1>4 DEF Inv, SchedInv
  <1>7. SchedInv'
    BY <1>6 DEF Inv, SchedInv, NoneFinished, WaitReturns
  <1> QED BY <1>5, <1>7 DEF Inv

LEMMA NewKeepsInv ==
  ASSUME Inv, NEW c \in Coroutines, coro_new(c), main = "create", coro_count' = coro_count
  PROVE  Inv'
  <1>1. PICK n \in Nat : \E s \in [1..n -> Coroutines] : IsList(s, n)
    BY DEF Inv, ListInv
  <1>2. PICK s \in [1..n -> Coroutines] : IsList(s, n)
    BY <1>1
  <1>3. ListInv'
    BY <1>2, NewAtHead DEF Inv
  <1>4. SchedInv'
    <2>1. /\ ctx' = [ctx EXCEPT ![c] = "coro_body"] /\ is_finished' = [is_finished EXCEPT ![c] = FALSE]
          /\ stacks' = stacks \cup {c} /\ UNCHANGED <<coro_this_ptr, is_sched_waiting>>
      BY DEF coro_new
    <2>2. coro_this_ptr = coro_sched /\ NoneFinished /\ stacks \subseteq Coroutines
      BY DEF Inv, SchedInv, ListInv
    <2>3. /\ ctx' \in [Coroutines -> {"none", "coro_body", "coro_yield"}]
          /\ is_finished' \in [Coroutines -> BOOLEAN]
          /\ \A d \in stacks' : ctx'[d] # "none" /\ ~is_finished'[d]
      BY <2>1, <2>2 DEF Inv, SchedInv, NoneFinished
    <2> QED BY <2>1, <2>2, <2>3 DEF Inv, SchedInv, NoneFinished
  <1> QED BY <1>3, <1>4 DEF Inv

(* The rest of the program leaves the library alone. *)
LEMMA OthersKeepInv ==
  ASSUME Inv, UNCHANGED coroVars, coro_count' = coro_count, main' # "create" \/ main' = main
  PROVE  Inv'
  <1>1. ListInv'
    BY ListStays DEF Inv, coroVars
  <1>2. SchedInv'
    BY DEF Inv, SchedInv, NoneFinished, coroVars
  <1> QED BY <1>1, <1>2 DEF Inv

(* Every step, with the calls of the library it makes. *)
LEMMA InvNext == Inv /\ [Next]_vars => Inv'
  <1> SUFFICES ASSUME Inv, [Next]_vars PROVE Inv'
    OBVIOUS
  <1>1. CASE Create
    <2>1. Cardinality(stacks) + 1 \in Coroutines
      BY <1>1, CreatedIsRight DEF Create, Inv, ListInv, SchedInv
    <2> QED BY <1>1, <2>1, NewKeepsInv DEF Create
  <1>2. CASE Wait
    <2>1. CASE WaitBegins
      BY <1>2, <2>1, BeginKeepsInv DEF Wait, progVars
    <2>2. ASSUME NEW c \in stacks, WaitReturns(c) PROVE Inv'
      BY <1>2, <2>2, ReturnsKeepsInv DEF Wait, progVars
    <2> QED BY <1>2, <2>1, <2>2 DEF Wait
  <1>3. CASE MergeAll \/ TakeNone \/ \E j \in 1..Len(names) : Take(j)
    BY <1>3, OthersKeepInv DEF MergeAll, WaitIsOver, TakeNone, Take
  <1>4. ASSUME NEW c \in Coroutines, Poll(c) PROVE Inv'
    BY <1>4, YieldKeepsInv DEF Poll, Executes
  <1>5. ASSUME NEW c \in Coroutines, End(c) PROVE Inv'
    BY <1>5, EndKeepsInv DEF End, Executes
  <1>6. ASSUME NEW c \in Coroutines, Read(c) \/ Fail(c) \/ Write(c) PROVE Inv'
    BY <1>6, OthersKeepInv DEF Read, Fail, Write, Executes
  <1>7. ASSUME NEW c \in Coroutines, Merge(c) PROVE Inv'
    <2>1. coro_yield \/ UNCHANGED coroVars
      BY <1>7 DEF Merge
    <2>2. main = "wait" /\ UNCHANGED <<coro_count, main>>
      BY <1>7 DEF Merge, Executes
    <2> QED BY <2>1, <2>2, YieldKeepsInv, OthersKeepInv
  <1>8. CASE UNCHANGED vars
    BY <1>8, OthersKeepInv DEF vars, progVars
  <1> QED BY <1>1, <1>2, <1>3, <1>4, <1>5, <1>6, <1>7, <1>8 DEF Next

(* For any number of coroutines, names and files: the list is that of the     *)
(* coroutines that are not deleted, the one that runs is in it and has not    *)
(* ended, its end finds the scheduler waiting, and the scheduler finds one    *)
(* that has ended at most, wherever in the list it ended.                     *)
THEOREM NobodyJumpsAstray == Spec => []NoStrayJump
  <1>1. Init => Inv
    BY InvInit
  <1>2. Inv /\ [Next]_vars => Inv'
    BY InvNext
  <1>3. Inv => NoStrayJump
    BY InvIsEnough
  <1> QED BY <1>1, <1>2, <1>3, PTL DEF Spec

-------------------------------------------------------------------------------
(* The rounds. *)

Turn == IF coro_this_ptr = coro_sched THEN 0 ELSE TurnOf(coro_this_ptr)

Without(s, k) == SubSeq(s, 1, k - 1) \o SubSeq(s, k + 1, Len(s))

LEMMA SeqIsFunction ==
  ASSUME NEW n \in Nat, NEW q \in Seq(Coroutines), Len(q) = n
  PROVE  q = [k \in 1..n |-> q[k]]
  <1>1. q \in [1..n -> Coroutines]
    OBVIOUS
  <1> QED BY <1>1

(* Without the one that has ended, the list is what the shorter list will be. *)
LEMMA ShorterIsWithout ==
  ASSUME NEW n \in Nat, NEW s \in [1..n -> Coroutines], NEW k \in 1..n
  PROVE  Shorter(s, n, k) = Without(s, k)
  <1> DEFINE a == SubSeq(s, 1, k - 1)
             b == SubSeq(s, k + 1, n)
  <1>1. s \in Seq(Coroutines) /\ Len(s) = n
    OBVIOUS
  <1>2. a \in Seq(Coroutines) /\ Len(a) = k - 1 /\ \A l \in 1..(k - 1) : a[l] = s[l]
    <2>1. k - 1 \in Nat /\ k - 1 <= n
      OBVIOUS
    <2> QED BY <1>1, <2>1
  <1>3. b \in Seq(Coroutines) /\ Len(b) = n - k /\ \A l \in 1..(n - k) : b[l] = s[l + k]
    <2>1. k + 1 \in 1..(n + 1)
      OBVIOUS
    <2> QED BY <1>1, <2>1
  <1> HIDE DEF a, b
  <1>4. a \o b \in Seq(Coroutines) /\ Len(a \o b) = n - 1
    <2>1. a \o b \in Seq(Coroutines) /\ Len(a \o b) = Len(a) + Len(b)
      BY <1>2, <1>3
    <2>2. (k - 1) + (n - k) = n - 1
      OBVIOUS
    <2> QED BY <1>2, <1>3, <2>1, <2>2
  <1>5. \A l \in 1..(n - 1) : (a \o b)[l] = IF l < k THEN s[l] ELSE s[l + 1]
    <2> SUFFICES ASSUME NEW l \in 1..(n - 1)
                 PROVE  (a \o b)[l] = IF l < k THEN s[l] ELSE s[l + 1]
      OBVIOUS
    <2>1. CASE l < k
      <3>1. l \in 1..(k - 1)
        BY <2>1
      <3> QED BY <1>2, <1>3, <2>1, <3>1
    <2>2. CASE ~(l < k)
      <3>1. l - (k - 1) \in 1..(n - k) /\ (l - (k - 1)) + k = l + 1
        BY <2>2
      <3>2. (a \o b)[l] = b[l - (k - 1)]
        BY <1>2, <1>3, <2>2, <3>1
      <3> QED BY <1>3, <2>2, <3>1, <3>2
    <2> QED BY <2>1, <2>2
  <1>6. a \o b = [l \in 1..(n - 1) |-> (a \o b)[l]]
    <2>1. n - 1 \in Nat
      OBVIOUS
    <2> QED BY <1>4, <2>1, SeqIsFunction
  <1>7. Without(s, k) = a \o b
    BY <1>1 DEF Without, a, b
  <1> QED BY <1>5, <1>6, <1>7 DEF Shorter

(* The abstract order is the list, but for the one that has ended; and the    *)
(* abstract turn is the place of the one that runs.                           *)
LiveIs ==
  \A n \in Nat : \A s \in [1..n -> Coroutines] : IsList(s, n) =>
    /\ NoneFinished => Live = s
    /\ \A k \in 1..n :
         is_finished[s[k]] /\ (\A l \in 1..n : is_finished[s[l]] => l = k) => Live = Without(s, k)

LEMMA LiveIsList == LiveIs
  <1> SUFFICES ASSUME NEW n \in Nat, NEW s \in [1..n -> Coroutines], IsList(s, n)
               PROVE  /\ NoneFinished => Live = s
                      /\ \A k \in 1..n :
                           is_finished[s[k]] /\ (\A l \in 1..n : is_finished[s[l]] => l = k)
                             => Live = Without(s, k)
    BY DEF LiveIs
  <1>1. DOMAIN Listed = 1..n /\ \A k \in 1..n : Listed[k] = s[k]
    BY ListedIsList DEF ListedIs
  <1>2. Present = s
    <2>1. Present = [k \in 1..n |-> s[k]]
      BY <1>1 DEF Present
    <2> QED BY <2>1
  <1>3. \A k \in 1..n : Finished(k) <=> is_finished[s[k]]
    BY <1>1, Pointers DEF Finished, OnList
  <1>4. ASSUME NoneFinished PROVE Live = s
    <2>1. \A k \in 1..n : ~is_finished[s[k]]
      BY <1>4 DEF NoneFinished, IsList
    <2> QED BY <1>1, <1>2, <1>3, <2>1 DEF Live
  <1>5. ASSUME NEW k \in 1..n, is_finished[s[k]], \A l \in 1..n : is_finished[s[l]] => l = k
        PROVE  Live = Without(s, k)
    <2>1. \E l \in DOMAIN Listed : Finished(l)
      BY <1>1, <1>3, <1>5
    <2>2. FinishedAt \in DOMAIN Listed /\ Finished(FinishedAt)
      BY <2>1 DEF FinishedAt
    <2>3. FinishedAt = k
      BY <1>1, <1>3, <1>5, <2>2
    <2> QED BY <1>2, <2>1, <2>3 DEF Live, Without
  <1> QED BY <1>4, <1>5

LEMMA LiveIsListNext == LiveIs'
  BY LiveIsList, PTL

TurnIs ==
  \A n \in Nat : \A s \in [1..n -> Coroutines] : IsList(s, n) /\ NoneFinished =>
    \A k \in 1..n : TurnOf(s[k]) = k

LEMMA TurnIsPlace == TurnIs
  <1> SUFFICES ASSUME NEW n \in Nat, NEW s \in [1..n -> Coroutines], IsList(s, n), NoneFinished,
                      NEW k \in 1..n
               PROVE  TurnOf(s[k]) = k
    BY DEF TurnIs
  <1>1. Live = s /\ Len(s) = n
    BY LiveIsList DEF LiveIs
  <1>2. \A l \in 1..n : s[l] = s[k] <=> l = k
    BY DEF IsList
  <1> QED BY <1>1, <1>2 DEF TurnOf

LEMMA TurnIsPlaceNext == TurnIs'
  BY TurnIsPlace, PTL

(* Order and turn depend on the list, on who has ended and on who runs. *)
LEMMA LiveStays ==
  ASSUME UNCHANGED <<coro_list, next, stacks, is_finished, coro_this_ptr>>
  PROVE  UNCHANGED Turns!vars
  BY DEF Turns!vars, Live, Present, FinishedAt, Finished, OnList, Listed, TurnOf

LEMMA TurnsInit == Init => Turns!Init
  <1> SUFFICES ASSUME Init PROVE Turns!Init
    OBVIOUS
  <1> DEFINE s == [k \in 1..0 |-> 1]
  <1>1. s \in [1..0 -> Coroutines] /\ 0 \in Nat /\ IsList(s, 0) /\ NoneFinished /\ s = <<>>
    BY DEF Init, CoroInit, IsList, NoneFinished
  <1>2. Live = <<>>
    <2> HIDE DEF s
    <2> QED BY <1>1, LiveIsList DEF LiveIs
  <1> QED BY <1>2 DEF Turns!Init, Init, CoroInit

(* A new coroutine is the first of the order. *)
LEMMA NewIsNew ==
  ASSUME Inv, NEW c \in Coroutines, coro_new(c), main = "create"
  PROVE  Turns!New(c)
  <1>1. PICK n \in Nat : \E s \in [1..n -> Coroutines] : IsList(s, n)
    BY DEF Inv, ListInv
  <1>2. PICK s \in [1..n -> Coroutines] : IsList(s, n)
    BY <1>1
  <1> DEFINE r == Longer(s, n, c)
             m0 == n + 1
  <1>3. m0 \in Nat /\ r \in [1..m0 -> Coroutines] /\ IsList(r, m0)'
    BY <1>2, NewAtHead DEF Inv
  <1>4. NoneFinished /\ coro_this_ptr = coro_sched /\ coro_this_ptr' = coro_sched
    BY DEF Inv, SchedInv, coro_new
  <1>5. NoneFinished'
    BY <1>4 DEF NoneFinished, coro_new, Inv, SchedInv, ListInv
  <1>6. Live = s
    BY <1>2, <1>4, LiveIsList DEF LiveIs
  <1>7. Live' = r
    <2> HIDE DEF r, m0
    <2> QED BY <1>3, <1>5, LiveIsListNext DEF LiveIs
  <1>8. r = <<c>> \o s
    <2>1. s \in Seq(Coroutines) /\ Len(s) = n /\ <<c>> \in Seq(Coroutines) /\ Len(<<c>>) = 1
      OBVIOUS
    <2>2. <<c>> \o s \in Seq(Coroutines) /\ Len(<<c>> \o s) = n + 1
      BY <2>1
    <2>3. \A k \in 1..(n + 1) : (<<c>> \o s)[k] = IF k = 1 THEN c ELSE s[k - 1]
      BY <2>1
    <2>4. n + 1 \in Nat
      OBVIOUS
    <2>5. <<c>> \o s = [k \in 1..(n + 1) |-> (<<c>> \o s)[k]]
      BY <2>2, <2>4, SeqIsFunction
    <2> QED BY <2>3, <2>5 DEF Longer
  <1>9. \A k \in 1..Len(Live) : Live[k] # c
    BY <1>2, <1>6 DEF IsList, coro_new
  <1> QED BY <1>4, <1>6, <1>7, <1>8, <1>9 DEF Turns!New

(* A round begins at the first. *)
LEMMA BeginIsBegin ==
  ASSUME Inv, NoneFinished, WaitBegins
  PROVE  Turns!Begin
  <1>1. PICK n \in Nat : \E s \in [1..n -> Coroutines] : IsList(s, n)
    BY DEF Inv, ListInv
  <1>2. PICK s \in [1..n -> Coroutines] : IsList(s, n)
    BY <1>1
  <1>3. n # 0 /\ 1 \in 1..n /\ coro_this_ptr' = s[1] /\ coro_this_ptr = coro_sched
    <2>1. n # 0
      BY <1>2 DEF WaitBegins, IsList
    <2> QED BY <1>2, <2>1 DEF WaitBegins, IsList
  <1>4. IsList(s, n)' /\ NoneFinished'
    BY <1>2 DEF WaitBegins, IsList, NoneFinished
  <1>5. Live = s /\ Live' = s
    BY <1>2, <1>4, LiveIsList, LiveIsListNext DEF LiveIs
  <1>6. TurnOf(s[1])' = 1
    BY <1>3, <1>4, TurnIsPlaceNext DEF TurnIs
  <1>7. Turn' = 1 /\ Turn = 0
    <2>1. s[1] # coro_sched
      BY <1>3, Pointers
    <2>2. Turn' = TurnOf(coro_this_ptr)'
      BY <1>3, <2>1 DEF Turn
    <2>3. TurnOf(coro_this_ptr)' = TurnOf(s[1])'
      BY <1>3 DEF TurnOf
    <2> QED BY <1>3, <1>6, <2>2, <2>3 DEF Turn
  <1> QED BY <1>3, <1>5, <1>7 DEF Turns!Begin, Turn

(* While a coroutine runs, its turn is its place in the list. *)
LEMMA RunningPlace ==
  ASSUME Inv, coro_this_ptr # coro_sched
  PROVE  /\ NoneFinished
         /\ \E n \in Nat : \E s \in [1..n -> Coroutines] : \E k \in 1..n :
              IsList(s, n) /\ s[k] = coro_this_ptr /\ Live = s /\ Turn = k
  <1>1. PICK n \in Nat : \E s \in [1..n -> Coroutines] : IsList(s, n)
    BY DEF Inv, ListInv
  <1>2. PICK s \in [1..n -> Coroutines] : IsList(s, n)
    BY <1>1
  <1>3. coro_this_ptr \in stacks /\ NoneFinished
    BY DEF Inv, SchedInv
  <1>4. PICK k \in 1..n : s[k] = coro_this_ptr
    BY <1>2, <1>3 DEF IsList
  <1>5. Live = s /\ Turn = k
    BY <1>2, <1>3, <1>4, LiveIsList, TurnIsPlace DEF LiveIs, TurnIs, Turn
  <1> QED BY <1>2, <1>3, <1>4, <1>5

LEMMA YieldIsYield ==
  ASSUME Inv, coro_yield
  PROVE  Turns!Yield
  <1>0. coro_this_ptr # coro_sched /\ coro_this_ptr' = YieldsTo(coro_this_ptr)
    BY DEF coro_yield
  <1>n. PICK n \in Nat : \E s \in [1..n -> Coroutines] : \E k \in 1..n :
              IsList(s, n) /\ s[k] = coro_this_ptr /\ Live = s /\ Turn = k
    BY <1>0, RunningPlace
  <1>s. PICK s \in [1..n -> Coroutines] : \E k \in 1..n :
              IsList(s, n) /\ s[k] = coro_this_ptr /\ Live = s /\ Turn = k
    BY <1>n
  <1>1. PICK k \in 1..n : IsList(s, n) /\ s[k] = coro_this_ptr /\ Live = s /\ Turn = k
    BY <1>s
  <1>2. IsList(s, n)' /\ NoneFinished'
    BY <1>0, <1>1, RunningPlace DEF coro_yield, IsList, NoneFinished
  <1>3. Live' = s /\ Len(s) = n
    BY <1>2, LiveIsListNext DEF LiveIs
  <1>4. next[coro_this_ptr] = IF k = n THEN NULL ELSE s[k + 1]
    BY <1>1 DEF IsList
  <1>5. Turn' = IF k = n THEN 0 ELSE k + 1
    <2>1. CASE k = n
      BY <1>0, <1>4, <2>1 DEF YieldsTo, Turn
    <2>2. CASE k # n
      <3> DEFINE j == k + 1
      <3>1. j \in 1..n
        BY <2>2
      <3>2. coro_this_ptr' = s[j] /\ s[j] # coro_sched
        BY <1>0, <1>4, <2>2, <3>1, Pointers DEF YieldsTo
      <3> HIDE DEF j
      <3>3. TurnOf(s[j])' = j
        BY <1>2, <3>1, TurnIsPlaceNext DEF TurnIs
      <3>4. TurnOf(coro_this_ptr)' = TurnOf(s[j])'
        BY <3>2 DEF TurnOf
      <3>5. Turn' = TurnOf(coro_this_ptr)'
        BY <3>2 DEF Turn
      <3> QED BY <2>2, <3>3, <3>4, <3>5 DEF j
    <2> QED BY <2>1, <2>2
  <1> QED BY <1>1, <1>3, <1>5 DEF Turns!Yield, Turn

(* The end takes the one that runs out of the order and stops the round. *)
LEMMA EndIsEnd ==
  ASSUME Inv, coro_body_returns
  PROVE  Turns!End
  <1>0. coro_this_ptr # coro_sched /\ coro_this_ptr' = coro_sched
    BY DEF coro_body_returns
  <1>n. PICK n \in Nat : \E s \in [1..n -> Coroutines] : \E k \in 1..n :
              IsList(s, n) /\ s[k] = coro_this_ptr /\ Live = s /\ Turn = k
    BY <1>0, RunningPlace
  <1>s. PICK s \in [1..n -> Coroutines] : \E k \in 1..n :
              IsList(s, n) /\ s[k] = coro_this_ptr /\ Live = s /\ Turn = k
    BY <1>n
  <1>1. PICK k \in 1..n : IsList(s, n) /\ s[k] = coro_this_ptr /\ Live = s /\ Turn = k
    BY <1>s
  <1>2. IsList(s, n)'
    BY <1>1 DEF coro_body_returns, IsList
  <1>3. is_finished'[s[k]] /\ \A l \in 1..n : is_finished'[s[l]] => l = k
    <2>1. \A l \in 1..n : l # k => s[l] # s[k] /\ ~is_finished[s[l]]
      BY <1>0, <1>1, RunningPlace DEF IsList, NoneFinished
    <2>2. is_finished' = [is_finished EXCEPT ![s[k]] = TRUE] /\ s[k] \in Coroutines
      BY <1>1 DEF coro_body_returns
    <2>3. is_finished'[s[k]]
      BY <2>2 DEF Inv, SchedInv
    <2> QED BY <2>1, <2>2, <2>3 DEF Inv, SchedInv
  <1>4. Live' = Without(s, k)
    BY <1>2, <1>3, LiveIsListNext DEF LiveIs
  <1>5. Live' = SubSeq(Live, 1, Turn - 1) \o SubSeq(Live, Turn + 1, Len(Live))
    BY <1>1, <1>4 DEF Without
  <1>6. Turn > 0 /\ Turn' = 0
    BY <1>0, <1>1 DEF Turn
  <1> QED BY <1>5, <1>6 DEF Turns!End, Turn

(* What the scheduler deletes was not in the order any more. *)
LEMMA ReturnsChangesNothing ==
  ASSUME Inv, NEW c \in stacks, WaitReturns(c)
  PROVE  UNCHANGED Turns!vars
  <1>1. PICK n \in Nat : \E s \in [1..n -> Coroutines] : IsList(s, n)
    BY DEF Inv, ListInv
  <1>2. PICK s \in [1..n -> Coroutines] : IsList(s, n)
    BY <1>1
  <1>3. PICK k \in 1..n : s[k] = c /\ is_finished[c]
    BY <1>2, ReturnsOneThatEnded
  <1> DEFINE r == Shorter(s, n, k)
             m0 == n - 1
  <1>4. coro_list_delete(s[k]) /\ stacks' = stacks \ {s[k]}
    BY <1>3 DEF WaitReturns
  <1>5. m0 \in Nat /\ r \in [1..m0 -> Coroutines] /\ IsList(r, m0)'
    BY <1>2, <1>4, DeleteAtPlace DEF Inv
  <1>6. \A l \in 1..n : is_finished[s[l]] => l = k
    BY <1>2, <1>3 DEF Inv, SchedInv, IsList
  <1>7. Live = Without(s, k)
    BY <1>2, <1>3, <1>6, LiveIsList DEF LiveIs
  <1>8. NoneFinished'
    BY <1>3, <1>4 DEF NoneFinished, WaitReturns, Inv, SchedInv
  <1>9. Live' = r
    <2> HIDE DEF r, m0
    <2> QED BY <1>5, <1>8, LiveIsListNext DEF LiveIs
  <1>10. Live' = Live
    BY <1>7, <1>9, ShorterIsWithout
  <1>11. Turn = 0 /\ Turn' = 0
    BY DEF Turn, WaitReturns
  <1> QED BY <1>10, <1>11 DEF Turns!vars, Turn

LEMMA TurnsNext == Inv /\ [Next]_vars => [Turns!Next]_Turns!vars
  <1> SUFFICES ASSUME Inv, [Next]_vars PROVE [Turns!Next]_Turns!vars
    OBVIOUS
  <1>1. CASE Create
    <2>1. Cardinality(stacks) + 1 \in Coroutines
      BY <1>1, CreatedIsRight DEF Create, Inv, ListInv, SchedInv
    <2> QED BY <1>1, <2>1, NewIsNew DEF Create, Turns!Next
  <1>2. CASE Wait
    <2>1. CASE WaitBegins
      BY <1>2, <2>1, BeginKeepsInv, BeginIsBegin DEF Wait, progVars, Turns!Next
    <2>2. ASSUME NEW c \in stacks, WaitReturns(c) PROVE [Turns!Next]_Turns!vars
      BY <2>2, ReturnsChangesNothing
    <2> QED BY <1>2, <2>1, <2>2 DEF Wait
  <1>3. CASE MergeAll \/ TakeNone \/ \E j \in 1..Len(names) : Take(j)
    BY <1>3, LiveStays DEF MergeAll, WaitIsOver, TakeNone, Take, coroVars
  <1>4. ASSUME NEW c \in Coroutines, Poll(c) PROVE [Turns!Next]_Turns!vars
    BY <1>4, YieldIsYield DEF Poll, Turns!Next
  <1>5. ASSUME NEW c \in Coroutines, End(c) PROVE [Turns!Next]_Turns!vars
    BY <1>5, EndIsEnd DEF End, Turns!Next
  <1>6. ASSUME NEW c \in Coroutines, Read(c) \/ Fail(c) \/ Write(c)
        PROVE  [Turns!Next]_Turns!vars
    BY <1>6, LiveStays DEF Read, Fail, Write, coroVars
  <1>7. ASSUME NEW c \in Coroutines, Merge(c) PROVE [Turns!Next]_Turns!vars
    <2>1. coro_yield \/ UNCHANGED coroVars
      BY <1>7 DEF Merge
    <2> QED BY <2>1, YieldIsYield, LiveStays DEF Turns!Next, coroVars
  <1>8. CASE UNCHANGED vars
    BY <1>8, LiveStays DEF vars, coroVars
  <1> QED BY <1>1, <1>2, <1>3, <1>4, <1>5, <1>6, <1>7, <1>8 DEF Next

(* For any number of coroutines: the walk over the list by those who yield,   *)
(* which an end stops anywhere and a deletion changes, is a walk in rounds    *)
(* over those who have not ended, and loses or repeats nobody in a round.     *)
THEOREM TurnsAreRounds == Spec => ImplementsRounds
  <1>1. Init => Inv /\ Turns!Init
    BY InvInit, TurnsInit
  <1>2. Inv /\ [Next]_vars => Inv'
    BY InvNext
  <1>3. Inv /\ [Next]_vars => [Turns!Next]_Turns!vars
    BY TurnsNext
  <1> QED BY <1>1, <1>2, <1>3, PTL DEF Spec, ImplementsRounds, Turns!Spec

-------------------------------------------------------------------------------
(* From the bottom up: after some merges the array is in order but at the     *)
(* multiples of the length that the stretches have now.                       *)
Multiple(x, w) == \E q \in Nat : x = q * w
InStretches(a, w, upto) ==
  \A p \in 1..(Len(a) - 1) : p < upto /\ ~Multiple(p, w) => a[p] <= a[p + 1]

LEMMA Products ==
  ASSUME NEW a \in Nat, NEW b \in Nat, NEW w \in Nat
  PROVE  /\ a * w \in Nat /\ (a + 1) * w = a * w + w /\ a * (2 * w) = (2 * a) * w
         /\ a <= b => a * w <= b * w
  <1>1. a * w \in Nat /\ (a + 1) * w = a * w + w /\ a * (2 * w) = (2 * a) * w
    BY SMT
  <1>2. ASSUME a <= b PROVE a * w <= b * w
    <2> DEFINE d == b - a
    <2>1. d \in Nat /\ b = a + d
      BY <1>2
    <2> HIDE DEF d
    <2>2. b * w = a * w + d * w /\ d * w \in Nat /\ a * w \in Nat
      BY <2>1
    <2> HIDE DEF d
    <2> QED BY <2>2
  <1> QED BY <1>1, <1>2

LEMMA Multiples ==
  ASSUME NEW x \in Nat, NEW w \in Nat
  PROVE  /\ Multiple(x, w) => Multiple(x + w, w)
         /\ Multiple(x, 2 * w) => Multiple(x, w)
         /\ Multiple(0, w)
         /\ \A p \in Nat : Multiple(x, w) /\ x < p /\ p < x + w => ~Multiple(p, w)
  <1>1. ASSUME Multiple(x, w) PROVE Multiple(x + w, w)
    <2>1. PICK q \in Nat : x = q * w
      BY <1>1 DEF Multiple
    <2>2. x + w = (q + 1) * w /\ q + 1 \in Nat
      BY <2>1, Products
    <2> QED BY <2>2 DEF Multiple
  <1>2. ASSUME Multiple(x, 2 * w) PROVE Multiple(x, w)
    <2>1. PICK q \in Nat : x = q * (2 * w)
      BY <1>2 DEF Multiple
    <2>2. x = (2 * q) * w /\ 2 * q \in Nat
      BY <2>1, Products
    <2> QED BY <2>2 DEF Multiple
  <1>3. Multiple(0, w)
    <2>1. 0 = 0 * w
      OBVIOUS
    <2> QED BY <2>1 DEF Multiple
  <1>4. ASSUME NEW p \in Nat, Multiple(x, w), x < p, p < x + w, Multiple(p, w) PROVE FALSE
    <2>1. PICK q \in Nat : x = q * w
      BY <1>4 DEF Multiple
    <2>2. PICK s \in Nat : p = s * w
      BY <1>4 DEF Multiple
    <2>3. CASE s <= q
      <3>1. s * w <= q * w
        BY <2>3, Products
      <3> QED BY <1>4, <2>1, <2>2, <3>1
    <2>4. CASE q + 1 <= s
      <3>1. (q + 1) * w <= s * w /\ (q + 1) * w = q * w + w
        <4>1. q + 1 \in Nat
          OBVIOUS
        <4> QED BY <2>4, <4>1, Products
      <3> QED BY <1>4, <2>1, <2>2, <3>1
    <2> QED BY <2>3, <2>4
  <1> QED BY <1>1, <1>2, <1>3, <1>4

Shorter2(x, y) == IF x < y THEN x ELSE y

(* One merge: the stretches before its end have twice the length. *)
LEMMA OneMoreMerge ==
  ASSUME NEW a \in Seq(Nat), NEW w \in Nat \ {0}, NEW lo \in Nat, lo < Len(a) - 1,
         Multiple(lo, 2 * w), InStretches(a, w, Len(a)), InStretches(a, 2 * w, lo),
         NEW r, IsMerge(r, a, lo, Shorter2(lo + w, Len(a)), Shorter2(lo + 2 * w, Len(a)))
  PROVE  InStretches(r, w, Len(r)) /\ InStretches(r, 2 * w, lo + 2 * w)
  <1> DEFINE n == Len(a)
             mi == Shorter2(lo + w, n)
             hi == Shorter2(lo + 2 * w, n)
  <1>1. n \in Nat /\ Len(r) = n /\ mi \in Nat /\ hi \in Nat /\ lo <= mi /\ mi <= hi /\ hi <= n
    BY SMTT(30) DEF IsMerge, Shorter2
  <1>2. mi <= lo + w /\ hi <= lo + 2 * w /\ (hi # lo + 2 * w => hi = n) /\ (mi # lo + w => mi = n)
    BY DEF Shorter2
  <1>3. Multiple(lo, w) /\ Multiple(lo + w, w) /\ Multiple((lo + w) + w, w) /\ (lo + w) + w = lo + 2 * w
    BY Multiples
  <1> HIDE DEF mi, hi
  <1>4. \A p \in (lo + 1)..(mi - 1) : a[p] <= a[p + 1]
    <2> SUFFICES ASSUME NEW p \in (lo + 1)..(mi - 1) PROVE a[p] <= a[p + 1]
      OBVIOUS
    <2>1. p \in Nat /\ lo < p /\ p < lo + w /\ p < n /\ p \in 1..(n - 1)
      BY <1>1, <1>2
    <2>2. ~Multiple(p, w)
      BY <1>3, <2>1, Multiples
    <2> QED BY <2>1, <2>2 DEF InStretches
  <1>5. \A p \in (mi + 1)..(hi - 1) : a[p] <= a[p + 1]
    <2> SUFFICES ASSUME NEW p \in (mi + 1)..(hi - 1) PROVE a[p] <= a[p + 1]
      OBVIOUS
    <2>1. p \in Nat /\ lo + w < p /\ p < (lo + w) + w /\ p < n /\ p \in 1..(n - 1)
      BY <1>1, <1>2, SMTT(30)
    <2>2. ~Multiple(p, w)
      <3>1. lo + w \in Nat
        OBVIOUS
      <3> QED BY <1>3, <2>1, <3>1, Multiples
    <2> QED BY <2>1, <2>2 DEF InStretches
  <1>6. \A p \in (lo + 1)..(hi - 1) : r[p] <= r[p + 1]
    <2>1. IsMerge(r, a, lo, mi, hi)
      BY DEF mi, hi
    <2> QED BY <1>1, <1>4, <1>5, <2>1, MergeSorts
  <1>7. \A k \in 1..n : k \notin (lo + 1)..hi => r[k] = a[k]
    BY DEF IsMerge, mi, hi
  <1>8. ASSUME NEW p \in 1..(n - 1), p < lo \/ p > hi
        PROVE  r[p] = a[p] /\ r[p + 1] = a[p + 1]
    <2>1. p \in 1..n /\ p + 1 \in 1..n /\ p \notin (lo + 1)..hi /\ p + 1 \notin (lo + 1)..hi
      BY <1>1, <1>8
    <2> QED BY <1>7, <2>1
  <1>9. ASSUME NEW p \in 1..(n - 1), ~Multiple(p, w) PROVE r[p] <= r[p + 1]
    <2>1. p # lo /\ p # hi
      <3>1. p # lo + 2 * w
        BY <1>3, <1>9
      <3>2. p # n
        BY <1>1
      <3> QED BY <1>2, <1>3, <1>9, <3>1, <3>2
    <2>2. CASE p < lo \/ p > hi
      <3>1. p < n /\ a[p] <= a[p + 1]
        BY <1>1, <1>9, SMTT(30) DEF InStretches
      <3> QED BY <1>8, <2>2, <3>1
    <2>3. CASE p \in (lo + 1)..(hi - 1)
      BY <1>6, <2>3
    <2> QED BY <1>1, <2>1, <2>2, <2>3
  <1>10. ASSUME NEW p \in 1..(n - 1), p < lo + 2 * w, ~Multiple(p, 2 * w) PROVE r[p] <= r[p + 1]
    <2>1. p # lo
      BY <1>10
    <2>2. CASE p < lo
      <3>1. a[p] <= a[p + 1]
        BY <1>1, <1>10, <2>2 DEF InStretches
      <3> QED BY <1>8, <2>2, <3>1
    <2>3. CASE p > lo
      <3>1. p \in (lo + 1)..(hi - 1)
        BY <1>1, <1>2, <1>10, <2>3, SMTT(30)
      <3> QED BY <1>6, <3>1
    <2> QED BY <2>1, <2>2, <2>3
  <1> HIDE DEF n
  <1> QED BY <1>1, <1>9, <1>10 DEF InStretches

(* The stretches are the whole array in the end. *)
LEMMA StretchesEnd ==
  ASSUME NEW a \in Seq(Nat), NEW w \in Nat, Len(a) - 1 < w, InStretches(a, w, Len(a))
  PROVE  IsSorted(a)
  <1> SUFFICES ASSUME NEW p \in 1..(Len(a) - 1) PROVE a[p] <= a[p + 1]
    BY DEF IsSorted
  <1>1. Len(a) \in Nat
    OBVIOUS
  <1>2. p \in Nat /\ 0 < p /\ p < 0 + w /\ p < Len(a)
    BY <1>1
  <1>3. ~Multiple(p, w)
    BY <1>2, Multiples
  <1> QED BY <1>2, <1>3 DEF InStretches

(* A file's numbers are a stretch each at first. *)
LEMMA StretchesBegin == \A a : InStretches(a, 1, Len(a)) /\ InStretches(a, 2, 0)
  <1>1. \A p \in Nat : Multiple(p, 1)
    <2>1. \A p \in Nat : p = p * 1
      OBVIOUS
    <2> QED BY <2>1 DEF Multiple
  <1>2. ASSUME NEW a, NEW p \in 1..(Len(a) - 1) PROVE p \in Nat /\ ~(p < 0)
    OBVIOUS
  <1> QED BY <1>1, <1>2 DEF InStretches

(* What a call of merge leaves in tmp is the merge of two stretches, the        *)
(* second of which may be shorter or empty, and the copy back leaves the same. *)
LEMMA WrittenIsMerge ==
  ASSUME NEW a \in Seq(Nat), NEW w \in Nat \ {0}, NEW lo \in Nat, lo < Len(a) - 1,
         NEW to, to = Shorter2(lo + 2 * w - 1, Len(a) - 1)
  PROVE  /\ IsMerge(Written(a, a, lo, lo + w - 1, to), a, lo,
                    Shorter2(lo + w, Len(a)), Shorter2(lo + 2 * w, Len(a)))
         /\ CopiedBack(a, Written(a, a, lo, lo + w - 1, to), lo, to)
              = Written(a, a, lo, lo + w - 1, to)
  <1> DEFINE n == Len(a)
             mi == Shorter2(lo + w, n)
             hi == Shorter2(lo + 2 * w, n)
             mid == lo + w - 1
             T == Written(a, a, lo, mid, to)
             on == [k \in 0..n |-> [l \in 0..n |->
                      IF TakesLeft(a, l, mid + 1 + k - l, mid, to) THEN l + 1 ELSE l]]
             Unfold(f) == f = [k \in lo..(to + 1) |-> IF k = lo THEN lo ELSE on[k - 1][f[k - 1]]]
             first == CHOOSE f : Unfold(f)
  <1>1. n \in Nat /\ mi \in Nat /\ hi \in Nat /\ lo <= mi /\ mi <= hi /\ hi <= n /\ lo < hi
        /\ to + 1 = hi /\ to \in Int /\ to = hi - 1 /\ mid \in Nat /\ mid + 1 = lo + w
        /\ \A k \in 1..n : a[k] \in Nat
    BY SMTT(30) DEF Shorter2
  <1>2. \/ mi = lo + w
        \/ mi = n /\ hi = n /\ n < lo + w
    BY SMTT(30) DEF Shorter2
  <1>3. T = [k \in 1..n |->
              IF k - 1 \notin lo..to THEN a[k]
              ELSE IF first[k] > first[k - 1] THEN a[first[k]]
              ELSE IF HasLeft(a, first[k], mid) THEN a[mid + 1 + k - first[k]]
              ELSE a[k]]
    BY DEF Written
  <1>4. ASSUME NEW k \in Nat, NEW l \in Nat, l <= k, k <= n
        PROVE  TakesLeft(a, l, mid + 1 + k - l, mid, to) <=> Left(a, l, k, mi, hi)
    <2>1. CASE mi = lo + w
      <3>1. HasLeft(a, l, mid) <=> l < mi
        BY <1>1, <2>1 DEF HasLeft
      <3>2. mid + 1 + k - l = mi + k - l /\ mi + k - l \in Int
        BY <1>1, <2>1, SMTT(30)
      <3>3. mi + k - l > to <=> mi + k - l >= hi
        BY <1>1, <3>2, SMTT(30)
      <3> HIDE DEF mid, mi, hi
      <3> QED BY <3>1, <3>2, <3>3 DEF TakesLeft, Left
    <2>2. CASE mi = n /\ hi = n /\ n < lo + w
      <3>1. HasLeft(a, l, mid) <=> l < mi
        BY <1>1, <2>2, SMTT(30) DEF HasLeft
      <3>2. mid + 1 + k - l > to /\ mi + k - l >= hi
        <4>1. mid + 1 > to /\ mi = hi /\ k - l >= 0 /\ k - l \in Nat /\ mid \in Nat /\ to \in Int /\ hi \in Nat
          BY <1>1, <1>4, <2>2, SMTT(30)
        <4> HIDE DEF mid, mi, hi
        <4> QED BY <4>1
      <3> HIDE DEF mid, mi, hi
      <3> QED BY <3>1, <3>2 DEF TakesLeft, Left
    <2> QED BY <1>2, <2>1, <2>2
  <1>5. \A l \in 0..n : \A k \in 0..n : on[k][l] \in {l, l + 1}
    OBVIOUS
  <1>6. \A l, k \in 0..n : on[k][l] = IF TakesLeft(a, l, mid + 1 + k - l, mid, to) THEN l + 1 ELSE l
    OBVIOUS
  <1> HIDE DEF mi, hi, mid, T, on
  <1>7. \E f \in [lo..hi -> Nat] : IsWalk(f, on, lo, hi) /\ \A k \in lo..hi : f[k] <= k
    <2>1. lo \in Nat /\ hi \in Nat /\ n \in Nat /\ lo <= hi /\ hi <= n
      BY <1>1
    <2> HIDE DEF n
    <2> QED BY <1>5, <2>1, WalkExists
  <1>8. \E f : Unfold(f)
    <2>1. PICK f \in [lo..hi -> Nat] : IsWalk(f, on, lo, hi)
      BY <1>7
    <2>2. lo..hi = lo..(to + 1)
      BY <1>1
    <2>3. Unfold(f)
      BY <2>1, <2>2 DEF IsWalk
    <2> HIDE DEF Unfold
    <2> QED BY <2>3
  <1>9. Unfold(first)
    <2> HIDE DEF Unfold
    <2> QED BY <1>8
  <1> HIDE DEF first
  <1>10. first[lo] = lo /\ \A k \in (lo + 1)..hi : first[k] = on[k - 1][first[k - 1]]
    <2>1. first = [k \in lo..hi |-> IF k = lo THEN lo ELSE on[k - 1][first[k - 1]]]
      BY <1>1, <1>9
    <2>2. \A k \in lo..hi : first[k] = IF k = lo THEN lo ELSE on[k - 1][first[k - 1]]
      BY <2>1
    <2>3. lo \in lo..hi /\ \A k \in (lo + 1)..hi : k \in lo..hi /\ k # lo
      BY <1>1
    <2> QED BY <2>2, <2>3
  <1>11. first \in [lo..hi -> Nat] /\ \A k \in lo..hi : first[k] \in 0..k
    <2> DEFINE S == {k \in lo..hi : ~(first[k] \in 0..k)}
    <2>1. ASSUME S # {} PROVE FALSE
      <3>1. S \in SUBSET Nat
        BY <1>1
      <3>2. PICK k \in S : \A q \in S : k <= q
        BY <2>1, <3>1, Least
      <3>3. k \in lo..hi /\ ~(first[k] \in 0..k)
        BY <3>2
      <3>4. k # lo
        BY <1>10, <3>3
      <3>5. k - 1 \in lo..hi /\ k \in (lo + 1)..hi /\ ~(k <= k - 1)
        BY <1>1, <3>3, <3>4
      <3>6. first[k - 1] \in 0..(k - 1)
        BY <3>2, <3>5
      <3>7. k - 1 \in 0..n /\ first[k - 1] \in 0..n
        BY <1>1, <3>5, <3>6, SMTT(30)
      <3>8. on[k - 1][first[k - 1]] \in {first[k - 1], first[k - 1] + 1}
        BY <1>5, <3>7
      <3>9. first[k] = on[k - 1][first[k - 1]]
        BY <1>10, <3>5
      <3> QED BY <3>3, <3>6, <3>8, <3>9, SMTT(30)
    <2>2. \A k \in lo..hi : first[k] \in 0..k
      BY <2>1
    <2>3. first = [k \in lo..hi |-> IF k = lo THEN lo ELSE on[k - 1][first[k - 1]]]
      BY <1>1, <1>9
    <2>4. first = [k \in lo..hi |-> first[k]]
      <3>1. DOMAIN first = lo..hi
        BY <2>3
      <3> QED BY <2>3, <3>1
    <2> HIDE DEF S
    <2> QED BY <1>1, <2>2, <2>4
  <1>12. IsCursor(first, a, lo, mi, hi)
    <2> SUFFICES ASSUME NEW k \in (lo + 1)..hi
                 PROVE  first[k] = IF Left(a, first[k - 1], k - 1, mi, hi)
                                   THEN first[k - 1] + 1 ELSE first[k - 1]
      BY <1>10 DEF IsCursor
    <2> DEFINE j == k - 1
               l == first[j]
    <2>1. j \in lo..hi /\ j \in 0..n /\ j \in Nat /\ j <= n
      BY <1>1
    <2>2. l \in 0..n /\ l \in Nat /\ l <= j
      <3>1. first[j] \in 0..j
        BY <1>11, <2>1
      <3> QED BY <2>1, <3>1
    <2>3. first[k] = on[j][l]
      BY <1>10
    <2> HIDE DEF j, l
    <2>4. on[j][l] = IF TakesLeft(a, l, mid + 1 + j - l, mid, to) THEN l + 1 ELSE l
      BY <1>6, <2>1, <2>2
    <2>5. TakesLeft(a, l, mid + 1 + j - l, mid, to) <=> Left(a, l, j, mi, hi)
      BY <1>4, <2>1, <2>2
    <2> QED BY <2>3, <2>4, <2>5 DEF j, l
  <1>13. \A k \in 1..n : k \notin (lo + 1)..hi => T[k] = a[k]
    <2> SUFFICES ASSUME NEW k \in 1..n, k \notin (lo + 1)..hi PROVE T[k] = a[k]
      OBVIOUS
    <2>1. k - 1 \notin lo..to
      BY <1>1
    <2> QED BY <1>3, <2>1
  <1>14. ASSUME NEW k \in (lo + 1)..hi PROVE T[k] = a[Source(first, k, mi)]
    <2>1. k - 1 \in lo..to /\ k \in 1..n
      BY <1>1
    <2>2. T[k] = IF first[k] > first[k - 1] THEN a[first[k]]
                 ELSE IF HasLeft(a, first[k], mid) THEN a[mid + 1 + k - first[k]]
                 ELSE a[k]
      BY <1>3, <2>1
    <2>3. first[k] \in lo..mi /\ mi + k - first[k] \in mi..hi
      <3>1. k \in lo..hi
        BY <1>1
      <3> QED BY <1>1, <1>11, <1>12, <3>1, CursorBounds
    <2> DEFINE l == first[k]
    <2>4. CASE first[k] > first[k - 1]
      BY <2>2, <2>4 DEF Source
    <2>5. CASE ~(first[k] > first[k - 1])
      <3>1. Source(first, k, mi) = mi + k - l
        BY <2>5 DEF Source
      <3>2. T[k] = IF HasLeft(a, l, mid) THEN a[mid + 1 + k - l] ELSE a[k]
        BY <2>2, <2>5
      <3>3. l \in lo..mi /\ l \in Nat
        BY <1>1, <2>3, SMTT(30)
      <3> HIDE DEF l
      <3>4. CASE HasLeft(a, l, mid)
        <4>1. l <= mid /\ l < n
          BY <3>4 DEF HasLeft
        <4>2. mi = lo + w
          <5>1. first[k - 1] \in 0..(k - 1) /\ l <= first[k - 1]
            <6>1. k - 1 \in lo..hi /\ k \in lo..hi
              BY <1>1
            <6> QED BY <1>11, <2>5, <6>1 DEF l
          <5>2. l <= k - 1
            BY <3>3, <5>1
          <5> QED BY <1>1, <1>2, <2>3, <5>2, SMTT(30) DEF l
        <4> QED BY <3>1, <3>2, <3>4, <4>2, <1>1
      <3>5. CASE ~HasLeft(a, l, mid)
        <4>1. l = mi
          BY <1>1, <1>2, <3>3, <3>5 DEF HasLeft
        <4>2. mi + k - l = k
          BY <1>1, <4>1
        <4> QED BY <3>1, <3>2, <3>5, <4>2
      <3> QED BY <3>4, <3>5
    <2> QED BY <2>4, <2>5
  <1>15. T \in Seq(Nat) /\ Len(T) = n
    <2>1. ASSUME NEW k \in 1..n PROVE T[k] \in Nat
      <3>1. CASE k \in (lo + 1)..hi
        <4>1. Source(first, k, mi) \in 1..n
          <5>1. mi \in Nat /\ hi \in Nat /\ lo <= mi /\ mi <= hi
            BY <1>1
          <5> HIDE DEF n
          <5>2. \/ /\ Left(a, first[k - 1], k - 1, mi, hi)
                   /\ first[k] = first[k - 1] + 1 /\ Source(first, k, mi) = first[k]
                   /\ first[k] \in (lo + 1)..mi
                \/ /\ ~Left(a, first[k - 1], k - 1, mi, hi)
                   /\ first[k] = first[k - 1] /\ Source(first, k, mi) = mi + k - first[k]
                   /\ mi + k - first[k] \in (mi + 1)..hi
            BY <1>11, <1>12, <3>1, <5>1, SourceIs
          <5>3. Source(first, k, mi) \in (lo + 1)..mi \/ Source(first, k, mi) \in (mi + 1)..hi
            BY <5>2, Zenon
          <5> QED BY <1>1, <5>3, SMTT(30)
        <4> QED BY <1>1, <1>14, <3>1, <4>1
      <3>2. CASE k \notin (lo + 1)..hi
        BY <1>1, <1>13, <3>2
      <3> QED BY <3>1, <3>2
    <2>2. T = [k \in 1..n |-> T[k]]
      <3>1. DOMAIN T = 1..n
        BY <1>3
      <3> QED BY <1>3, <3>1
    <2> HIDE DEF n
    <2>3. T \in [1..n -> Nat]
      BY <2>1, <2>2
    <2>4. n \in Nat
      BY <1>1
    <2> QED BY <2>3, <2>4
  <1>16. IsMerge(T, a, lo, mi, hi)
    <2> HIDE DEF n
    <2> QED BY <1>11, <1>12, <1>13, <1>14, <1>15 DEF IsMerge, n
  <1>17. CopiedBack(a, T, lo, to) = T
    <2>1. CopiedBack(a, T, lo, to) = [k \in 1..n |-> IF k - 1 \in lo..to THEN T[k] ELSE a[k]]
      BY DEF CopiedBack
    <2>2. \A k \in 1..n : (IF k - 1 \in lo..to THEN T[k] ELSE a[k]) = T[k]
      <3> SUFFICES ASSUME NEW k \in 1..n, k - 1 \notin lo..to PROVE a[k] = T[k]
        OBVIOUS
      <3>1. k \notin (lo + 1)..hi
        BY <1>1
      <3> QED BY <1>13, <3>1
    <2>3. T = [k \in 1..n |-> T[k]]
      <3> HIDE DEF n
      <3>1. T \in [1..n -> Nat]
        BY <1>15
      <3> QED BY <3>1
    <2> QED BY <2>1, <2>2, <2>3
  <1> QED BY <1>16, <1>17 DEF T, mi, hi, mid

-------------------------------------------------------------------------------
(* How far the loops of merge_sort are: the stretches of length w are in order, *)
(* and before `at' those of twice that length.                                *)
MergedTo(a, w, at) ==
  /\ w \in Nat \ {0} /\ w < Len(a) /\ at \in Nat /\ at < Len(a) - 1
  /\ Multiple(at, 2 * w) /\ InStretches(a, w, Len(a)) /\ InStretches(a, 2 * w, at)

(* One turn of the loops: the next stretches, or longer ones, or the end. *)
LEMMA OneMoreTurn ==
  ASSUME NEW a \in Seq(Nat), NEW w, NEW at, MergedTo(a, w, at),
         NEW to, to = (IF at + 2 * w - 1 < Len(a) - 1 THEN at + 2 * w - 1 ELSE Len(a) - 1),
         NEW r, r = Written(a, a, at, at + w - 1, to)
  PROVE  /\ r \in Seq(Nat) /\ Len(r) = Len(a) /\ Rearranged(a, r) /\ CopiedBack(a, r, at, to) = r
         /\ at + 2 * w < Len(a) - 1 => MergedTo(r, w, at + 2 * w)
         /\ ~(at + 2 * w < Len(a) - 1) /\ 2 * w <= Len(a) - 1 => MergedTo(r, 2 * w, 0)
         /\ ~(at + 2 * w < Len(a) - 1) /\ ~(2 * w <= Len(a) - 1) => IsSorted(r)
  <1> DEFINE n == Len(a)
             mi == Shorter2(at + w, n)
             hi == Shorter2(at + 2 * w, n)
             on == at + 2 * w
  <1>1. /\ w \in Nat \ {0} /\ w < n /\ at \in Nat /\ at < n - 1 /\ n \in Nat
        /\ Multiple(at, 2 * w) /\ InStretches(a, w, n) /\ InStretches(a, 2 * w, at)
    BY DEF MergedTo
  <1>2. IsMerge(r, a, at, mi, hi) /\ CopiedBack(a, r, at, to) = r
    <2>1. to = Shorter2(at + 2 * w - 1, Len(a) - 1)
      BY DEF Shorter2
    <2> QED BY <1>1, <2>1, WrittenIsMerge
  <1>3. r \in Seq(Nat) /\ Len(r) = n
    BY <1>2 DEF IsMerge
  <1>4. Rearranged(a, r)
    <2>1. mi \in Nat /\ hi \in Nat /\ at <= mi /\ mi <= hi /\ hi <= n
      BY <1>1, SMTT(30) DEF Shorter2
    <2> HIDE DEF mi, hi
    <2> QED BY <1>1, <1>2, <2>1, MergeRearranges
  <1>5. InStretches(r, w, n) /\ InStretches(r, 2 * w, on)
    BY <1>1, <1>2, <1>3, OneMoreMerge
  <1>6. Multiple(on, 2 * w) /\ on \in Nat /\ 2 * w \in Nat \ {0} /\ Multiple(0, 2 * (2 * w))
    <2>1. 2 * w \in Nat \ {0} /\ on \in Nat /\ 2 * (2 * w) \in Nat
      BY <1>1
    <2> DEFINE u == 2 * w
               v == 2 * u
    <2> HIDE DEF u
    <2>2. Multiple(at + u, u) /\ Multiple(0, v)
      BY <1>1, <2>1, Multiples DEF u
    <2> QED BY <2>1, <2>2 DEF u
  <1>7. ASSUME on < n - 1 PROVE MergedTo(r, w, on)
    BY <1>1, <1>3, <1>5, <1>6, <1>7 DEF MergedTo
  <1>8. ASSUME ~(on < n - 1) PROVE InStretches(r, 2 * w, n)
    <2> SUFFICES ASSUME NEW p \in 1..(Len(r) - 1), p < n, ~Multiple(p, 2 * w) PROVE r[p] <= r[p + 1]
      BY DEF InStretches
    <2>1. p # on
      BY <1>6
    <2>2. p < on
      <3> HIDE DEF on, n
      <3> QED BY <1>1, <1>3, <1>6, <1>8, <2>1
    <2> QED BY <1>5, <2>2 DEF InStretches
  <1>9. ASSUME ~(on < n - 1), 2 * w <= n - 1 PROVE MergedTo(r, 2 * w, 0)
    <2>1. InStretches(r, 2 * (2 * w), 0)
      <3>1. \A p \in 1..(Len(r) - 1) : ~(p < 0)
        OBVIOUS
      <3> QED BY <3>1 DEF InStretches
    <2>2. 2 * w < n /\ 0 < n - 1
      BY <1>1, <1>9, SMTT(30)
    <2> QED BY <1>3, <1>6, <1>8, <1>9, <2>1, <2>2 DEF MergedTo
  <1>10. ASSUME ~(on < n - 1), ~(2 * w <= n - 1) PROVE IsSorted(r)
    <2>1. InStretches(r, 2 * w, Len(r)) /\ Len(r) - 1 < 2 * w /\ 2 * w \in Nat
      BY <1>1, <1>3, <1>6, <1>8, <1>10
    <2> DEFINE u == 2 * w
    <2> HIDE DEF u
    <2> QED BY <1>3, <2>1, StretchesEnd DEF u
  <1> QED BY <1>2, <1>3, <1>4, <1>7, <1>9, <1>10

-------------------------------------------------------------------------------
(* The program's own invariant.  What its variables hold: *)
DataInv ==
  /\ TypeOK
  /\ names \in Seq(Files) /\ pool \in Seq(Files)
  /\ original \in [Files -> Seq(Nat)] /\ disk \in [Files -> Seq(Nat)]
  /\ \A f \in Files : \A k \in 1..Len(original[f]) : original[f][k] <= IntMax
  /\ array \in [Coroutines -> Seq(Nat)] /\ tmp \in [Coroutines -> Seq(Nat)]

(* main creates them all before it waits; who is not in the list any more has  *)
(* ended, and nobody ends before the pool is empty.                           *)
EndInv ==
  /\ \A c \in stacks : is_finished[c] <=> pc[c] = "ended"
  /\ \A c \in Coroutines : c \notin stacks => pc[c] \in {"poll", "ended"}
  /\ main = "create" => \A c \in Coroutines : pc[c] = "poll"
  /\ main = "create" => \E k \in Nat : k < coro_count /\ stacks = 1..k
  /\ main # "create" => \A c \in 1..coro_count : c \in stacks \/ pc[c] = "ended"
  /\ \A c \in Coroutines : pc[c] = "ended" => pool = <<>>

(* A coroutine's array is its file's numbers in another order, sorted as far   *)
(* as the loops are.                                                          *)
WorkInv(c) ==
  /\ IF pc[c] \in {"poll", "ended"} THEN file_name[c] = NULL ELSE file_name[c] \in Files
  /\ pc[c] = "sort" /\ main = "wait" => array[c] # <<>>
  /\ pc[c] = "sort" /\ array[c] # <<>> => MergedTo(array[c], m[c], i[c])
  /\ pc[c] = "write" => IsSorted(array[c])
  /\ pc[c] \in {"sort", "write"} => Rearranged(original[file_name[c]], array[c]) /\ tmp[c] = array[c]

FilesKept ==
  \A f \in Files : /\ Rearranged(original[f], disk[f])
                   /\ disk[f] = original[f] \/ IsSorted(disk[f])
FilesDone ==
  \A f \in Files : IF Taken(f) THEN Claims(f) = {} => IsSorted(disk[f])
                   ELSE Claims(f) = {} /\ disk[f] = original[f]
DiskInv == FilesKept /\ FilesDone

(* main merges only files that are sorted. *)
Texts == [j \in 1..Len(names) |-> content(j)]
MergeInv ==
  /\ main \in {"create", "wait", "failed"} => indices = <<>>
  /\ indices = <<>> => merged = <<>>
  /\ main \in {"merge", "written"} \/ indices # <<>> =>
       /\ Halfway(Len(names), Texts, indices, merged)
       /\ \A k \in 1..Len(merged) : merged[k] < IntMax
       /\ main = "written" => \A j \in 1..Len(names) : ~More(j)
       /\ main = "wild" => /\ \E j \in 1..Len(names) : More(j)
                           /\ \A j \in 1..Len(names) : More(j) => Value(j) >= IntMax

WorksInv == \A c \in Coroutines : WorkInv(c)
ProgInv == DataInv /\ EndInv /\ WorksInv /\ DiskInv /\ MergeInv

-------------------------------------------------------------------------------
LEMMA NamesStay ==
  ASSUME argv' = argv
  PROVE  names' = names
  BY DEF names

LEMMA ArgsInit ==
  ASSUME Init
  PROVE  names \in Seq(Files) /\ pool \in Seq(Files) /\ pool = Pooled
  <1>1. PICK n \in 1..MaxArgs : argv \in [1..n -> Files]
    BY DEF Init
  <1>2. n \in Nat /\ n > 0 /\ argv \in Seq(Files) /\ Len(argv) = n
    BY <1>1, ConstantsAssumption
  <1>3. names = [k \in 1..(n - 1) |-> argv[k]] /\ n - 1 \in Nat
    BY <1>2 DEF names
  <1>4. names \in [1..(n - 1) -> Files] /\ names \in Seq(Files) /\ Len(names) = n - 1
    BY <1>1, <1>3
  <1> HIDE DEF names
  <1>5. pool = [k \in 1..(n - 1) |-> names[(n - 1) + 1 - k]]
    BY <1>4 DEF Init, Pooled
  <1>6. \A k \in 1..(n - 1) : (n - 1) + 1 - k \in 1..(n - 1)
    BY <1>2
  <1>7. pool \in [1..(n - 1) -> Files]
    BY <1>4, <1>5, <1>6
  <1> QED BY <1>3, <1>4, <1>7 DEF Init

LEMMA ProgInit == Init => ProgInv
  <1> SUFFICES ASSUME Init PROVE ProgInv
    OBVIOUS
  <1>1. names \in Seq(Files) /\ pool \in Seq(Files) /\ pool = Pooled
    BY ArgsInit
  <1>2. \A f \in Files : /\ original[f] \in Seq(Nat)
                         /\ \A k \in 1..Len(original[f]) : original[f][k] <= IntMax
    <2> SUFFICES ASSUME NEW f \in Files
                 PROVE  /\ original[f] \in Seq(Nat)
                        /\ \A k \in 1..Len(original[f]) : original[f][k] <= IntMax
      OBVIOUS
    <2> DEFINE S == 0..IntMax
    <2>1. original[f] \in Seq(S)
      BY ConstantsAssumption DEF Init
    <2>2. \A x \in S : x \in Nat /\ x <= IntMax
      BY ConstantsAssumption
    <2> HIDE DEF S
    <2> QED BY <2>1, <2>2
  <1>3. DataInv
    <2>1. original \in [Files -> Seq(Nat)]
      <3>1. original = [f \in Files |-> original[f]]
        BY DEF Init
      <3> QED BY <1>2, <3>1
    <2>2. <<>> \in Seq(Nat)
      OBVIOUS
    <2>3. \A k \in 1..Len(pool) : pool[k] \in Files
      BY <1>1
    <2> QED BY <1>1, <1>2, <2>1, <2>2, <2>3 DEF Init, DataInv, TypeOK
  <1>4. EndInv
    <2>1. coro_count \in Nat /\ 0 < coro_count
      BY CoroutinesAssumption DEF Init
    <2>2. stacks = 1..0 /\ 0 \in Nat
      BY DEF Init, CoroInit
    <2> QED BY <2>1, <2>2 DEF Init, CoroInit, EndInv
  <1>5. WorksInv
    BY DEF Init, WorksInv, WorkInv
  <1>6. DiskInv
    <2>0. Len(names) \in Nat /\ Len(pool) = Len(names)
          /\ \A l \in 1..Len(names) : /\ Len(names) + 1 - l \in 1..Len(names)
                                      /\ pool[l] = names[Len(names) + 1 - l]
      BY <1>1 DEF Pooled
    <2>1. ASSUME NEW k \in 1..Len(names) PROVE Claims(names[k]) # {}
      <3> DEFINE l == Len(names) + 1 - k
      <3>1. l \in 1..Len(names) /\ Len(names) + 1 - l = k
        BY <2>0
      <3> HIDE DEF l
      <3>2. l \in 1..Len(pool) /\ pool[l] = names[k]
        BY <2>0, <3>1
      <3> QED BY <3>2 DEF Claims
    <2>2. ASSUME NEW f \in Files, ~Taken(f) PROVE Claims(f) = {}
      <3>1. \A l \in 1..Len(pool) : pool[l] # f
        BY <2>0, <2>2 DEF Taken
      <3>2. \A c \in Coroutines : file_name[c] # f
        BY ConstantsAssumption DEF Init
      <3> QED BY <3>1, <3>2 DEF Claims
    <2>3. FilesDone
      BY <2>1, <2>2 DEF Init, FilesDone, Taken
    <2> QED BY <2>3, SameIsRearranged DEF Init, DiskInv, FilesKept
  <1>7. MergeInv
    BY DEF Init, MergeInv
  <1> QED BY <1>3, <1>4, <1>5, <1>6, <1>7 DEF ProgInv

-------------------------------------------------------------------------------
(* One turn of a coroutine's loops, in terms of its array. *)
LEMMA MergeIsTurn ==
  ASSUME DataInv, WorksInv, NEW c \in Coroutines, Merge(c)
  PROVE  \E r \in Seq(Nat) :
           /\ Rearranged(array[c], r) /\ Len(r) = Len(array[c])
           /\ array' = [array EXCEPT ![c] = r] /\ tmp' = [tmp EXCEPT ![c] = r]
           /\ m'[c] \in Nat /\ i'[c] \in Nat
           /\ m' = [m EXCEPT ![c] = m'[c]] /\ i' = [i EXCEPT ![c] = i'[c]]
           /\ \/ pc' = [pc EXCEPT ![c] = "sort"] /\ MergedTo(r, m'[c], i'[c])
              \/ pc' = [pc EXCEPT ![c] = "write"] /\ IsSorted(r)
           /\ r # <<>>
  <1> DEFINE a == array[c]
             w == m[c]
             at == i[c]
             to == IF at + 2 * w - 1 < Len(a) - 1 THEN at + 2 * w - 1 ELSE Len(a) - 1
             on == at + 2 * w
             r == Written(a, a, at, at + w - 1, to)
  <1>1. a \in Seq(Nat) /\ tmp[c] = a /\ a # <<>> /\ MergedTo(a, w, at) /\ pc[c] = "sort"
    BY DEF DataInv, WorksInv, WorkInv, Merge, Executes
  <1>2. /\ r \in Seq(Nat) /\ Len(r) = Len(a) /\ Rearranged(a, r) /\ CopiedBack(a, r, at, to) = r
        /\ on < Len(a) - 1 => MergedTo(r, w, on)
        /\ ~(on < Len(a) - 1) /\ 2 * w <= Len(a) - 1 => MergedTo(r, 2 * w, 0)
        /\ ~(on < Len(a) - 1) /\ ~(2 * w <= Len(a) - 1) => IsSorted(r)
    BY <1>1, OneMoreTurn
  <1>3. /\ tmp' = [tmp EXCEPT ![c] = Written(@, a, at, at + w - 1, to)]
        /\ array' = [array EXCEPT ![c] = CopiedBack(@, tmp'[c], at, to)]
        /\ i' = [i EXCEPT ![c] = IF on < Len(a) - 1 THEN on ELSE 0]
        /\ m' = [m EXCEPT ![c] = IF on < Len(a) - 1 THEN @ ELSE Doubled(@)]
        /\ pc' = [pc EXCEPT ![c] = IF m'[c] <= Len(a) - 1 THEN "sort" ELSE "write"]
    BY DEF Merge
  <1>t. /\ tmp \in [Coroutines -> Seq(Nat)] /\ array \in [Coroutines -> Seq(Nat)]
        /\ i \in [Coroutines -> Nat] /\ m \in [Coroutines -> Nat]
        /\ pc \in [Coroutines -> {"poll", "read", "sort", "write", "ended"}]
    BY DEF DataInv, TypeOK
  <1>4. tmp' = [tmp EXCEPT ![c] = r] /\ tmp'[c] = r
    <2> HIDE DEF a, w, at, to, on
    <2> QED BY <1>1, <1>3, <1>t
  <1>5. array' = [array EXCEPT ![c] = r]
    <2>1. array' = [array EXCEPT ![c] = CopiedBack(a, r, at, to)]
      <3> HIDE DEF r, at, to, on, w
      <3> QED BY <1>3, <1>4
    <2> HIDE DEF r, at, to, on, w, a
    <2> QED BY <1>2, <2>1
  <1>6. /\ i'[c] = (IF on < Len(a) - 1 THEN on ELSE 0) /\ i' = [i EXCEPT ![c] = i'[c]]
        /\ m'[c] = (IF on < Len(a) - 1 THEN w ELSE 2 * w) /\ m' = [m EXCEPT ![c] = m'[c]]
    <2> HIDE DEF a, on, at
    <2> QED BY <1>3, <1>t DEF Doubled
  <1>7. w \in Nat /\ at \in Nat /\ on \in Nat /\ w < Len(a) /\ Len(a) \in Nat
    BY <1>1 DEF MergedTo
  <1>8. i'[c] \in Nat /\ m'[c] \in Nat
    <2> HIDE DEF a, on, at, w
    <2> QED BY <1>6, <1>7
  <1>9. \/ pc' = [pc EXCEPT ![c] = "sort"] /\ MergedTo(r, m'[c], i'[c])
        \/ pc' = [pc EXCEPT ![c] = "write"] /\ IsSorted(r)
    <2>1. pc' = [pc EXCEPT ![c] = IF m'[c] <= Len(a) - 1 THEN "sort" ELSE "write"]
      BY <1>3
    <2> HIDE DEF a, on, at, w, r, to
    <2>2. CASE on < Len(a) - 1
      <3>1. m'[c] = w /\ i'[c] = on /\ w <= Len(a) - 1
        BY <1>6, <1>7, <2>2
      <3> QED BY <1>2, <2>1, <2>2, <3>1
    <2>3. CASE ~(on < Len(a) - 1) /\ 2 * w <= Len(a) - 1
      BY <1>2, <1>6, <1>7, <2>1, <2>3
    <2>4. CASE ~(on < Len(a) - 1) /\ ~(2 * w <= Len(a) - 1)
      BY <1>2, <1>6, <1>7, <2>1, <2>4
    <2> QED BY <2>2, <2>3, <2>4
  <1>10. r # <<>>
    <2> HIDE DEF r, to
    <2> QED BY <1>1, <1>2
  <1> HIDE DEF r
  <1> QED BY <1>2, <1>4, <1>5, <1>6, <1>8, <1>9, <1>10

-------------------------------------------------------------------------------
(* Each part, over each action. *)

LEMMA DataNext ==
  ASSUME DataInv, WorksInv, [Next]_vars
  PROVE  DataInv'
  <1>t. /\ main \in {"create", "wait", "merge", "written", "wild", "failed"}
        /\ pc \in [Coroutines -> {"poll", "read", "sort", "write", "ended"}]
        /\ \A k \in 1..Len(pool) : pool[k] \in Files
        /\ file_name \in [Coroutines -> Files \cup {NULL}]
        /\ m \in [Coroutines -> Nat] /\ i \in [Coroutines -> Nat]
    BY DEF DataInv, TypeOK
  <1>1. CASE Create \/ Wait \/ MergeAll \/ TakeNone \/ \E j \in 1..Len(names) : Take(j)
    <2>1. /\ UNCHANGED <<argv, original, disk, pool, pc, file_name, array, tmp, m, i>>
          /\ main' \in {main, "create", "wait", "merge", "written", "wild"}
      BY <1>1 DEF Create, Wait, progVars, MergeAll, TakeNone, Take
    <2> QED BY <1>t, <2>1, NamesStay DEF DataInv, TypeOK
  <1>2. ASSUME NEW c \in Coroutines, Poll(c) PROVE DataInv'
    <2>1. /\ UNCHANGED <<argv, original, disk, array, tmp, m, i, main>>
          /\ pc' = [pc EXCEPT ![c] = "read"] /\ pool # <<>>
          /\ file_name' = [file_name EXCEPT ![c] = Head(pool)] /\ pool' = Tail(pool)
      BY <1>2 DEF Poll
    <2>2. Head(pool) \in Files /\ Tail(pool) \in Seq(Files)
      BY <2>1 DEF DataInv
    <2>3. \A k \in 1..Len(pool') : pool'[k] \in Files
      BY <2>1, <2>2
    <2> QED BY <1>t, <2>1, <2>2, <2>3, NamesStay DEF DataInv, TypeOK
  <1>3. ASSUME NEW c \in Coroutines, End(c) \/ Fail(c) PROVE DataInv'
    <2>1. /\ UNCHANGED <<argv, original, disk, pool, file_name, array, tmp, m, i>>
          /\ main' \in {main, "failed"} /\ (pc' = pc \/ pc' = [pc EXCEPT ![c] = "ended"])
      BY <1>3 DEF End, Fail
    <2> QED BY <1>t, <2>1, NamesStay DEF DataInv, TypeOK
  <1>4. ASSUME NEW c \in Coroutines, Read(c) PROVE DataInv'
    <2>1. file_name[c] \in Files
      BY <1>4 DEF Read, WorksInv, WorkInv
    <2>2. disk[file_name[c]] \in Seq(Nat)
      BY <2>1 DEF DataInv
    <2> QED BY <1>t, <1>4, <2>2, NamesStay DEF DataInv, TypeOK, Read
  <1>5. ASSUME NEW c \in Coroutines, Merge(c) PROVE DataInv'
    <2>1. PICK r \in Seq(Nat) :
           /\ array' = [array EXCEPT ![c] = r] /\ tmp' = [tmp EXCEPT ![c] = r]
           /\ m'[c] \in Nat /\ i'[c] \in Nat
           /\ m' = [m EXCEPT ![c] = m'[c]] /\ i' = [i EXCEPT ![c] = i'[c]]
           /\ pc' = [pc EXCEPT ![c] = "sort"] \/ pc' = [pc EXCEPT ![c] = "write"]
      BY <1>5, MergeIsTurn
    <2>2. UNCHANGED <<argv, original, disk, pool, file_name, main>>
      BY <1>5 DEF Merge
    <2>3. m' \in [Coroutines -> Nat] /\ i' \in [Coroutines -> Nat]
      BY <1>t, <2>1
    <2>4. array' \in [Coroutines -> Seq(Nat)] /\ tmp' \in [Coroutines -> Seq(Nat)]
      BY <2>1 DEF DataInv
    <2>5. pc' \in [Coroutines -> {"poll", "read", "sort", "write", "ended"}]
      BY <1>t, <2>1
    <2> QED BY <1>t, <2>2, <2>3, <2>4, <2>5, NamesStay DEF DataInv, TypeOK
  <1>6. ASSUME NEW c \in Coroutines, Write(c) PROVE DataInv'
    <2>1. array[c] \in Seq(Nat)
      BY DEF DataInv
    <2> QED BY <1>t, <1>6, <2>1, NamesStay DEF DataInv, TypeOK, Write
  <1>7. CASE UNCHANGED vars
    BY <1>t, <1>7, NamesStay DEF DataInv, TypeOK, vars, progVars
  <1> QED BY <1>1, <1>2, <1>3, <1>4, <1>5, <1>6, <1>7 DEF Next

LEMMA EndNext ==
  ASSUME Inv, DataInv, EndInv, [Next]_vars
  PROVE  EndInv'
  <1>t. pc \in [Coroutines -> {"poll", "read", "sort", "write", "ended"}]
    BY DEF DataInv, TypeOK
  <1>i. /\ stacks \subseteq Coroutines /\ coro_count \in Coroutines
        /\ is_finished \in [Coroutines -> BOOLEAN]
        /\ coro_this_ptr # coro_sched => coro_this_ptr \in stacks /\ ~is_finished[coro_this_ptr]
    BY DEF Inv, ListInv, SchedInv, NoneFinished
  <1>e. /\ \A c \in stacks : is_finished[c] <=> pc[c] = "ended"
        /\ \A c \in Coroutines : c \notin stacks => pc[c] \in {"poll", "ended"}
        /\ main = "create" => \A c \in Coroutines : pc[c] = "poll"
        /\ main = "create" => \E k \in Nat : k < coro_count /\ stacks = 1..k
        /\ main # "create" => \A c \in 1..coro_count : c \in stacks \/ pc[c] = "ended"
        /\ \A c \in Coroutines : pc[c] = "ended" => pool = <<>>
    BY DEF EndInv
  <1>1. CASE Create
    <2>1. PICK k \in Nat : k < coro_count /\ stacks = 1..k
      BY <1>1, <1>e DEF Create
    <2>2. Cardinality(stacks) = k
      BY <2>1, FS_Interval
    <2> DEFINE l == k + 1
    <2>3. l \in Nat /\ l <= coro_count /\ stacks' = 1..l /\ coro_count \in Nat
      <3>1. stacks' = (1..k) \cup {k + 1}
        BY <1>1, <2>1, <2>2 DEF Create, coro_new
      <3>2. (1..k) \cup {k + 1} = 1..(k + 1)
        BY SMT
      <3>3. coro_count \in Nat
        BY <1>i, CoroutinesAssumption
      <3> QED BY <2>1, <3>1, <3>2, <3>3
    <2> HIDE DEF l
    <2>4. Cardinality(stacks') = l
      BY <2>3, FS_Interval
    <2>5. /\ main' = (IF l = coro_count THEN "wait" ELSE "create")
          /\ UNCHANGED <<coro_count, pool, pc>> /\ main = "create"
          /\ l = Cardinality(stacks) + 1 /\ is_finished' = [is_finished EXCEPT ![l] = FALSE]
          /\ stacks' = stacks \cup {l}
      BY <1>1, <2>2, <2>4 DEF Create, coro_new, l
    <2>6. l \in Coroutines /\ \A c \in Coroutines : pc[c] = "poll"
      BY <1>e, <1>i, <1>1, <2>5, CreatedIsRight DEF Create
    <2>7. \A c \in stacks' : ~is_finished'[c]
      BY <1>e, <1>i, <2>5, <2>6
    <2>8. main' = "create" => l < coro_count
      BY <2>3, <2>5
    <2>9. main' # "create" => stacks' = 1..coro_count
      BY <2>3, <2>5
    <2>10. stacks' \subseteq Coroutines
      BY <1>i, <2>5, <2>6
    <2> HIDE DEF l
    <2> QED BY <1>e, <2>3, <2>5, <2>6, <2>7, <2>8, <2>9, <2>10 DEF EndInv
  <1>2. CASE Wait
    <2>0. UNCHANGED <<coro_count, pool, pc, main>> /\ main = "wait"
      BY <1>2 DEF Wait, progVars
    <2>1. CASE WaitBegins
      BY <1>e, <2>0, <2>1 DEF EndInv, WaitBegins
    <2>2. ASSUME NEW c \in stacks, WaitReturns(c) PROVE EndInv'
      <3>1. stacks' = stacks \ {c} /\ is_finished' = is_finished
        BY <2>2 DEF WaitReturns
      <3>2. is_finished[c]
        BY <2>2 DEF WaitReturns, Finished
      <3>3. pc[c] = "ended"
        BY <1>e, <3>2
      <3> QED BY <1>e, <2>0, <3>1, <3>3 DEF EndInv
    <2> QED BY <1>2, <2>1, <2>2 DEF Wait
  <1>3. CASE MergeAll \/ TakeNone \/ \E j \in 1..Len(names) : Take(j)
    <2>1. UNCHANGED <<stacks, is_finished, coro_count, pool, pc>> /\ main # "create" /\ main' # "create"
      BY <1>3 DEF MergeAll, TakeNone, Take, WaitIsOver, coroVars
    <2> QED BY <1>e, <2>1 DEF EndInv
  <1>4. ASSUME NEW c \in Coroutines, Poll(c) PROVE EndInv'
    <2>1. /\ UNCHANGED <<stacks, is_finished, coro_count, main>> /\ main = "wait" /\ pc[c] = "poll"
          /\ pc' = [pc EXCEPT ![c] = "read"] /\ pool # <<>> /\ c \in stacks
      BY <1>4, <1>i DEF Poll, Executes, coro_yield
    <2> QED BY <1>e, <1>t, <2>1 DEF EndInv
  <1>5. ASSUME NEW c \in Coroutines, End(c) PROVE EndInv'
    <2>1. /\ UNCHANGED <<stacks, coro_count, main, pool>> /\ main = "wait" /\ pc[c] = "poll"
          /\ pc' = [pc EXCEPT ![c] = "ended"] /\ pool = <<>> /\ c \in stacks
          /\ is_finished' = [is_finished EXCEPT ![c] = TRUE]
      BY <1>5, <1>i DEF End, Executes, coro_body_returns
    <2> QED BY <1>e, <1>t, <1>i, <2>1 DEF EndInv
  <1>6. ASSUME NEW c \in Coroutines, Read(c) \/ Fail(c) \/ Write(c) \/ Merge(c) PROVE EndInv'
    <2>1. /\ UNCHANGED <<stacks, is_finished, coro_count, pool>> /\ main = "wait" /\ main' # "create"
          /\ pc[c] \notin {"poll", "ended"} /\ c \in stacks
      <3>1. /\ UNCHANGED coroVars \/ coro_yield
            /\ Executes(c) /\ coro_count' = coro_count /\ pool' = pool
            /\ main' \in {main, "wild", "failed"} /\ pc[c] \in {"read", "write", "sort"}
        <4>1. CASE Read(c)
          BY <4>1 DEF Read
        <4>2. CASE Fail(c)
          BY <4>2 DEF Fail
        <4>3. CASE Write(c)
          BY <4>3 DEF Write
        <4>4. CASE Merge(c)
          BY <4>4 DEF Merge
        <4> QED BY <1>6, <4>1, <4>2, <4>3, <4>4
      <3>2. c # coro_sched
        BY Pointers
      <3>3. UNCHANGED <<stacks, is_finished>>
        BY <3>1 DEF coroVars, coro_yield
      <3> QED BY <1>i, <3>1, <3>2, <3>3 DEF Executes
    <2>2. pc' = pc \/ \E s \in {"poll", "sort", "write"} : pc' = [pc EXCEPT ![c] = s]
      BY <1>6 DEF Read, Fail, Write, Merge
    <2>3. \A d \in Coroutines : pc'[d] = "ended" <=> pc[d] = "ended"
      BY <1>t, <2>1, <2>2
    <2>4. \A d \in Coroutines : d \notin stacks => pc'[d] = pc[d]
      BY <1>t, <2>1, <2>2
    <2>5. \A d \in 1..coro_count : d \in Coroutines
      <3>1. coro_count \in Nat
        BY <1>i, CoroutinesAssumption
      <3> QED BY <1>i, <3>1, CoroutinesAssumption
    <2> QED BY <1>e, <1>i, <2>1, <2>3, <2>4, <2>5 DEF EndInv
  <1>7. CASE UNCHANGED vars
    BY <1>e, <1>7 DEF EndInv, vars, progVars, coroVars
  <1> QED BY <1>1, <1>2, <1>3, <1>4, <1>5, <1>6, <1>7 DEF Next

(* What the work of one depends on. *)
LEMMA WorkStays ==
  ASSUME NEW d \in Coroutines, WorkInv(d), original' = original,
         pc'[d] = pc[d], file_name'[d] = file_name[d], array'[d] = array[d], tmp'[d] = tmp[d],
         m'[d] = m[d], i'[d] = i[d],
         main' = "wait" => main = "wait" \/ pc[d] = "poll"
  PROVE  WorkInv(d)'
  BY DEF WorkInv

LEMMA WorksNext ==
  ASSUME DataInv, EndInv, WorksInv, DiskInv, [Next]_vars
  PROVE  WorksInv'
  <1>t. /\ pc \in [Coroutines -> {"poll", "read", "sort", "write", "ended"}]
        /\ file_name \in [Coroutines -> Files \cup {NULL}]
        /\ m \in [Coroutines -> Nat] /\ i \in [Coroutines -> Nat]
        /\ array \in [Coroutines -> Seq(Nat)] /\ tmp \in [Coroutines -> Seq(Nat)]
        /\ disk \in [Files -> Seq(Nat)] /\ pool \in Seq(Files)
    BY DEF DataInv, TypeOK
  <1>w. \A d \in Coroutines : WorkInv(d)
    BY DEF WorksInv
  <1> SUFFICES ASSUME NEW d \in Coroutines PROVE WorkInv(d)'
    BY DEF WorksInv
  <1>1. CASE Create \/ Wait \/ MergeAll \/ TakeNone \/ (\E j \in 1..Len(names) : Take(j)) \/ UNCHANGED vars
    <2>1. /\ UNCHANGED <<original, pc, file_name, array, tmp, m, i>>
          /\ main' = "wait" => main = "wait" \/ pc[d] = "poll"
      <3>1. CASE Create
        BY <3>1 DEF Create, EndInv
      <3>2. CASE Wait
        BY <3>2 DEF Wait, progVars
      <3>3. CASE MergeAll \/ TakeNone \/ \E j \in 1..Len(names) : Take(j)
        BY <3>3 DEF MergeAll, TakeNone, Take
      <3>4. CASE UNCHANGED vars
        BY <3>4 DEF vars, progVars
      <3> QED BY <1>1, <3>1, <3>2, <3>3, <3>4
    <2> QED BY <1>w, <2>1, WorkStays
  <1>2. ASSUME NEW c \in Coroutines, Poll(c) PROVE WorkInv(d)'
    <2>1. /\ UNCHANGED <<original, array, tmp, m, i, main>> /\ pool # <<>>
          /\ pc' = [pc EXCEPT ![c] = "read"] /\ file_name' = [file_name EXCEPT ![c] = Head(pool)]
      BY <1>2 DEF Poll
    <2>2. CASE d = c
      <3>1. Head(pool) \in Files
        BY <1>t, <2>1
      <3> QED BY <1>t, <2>1, <2>2, <3>1 DEF WorkInv
    <2>3. CASE d # c
      BY <1>t, <1>w, <2>1, <2>3, WorkStays
    <2> QED BY <2>2, <2>3
  <1>3. ASSUME NEW c \in Coroutines, End(c) \/ Fail(c) PROVE WorkInv(d)'
    <2>1. CASE End(c)
      <3>1. /\ UNCHANGED <<original, file_name, array, tmp, m, i, main>>
            /\ pc' = [pc EXCEPT ![c] = "ended"] /\ pc[c] = "poll"
        BY <2>1 DEF End
      <3>2. CASE d = c
        BY <1>t, <1>w, <3>1, <3>2 DEF WorkInv
      <3>3. CASE d # c
        BY <1>t, <1>w, <3>1, <3>3, WorkStays
      <3> QED BY <3>2, <3>3
    <2>2. CASE Fail(c)
      BY <1>w, <2>2, WorkStays DEF Fail
    <2> QED BY <1>3, <2>1, <2>2
  <1>4. ASSUME NEW c \in Coroutines, Read(c) PROVE WorkInv(d)'
    <2> DEFINE a == disk[file_name[c]]
    <2>1. /\ UNCHANGED <<original, file_name>> /\ pc[c] = "read" /\ main = "wait"
          /\ array' = [array EXCEPT ![c] = a] /\ tmp' = [tmp EXCEPT ![c] = a]
          /\ m' = [m EXCEPT ![c] = 1] /\ i' = [i EXCEPT ![c] = 0]
          /\ pc' = [pc EXCEPT ![c] = IF Len(a) = 1 THEN "write" ELSE "sort"]
          /\ main' = IF a = <<>> THEN "wild" ELSE main
      BY <1>4 DEF Read, Executes
    <2>2. CASE d = c
      <3>1. file_name[c] \in Files
        BY <1>w, <2>1 DEF WorkInv
      <3>2. a \in Seq(Nat) /\ Rearranged(original[file_name[c]], a) /\ Len(a) \in Nat
        BY <1>t, <3>1 DEF DiskInv, FilesKept
      <3> HIDE DEF a
      <3>3. /\ file_name'[c] = file_name[c] /\ array'[c] = a /\ tmp'[c] = a
            /\ m'[c] = 1 /\ i'[c] = 0 /\ pc'[c] = IF Len(a) = 1 THEN "write" ELSE "sort"
        BY <1>t, <2>1
      <3>4. Len(a) = 1 => IsSorted(a)
        BY <3>2 DEF IsSorted
      <3>5. ASSUME a # <<>>, Len(a) # 1 PROVE MergedTo(a, 1, 0)
        <4>1. Len(a) > 1
          <5>1. \A s \in Seq(Nat) : Len(s) = 0 => s = <<>>
            OBVIOUS
          <5>2. Len(a) # 0
            BY <3>2, <3>5, <5>1
          <5>3. Len(a) \in Nat
            BY <3>2
          <5>4. \A q \in Nat : q # 0 /\ q # 1 => q > 1
            OBVIOUS
          <5> QED BY <3>5, <5>2, <5>3, <5>4
        <4>2. Multiple(0, 2 * 1) /\ InStretches(a, 1, Len(a)) /\ InStretches(a, 2 * 1, 0)
          <5>1. 2 * 1 = 2 /\ 2 \in Nat
            OBVIOUS
          <5> QED BY <5>1, Multiples, StretchesBegin
        <4> QED BY <3>2, <4>1, <4>2 DEF MergedTo
      <3>6. main' = "wait" => a # <<>>
        BY <2>1
      <3>7. original' = original /\ (pc'[c] = "write" <=> Len(a) = 1) /\ (pc'[c] = "sort" <=> Len(a) # 1)
            /\ pc'[c] \notin {"poll", "ended"}
        BY <2>1, <3>3
      <3> QED BY <2>2, <3>1, <3>2, <3>3, <3>4, <3>5, <3>6, <3>7 DEF WorkInv
    <2>3. CASE d # c
      <3>1. /\ pc'[d] = pc[d] /\ file_name'[d] = file_name[d] /\ array'[d] = array[d]
            /\ tmp'[d] = tmp[d] /\ m'[d] = m[d] /\ i'[d] = i[d]
        <4> HIDE DEF a
        <4> QED BY <1>t, <2>1, <2>3
      <3> QED BY <1>w, <2>1, <3>1, WorkStays
    <2> QED BY <2>2, <2>3
  <1>5. ASSUME NEW c \in Coroutines, Merge(c) PROVE WorkInv(d)'
    <2>1. PICK r \in Seq(Nat) :
           /\ Rearranged(array[c], r)
           /\ array' = [array EXCEPT ![c] = r] /\ tmp' = [tmp EXCEPT ![c] = r]
           /\ m' = [m EXCEPT ![c] = m'[c]] /\ i' = [i EXCEPT ![c] = i'[c]]
           /\ \/ pc' = [pc EXCEPT ![c] = "sort"] /\ MergedTo(r, m'[c], i'[c])
              \/ pc' = [pc EXCEPT ![c] = "write"] /\ IsSorted(r)
           /\ r # <<>>
      BY <1>5, MergeIsTurn
    <2>2. UNCHANGED <<original, file_name, main>> /\ pc[c] = "sort"
      BY <1>5 DEF Merge
    <2>3. CASE d = c
      <3>1. Rearranged(original[file_name[c]], array[c]) /\ file_name[c] \in Files
        BY <1>w, <2>2 DEF WorkInv
      <3>2. Rearranged(original[file_name[c]], r)
        BY <2>1, <3>1, RearrangedAgain
      <3>3. array'[c] = r /\ tmp'[c] = r
        BY <1>t, <2>1
      <3>4. \/ pc'[c] = "sort" /\ MergedTo(r, m'[c], i'[c])
            \/ pc'[c] = "write" /\ IsSorted(r)
        BY <1>t, <2>1
      <3> QED BY <2>1, <2>2, <2>3, <3>1, <3>2, <3>3, <3>4 DEF WorkInv
    <2>4. CASE d # c
      <3>1. /\ pc'[d] = pc[d] /\ file_name'[d] = file_name[d] /\ array'[d] = array[d]
            /\ tmp'[d] = tmp[d] /\ m'[d] = m[d] /\ i'[d] = i[d]
        BY <1>t, <2>1, <2>2, <2>4
      <3> QED BY <1>w, <2>2, <3>1, WorkStays
    <2> QED BY <2>3, <2>4
  <1>6. ASSUME NEW c \in Coroutines, Write(c) PROVE WorkInv(d)'
    <2>1. /\ UNCHANGED <<original, array, tmp, m, i, main>>
          /\ pc' = [pc EXCEPT ![c] = "poll"] /\ file_name' = [file_name EXCEPT ![c] = NULL]
      BY <1>6 DEF Write
    <2>2. CASE d = c
      BY <1>t, <2>1, <2>2 DEF WorkInv
    <2>3. CASE d # c
      BY <1>t, <1>w, <2>1, <2>3, WorkStays
    <2> QED BY <2>2, <2>3
  <1> QED BY <1>1, <1>2, <1>3, <1>4, <1>5, <1>6 DEF Next

(* What the names in use depend on. *)
LEMMA ClaimsStay ==
  ASSUME UNCHANGED <<pool, file_name>>
  PROVE  \A f : Claims(f)' = Claims(f)
  BY DEF Claims

LEMMA DiskNext ==
  ASSUME DataInv, WorksInv, DiskInv, [Next]_vars
  PROVE  DiskInv'
  <1>t. /\ pc \in [Coroutines -> {"poll", "read", "sort", "write", "ended"}]
        /\ file_name \in [Coroutines -> Files \cup {NULL}]
        /\ disk \in [Files -> Seq(Nat)] /\ pool \in Seq(Files) /\ names \in Seq(Files)
    BY DEF DataInv, TypeOK
  <1>d. /\ \A f \in Files : /\ Rearranged(original[f], disk[f])
                            /\ disk[f] = original[f] \/ IsSorted(disk[f])
        /\ \A f \in Files : IF Taken(f) THEN Claims(f) = {} => IsSorted(disk[f])
                            ELSE Claims(f) = {} /\ disk[f] = original[f]
    BY DEF DiskInv, FilesKept, FilesDone
  <1>e. ASSUME argv' = argv PROVE \A f : Taken(f)' = Taken(f)
    BY <1>e DEF Taken, names
  <1>1. CASE UNCHANGED <<argv, original, disk, pool, file_name>>
    BY <1>d, <1>e, <1>1, ClaimsStay DEF DiskInv, FilesKept, FilesDone
  <1>2. ASSUME NEW c \in Coroutines, Poll(c) PROVE DiskInv'
    <2>1. /\ UNCHANGED <<argv, original, disk>> /\ pool # <<>> /\ pc[c] = "poll"
          /\ file_name' = [file_name EXCEPT ![c] = Head(pool)] /\ pool' = Tail(pool)
      BY <1>2 DEF Poll
    <2>2. ASSUME NEW f \in Files, Claims(f)' = {} PROVE Claims(f) = {}
      <3>1. file_name'[c] = Head(pool) /\ file_name[c] = NULL
        BY <1>t, <2>1 DEF WorksInv, WorkInv
      <3>2. \A l \in Coroutines : file_name'[l] # f
        BY <2>2 DEF Claims
      <3>3. \A l \in 1..Len(pool') : pool'[l] # f
        BY <2>2 DEF Claims
      <3>4. ASSUME NEW l \in Coroutines, file_name[l] = f PROVE FALSE
        BY <1>t, <2>1, <3>1, <3>2, <3>4, ConstantsAssumption
      <3>5. ASSUME NEW l \in 1..Len(pool), pool[l] = f PROVE FALSE
        <4>1. CASE l = 1
          <5>1. Head(pool) = pool[1]
            BY <1>t, <2>1
          <5> QED BY <3>1, <3>2, <3>5, <4>1, <5>1
        <4>2. CASE l # 1
          <5> DEFINE q == l - 1
          <5>1. q \in 1..(Len(pool) - 1) /\ q + 1 = l
            BY <4>2
          <5>2. Len(Tail(pool)) = Len(pool) - 1 /\ Tail(pool)[q] = pool[q + 1]
            BY <1>t, <2>1, <5>1
          <5> HIDE DEF q
          <5> QED BY <2>1, <3>3, <3>5, <5>1, <5>2
        <4> QED BY <4>1, <4>2
      <3> QED BY <3>4, <3>5 DEF Claims
    <2>3. ASSUME NEW f \in Files, Claims(f) = {} PROVE Claims(f)' = {}
      <3>1. \A l \in 1..Len(pool) : pool[l] # f
        BY <2>3 DEF Claims
      <3>2. \A l \in Coroutines : file_name[l] # f
        BY <2>3 DEF Claims
      <3>3. Head(pool) # f /\ \A l \in 1..Len(pool') : pool'[l] # f
        <4> DEFINE q == pool
        <4>1. q \in Seq(Files) /\ q # <<>> /\ pool' = Tail(q) /\ \A l \in 1..Len(q) : q[l] # f
          BY <1>t, <2>1, <3>1
        <4> HIDE DEF q
        <4>2. Len(q) \in Nat /\ Len(q) > 0 /\ Head(q) = q[1] /\ Len(Tail(q)) = Len(q) - 1
          BY <4>1
        <4>3. \A l \in 1..(Len(q) - 1) : Tail(q)[l] = q[l + 1] /\ l + 1 \in 1..Len(q)
          BY <4>1, <4>2
        <4> QED BY <4>1, <4>2, <4>3 DEF q
      <3>4. \A l \in Coroutines : file_name'[l] # f
        BY <1>t, <2>1, <3>2, <3>3
      <3> QED BY <3>3, <3>4 DEF Claims
    <2>4. FilesDone'
      BY <1>d, <1>e, <2>1, <2>2, <2>3 DEF FilesDone
    <2> QED BY <1>d, <2>1, <2>4 DEF DiskInv, FilesKept
  <1>3. ASSUME NEW c \in Coroutines, Write(c) PROVE DiskInv'
    <2> DEFINE g == file_name[c]
    <2>1. /\ UNCHANGED <<argv, original, pool>> /\ pc[c] = "write"
          /\ disk' = [disk EXCEPT ![g] = array[c]]
          /\ file_name' = [file_name EXCEPT ![c] = NULL]
      BY <1>3 DEF Write
    <2>2. g \in Files /\ IsSorted(array[c]) /\ Rearranged(original[g], array[c])
      BY <2>1 DEF WorksInv, WorkInv
    <2>3. ASSUME NEW f \in Files
          PROVE  disk'[f] = IF f = g THEN array[c] ELSE disk[f]
      BY <1>t, <2>1
    <2>4. ASSUME NEW f \in Files, f # g, Claims(f)' = {} PROVE Claims(f) = {}
      BY <1>t, <2>1, <2>4 DEF Claims
    <2> HIDE DEF g
    <2>5. ASSUME NEW f \in Files, Claims(f) = {} PROVE Claims(f)' = {} /\ f # g
      <3>1. f # g
        BY <2>5 DEF Claims, g
      <3>2. \A l \in Coroutines : file_name'[l] # f
        BY <1>t, <2>1, <2>5, ConstantsAssumption DEF Claims
      <3> QED BY <2>1, <2>5, <3>1, <3>2 DEF Claims
    <2>6. FilesKept'
      BY <1>d, <2>1, <2>2, <2>3 DEF FilesKept
    <2>7. FilesDone'
      <3>1. ASSUME NEW f \in Files, Taken(f), Claims(f)' = {} PROVE IsSorted(disk'[f])
        BY <1>d, <2>2, <2>3, <2>4, <3>1
      <3>2. ASSUME NEW f \in Files, ~Taken(f) PROVE Claims(f)' = {} /\ disk'[f] = original[f]
        BY <1>d, <2>3, <2>5, <3>2
      <3> QED BY <1>e, <2>1, <3>1, <3>2 DEF FilesDone
    <2> QED BY <2>6, <2>7 DEF DiskInv
  <1>4. CASE Create \/ Wait \/ MergeAll \/ TakeNone \/ (\E j \in 1..Len(names) : Take(j)) \/ UNCHANGED vars
    BY <1>1, <1>4 DEF Create, Wait, progVars, MergeAll, TakeNone, Take, vars
  <1>5. ASSUME NEW c \in Coroutines, End(c) \/ Fail(c) \/ Read(c) \/ Merge(c) PROVE DiskInv'
    BY <1>1, <1>5 DEF End, Fail, Read, Merge
  <1> QED BY <1>2, <1>3, <1>4, <1>5 DEF Next

-------------------------------------------------------------------------------
(* The names in the order of the other pool. *)
LEMMA NamesAre ==
  ASSUME names \in Seq(Files)
  PROVE  /\ Len(names) \in Nat /\ \A j \in 1..Len(names) : /\ Len(names) + 1 - j \in 1..Len(names)
                                                         /\ Pooled[j] = names[Len(names) + 1 - j]
                                                         /\ Pooled[j] \in Files
  <1> DEFINE n == Len(names)
  <1>1. n \in Nat /\ \A j \in 1..n : n + 1 - j \in 1..n
    OBVIOUS
  <1>2. \A j \in 1..n : Pooled[j] = names[n + 1 - j]
    BY DEF Pooled
  <1>3. \A k \in 1..n : names[k] \in Files
    OBVIOUS
  <1> QED BY <1>1, <1>2, <1>3

LEMMA TextsAre ==
  ASSUME DataInv
  PROVE  \A j \in 1..Len(names) : Texts[j] = content(j) /\ content(j) \in Seq(Nat)
  <1>1. \A j \in 1..Len(names) : Pooled[j] \in Files
    BY NamesAre DEF DataInv
  <1>2. \A f \in Files : disk[f] \in Seq(Nat)
    BY DEF DataInv
  <1> QED BY <1>1, <1>2 DEF Texts, content

(* When the scheduler has nobody left, all files are sorted. *)
LEMMA AllAreSorted ==
  ASSUME Inv, DataInv, EndInv, WorksInv, DiskInv, main = "wait", WaitIsOver
  PROVE  \A j \in 1..Len(names) : IsSorted(content(j))
  <1>1. stacks = {}
    BY InvIsEnough DEF NoStrayJump, WaitIsOver
  <1>2. pool = <<>>
    <2>1. 1 \in 1..coro_count /\ 1 \in Coroutines
      BY CoroutinesAssumption DEF Inv, SchedInv
    <2> QED BY <1>1, <2>1 DEF EndInv
  <1>3. \A c \in Coroutines : file_name[c] = NULL
    <2> SUFFICES ASSUME NEW c \in Coroutines PROVE file_name[c] = NULL
      OBVIOUS
    <2>1. pc[c] \in {"poll", "ended"}
      BY <1>1 DEF EndInv
    <2> QED BY <2>1 DEF WorksInv, WorkInv
  <1>4. \A f \in Files : Claims(f) = {}
    BY <1>2, <1>3, ConstantsAssumption DEF Claims
  <1> SUFFICES ASSUME NEW j \in 1..Len(names) PROVE IsSorted(content(j))
    OBVIOUS
  <1> DEFINE k == Len(names) + 1 - j
  <1>5. k \in 1..Len(names) /\ Pooled[j] = names[k] /\ names[k] \in Files
    BY NamesAre DEF DataInv
  <1> HIDE DEF k
  <1>6. Claims(names[k]) = {}
    BY <1>4, <1>5
  <1>7. Taken(names[k])
    BY <1>5 DEF Taken
  <1> QED BY <1>5, <1>6, <1>7 DEF DiskInv, FilesDone, content

LEMMA MergeNext ==
  ASSUME Inv, DataInv, EndInv, WorksInv, DiskInv, MergeInv, [Next]_vars
  PROVE  MergeInv'
  <1> DEFINE n == Len(names)
  <1>n. n \in Nat
    BY DEF DataInv
  <1>t. \A j \in 1..n : Texts[j] = content(j) /\ content(j) \in Seq(Nat)
    BY TextsAre
  <1>m. /\ main \in {"create", "wait", "failed"} => indices = <<>>
        /\ indices = <<>> => merged = <<>>
        /\ main \in {"merge", "written"} \/ indices # <<>> =>
             /\ Halfway(n, Texts, indices, merged)
             /\ \A k \in 1..Len(merged) : merged[k] < IntMax
             /\ main = "written" => \A j \in 1..n : ~More(j)
             /\ main = "wild" => /\ \E j \in 1..n : More(j)
                                 /\ \A j \in 1..n : More(j) => Value(j) >= IntMax
    BY DEF MergeInv
  <1>1. CASE /\ UNCHANGED <<indices, merged>> /\ indices = <<>>
             /\ main' \notin {"merge", "written"}
    BY <1>1, <1>m DEF MergeInv
  <1>2. CASE MergeAll
    <2>1. /\ main = "wait" /\ WaitIsOver /\ main' = "merge" /\ indices' = [j \in 1..n |-> 0]
          /\ UNCHANGED <<argv, disk, merged>> /\ merged = <<>>
      BY <1>2, <1>m DEF MergeAll
    <2>2. \A j \in 1..n : Texts[j] \in Seq(Nat) /\ IsSorted(Texts[j])
      BY <1>t, <2>1, AllAreSorted
    <2>3. Halfway(n, Texts, indices', merged')
      BY <1>n, <2>1, <2>2, HalfwayBegins
    <2>4. Texts' = Texts /\ n' = n
      BY <2>1, NamesStay DEF Texts, content, Pooled
    <2>5. \A k \in 1..Len(merged') : merged'[k] < IntMax
      BY <2>1
    <2> HIDE DEF n
    <2> QED BY <2>1, <2>3, <2>4, <2>5 DEF MergeInv, n
  <1>3. ASSUME NEW j \in 1..n, Take(j) PROVE MergeInv'
    <2>1. /\ main = "merge" /\ main' = main /\ More(j) /\ Value(j) < IntMax
          /\ \A k \in 1..n : More(k) => Value(j) <= Value(k)
          /\ merged' = Append(merged, Value(j)) /\ indices' = [indices EXCEPT ![j] = @ + 1]
          /\ UNCHANGED <<argv, disk>>
      BY <1>3 DEF Take, Takes
    <2>2. Halfway(n, Texts, indices, merged)
      BY <1>m, <2>1
    <2>3. /\ \A k \in 1..n : Texts[k] \in Seq(Nat)
          /\ indices[j] < Len(Texts[j])
          /\ \A k \in 1..n : indices[k] < Len(Texts[k]) => Texts[j][indices[j] + 1] <= Texts[k][indices[k] + 1]
          /\ merged' = Append(merged, Texts[j][indices[j] + 1])
      BY <1>t, <2>1 DEF More, Value
    <2> DEFINE d == Texts
               at == indices
               out == merged
    <2> HIDE DEF n, d, at, out
    <2>4. Halfway(n, d, [at EXCEPT ![j] = @ + 1], Append(out, d[j][at[j] + 1]))
      <3>1. /\ n \in Nat /\ \A k \in 1..n : d[k] \in Seq(Nat)
            /\ Halfway(n, d, at, out) /\ at[j] < Len(d[j])
            /\ \A k \in 1..n : at[k] < Len(d[k]) => d[j][at[j] + 1] <= d[k][at[k] + 1]
        BY <1>n, <2>2, <2>3 DEF d, at, out
      <3> QED BY <3>1, HalfwayGoesOn
    <2>5. Halfway(n, Texts, indices', merged')
      BY <2>1, <2>3, <2>4 DEF d, at, out
    <2>6. Texts' = Texts /\ n' = n
      BY <2>1, NamesStay DEF Texts, content, Pooled, n
    <2>7. indices' # <<>>
      <3>1. j \in DOMAIN indices'
        BY <1>n, <2>5 DEF Halfway
      <3>2. DOMAIN <<>> = {}
        OBVIOUS
      <3> QED BY <3>1, <3>2
    <2>8. \A k \in 1..Len(merged') : merged'[k] < IntMax
      <3>1. merged \in Seq(Nat) /\ \A k \in 1..Len(merged) : merged[k] < IntMax
        BY <1>m, <2>1 DEF Halfway
      <3> DEFINE v == Value(j)
      <3>2. merged' = Append(merged, v) /\ v < IntMax
        BY <2>1
      <3> HIDE DEF v
      <3>3. Len(merged') = Len(merged) + 1 /\ merged'[Len(merged) + 1] = v
            /\ \A k \in 1..Len(merged) : merged'[k] = merged[k]
        BY <3>1, <3>2
      <3> QED BY <3>1, <3>2, <3>3
    <2> QED BY <2>1, <2>5, <2>6, <2>7, <2>8 DEF MergeInv, n
  <1>4. CASE TakeNone
    <2>1. /\ main = "merge" /\ ~ \E j \in 1..n : Takes(j)
          /\ main' = IF \E j \in 1..n : More(j) THEN "wild" ELSE "written"
          /\ UNCHANGED <<argv, disk, indices, merged>>
      BY <1>4 DEF TakeNone
    <2>2. /\ Halfway(n, Texts, indices, merged) /\ \A k \in 1..Len(merged) : merged[k] < IntMax
          /\ indices = <<>> => merged = <<>>
      BY <1>m, <2>1
    <2>3. \A j \in 1..n : More(j) => Value(j) >= IntMax
      <3> SUFFICES ASSUME NEW j \in 1..n, More(j), ~(Value(j) >= IntMax) PROVE FALSE
        OBVIOUS
      <3> DEFINE d == Texts
                 at == indices
      <3>1. /\ n \in Nat /\ (\A k \in 1..n : d[k] \in Seq(Nat)) /\ at \in [1..n -> Nat]
            /\ IntMax \in Nat /\ at[j] < Len(d[j])
        BY <1>n, <1>t, <2>2, ConstantsAssumption DEF Halfway, More
      <3>2. d[j][at[j] + 1] < IntMax
        <4>1. d[j][at[j] + 1] \in Nat
          BY <3>1, NumberAt
        <4> QED BY <1>t, <3>1, <4>1 DEF Value
      <3> HIDE DEF n, d, at
      <3>3. PICK u \in 1..n :
              /\ at[u] < Len(d[u]) /\ d[u][at[u] + 1] < IntMax
              /\ \A k \in 1..n : at[k] < Len(d[k]) => d[u][at[u] + 1] <= d[k][at[k] + 1]
              /\ \A k \in 1..(u - 1) : at[k] < Len(d[k]) => d[u][at[u] + 1] < d[k][at[k] + 1]
        BY <3>1, <3>2, FirstOfLeast
      <3>4. \A k \in 1..(u - 1) : k \in 1..n
        BY <1>n
      <3>5. \A k \in 1..n : (More(k) <=> at[k] < Len(d[k])) /\ Value(k) = d[k][at[k] + 1]
        BY <1>t DEF d, at, More, Value
      <3>6. Takes(u)
        BY <3>3, <3>4, <3>5 DEF Takes, n
      <3> QED BY <2>1, <3>6
    <2>4. Texts' = Texts /\ n' = n /\ \A j : (More(j)' <=> More(j)) /\ Value(j)' = Value(j)
      BY <2>1, NamesStay DEF Texts, content, Pooled, More, Value
    <2> HIDE DEF n
    <2>5. MergeInv'
      <3>1. CASE \E j \in 1..n : More(j)
        BY <2>1, <2>2, <2>3, <2>4, <3>1 DEF MergeInv, n
      <3>2. CASE ~ \E j \in 1..n : More(j)
        BY <2>1, <2>2, <2>3, <2>4, <3>2 DEF MergeInv, n
      <3> QED BY <3>1, <3>2
    <2> QED BY <2>5
  <1>5. CASE Create \/ Wait
    <2>1. UNCHANGED <<indices, merged>> /\ indices = <<>> /\ main' \notin {"merge", "written"}
      BY <1>5, <1>m DEF Create, Wait, progVars
    <2> QED BY <1>1, <2>1
  <1>6. ASSUME NEW c \in Coroutines,
               Poll(c) \/ End(c) \/ Read(c) \/ Fail(c) \/ Merge(c) \/ Write(c)
        PROVE  MergeInv'
    <2>1. UNCHANGED <<indices, merged>> /\ indices = <<>> /\ main' \notin {"merge", "written"}
      BY <1>6, <1>m DEF Poll, End, Read, Fail, Merge, Write, Executes
    <2> QED BY <1>1, <2>1
  <1>7. CASE UNCHANGED vars
    BY <1>m, <1>7, NamesStay DEF MergeInv, vars, progVars, Texts, content, Pooled, More, Value
  <1> QED BY <1>2, <1>3, <1>4, <1>5, <1>6, <1>7 DEF Next

-------------------------------------------------------------------------------
(* What the runs check follows. *)
LEMMA ProgIsSafe == ProgInv => FilesAreSafe
  <1> SUFFICES ASSUME ProgInv PROVE FilesAreSafe
    OBVIOUS
  <1>1. TypeOK
    BY DEF ProgInv, DataInv
  <1>2. ASSUME NEW f \in Files PROVE disk[f] = original[f] \/ SortedInto(original[f], disk[f])
    <2>1. CASE IsSorted(disk[f])
      <3>1. Rearranged(original[f], disk[f]) /\ original[f] \in Seq(Nat)
        BY DEF ProgInv, DataInv, DiskInv, FilesKept
      <3>2. \A k \in 1..Len(original[f]) : original[f][k] \in Nat
        BY <3>1
      <3> QED BY <2>1, <3>1, <3>2 DEF SortedInto, Rearranged
    <2> QED BY <2>1 DEF ProgInv, DiskInv, FilesKept
  <1>3. \A f \in Files : IF Taken(f) THEN Claims(f) = {} => IsSorted(disk[f])
                         ELSE disk[f] = original[f]
    BY DEF ProgInv, DiskInv, FilesDone
  <1>4. \A c \in Coroutines : pc[c] \in {"sort", "write"} => tmp[c] = array[c]
    BY DEF ProgInv, WorksInv, WorkInv
  <1> QED BY <1>1, <1>2, <1>3, <1>4 DEF FilesAreSafe

(* The numbers of the files that are merged are those of the names. *)
Originals == [j \in 1..Len(names) |-> original[names[j]]]
OriginalLengths == Lengths(Len(names), Originals)

LEMMA CountIsPlaces ==
  ASSUME NEW x
  PROVE  CountInFiles(x) = Cardinality(Places(Len(names), Originals, OriginalLengths, x))
  <1> DEFINE F(j) == {j} \X {k \in 1..Len(original[names[j]]) : original[names[j]][k] = x}
             G(j) == {j} \X {k \in 1..OriginalLengths[j] : Originals[j][k] = x}
  <1>1. \A j \in 1..Len(names) : F(j) = G(j)
    BY DEF Originals, OriginalLengths, Lengths
  <1>2. {F(j) : j \in 1..Len(names)} = {G(j) : j \in 1..Len(names)}
    <2> HIDE DEF F, G
    <2> QED BY <1>1
  <1> QED BY <1>2 DEF CountInFiles, Places

LEMMA NumbersOfNames ==
  ASSUME ProgInv, NEW x \in Nat
  PROVE  Cardinality(Places(Len(names), Texts, Lengths(Len(names), Texts), x)) = CountInFiles(x)
  <1> DEFINE n == Len(names)
             g == [j \in 1..n |-> n + 1 - j]
             d == Texts
             e == Originals
  <1>1. n \in Nat /\ \A j \in 1..n : /\ n + 1 - j \in 1..n
                                     /\ Pooled[j] = names[n + 1 - j] /\ names[n + 1 - j] \in Files
    BY NamesAre DEF ProgInv, DataInv
  <1>2. g \in Bijection(1..n, 1..n)
    <2>1. g \in [1..n -> 1..n]
      BY <1>1
    <2>2. \A j, k \in 1..n : g[j] = g[k] => j = k
      BY <1>1
    <2>3. \A k \in 1..n : \E j \in 1..n : g[j] = k
      <3> SUFFICES ASSUME NEW k \in 1..n PROVE \E j \in 1..n : g[j] = k
        OBVIOUS
      <3>1. n + 1 - k \in 1..n /\ n + 1 - (n + 1 - k) = k
        BY <1>1
      <3>2. g[n + 1 - k] = k
        BY <3>1
      <3> QED BY <3>1, <3>2
    <2> HIDE DEF g
    <2> QED BY <2>1, <2>2, <2>3, Fun_IsBij
  <1>3. ASSUME NEW j \in 1..n
        PROVE  d[j] \in Seq(Nat) /\ e[j] \in Seq(Nat) /\ Rearranged(e[g[j]], d[j])
    <2> DEFINE k == n + 1 - j
    <2>1. k \in 1..n /\ Pooled[j] = names[k] /\ names[k] \in Files /\ g[j] = k
      BY <1>1
    <2> HIDE DEF k, g
    <2>2. d[j] = disk[names[k]] /\ d[j] \in Seq(Nat)
      BY <2>1, TextsAre DEF ProgInv, content
    <2>3. e[k] = original[names[k]] /\ e[j] = original[names[j]] /\ names[j] \in Files
      BY <2>1 DEF Originals, ProgInv, DataInv
    <2>4. e[j] \in Seq(Nat)
      BY <2>3 DEF ProgInv, DataInv
    <2>5. Rearranged(e[k], d[j])
      BY <2>1, <2>2, <2>3 DEF ProgInv, DiskInv, FilesKept
    <2> QED BY <2>1, <2>2, <2>4, <2>5
  <1> HIDE DEF g, d, e, n
  <1>4. Cardinality(Places(n, d, Lengths(n, d), x))
          = Cardinality(Places(n, e, Lengths(n, e), x))
    <2>1. n \in Nat
      BY <1>1
    <2>2. \A j \in 1..n : d[j] \in Seq(Nat) /\ e[j] \in Seq(Nat)
      BY <1>3
    <2>3. \A j \in 1..n : Rearranged(e[g[j]], d[j])
      BY <1>3
    <2> QED BY <1>2, <2>1, <2>2, <2>3, SameInAll, ZenonT(30)
  <1>5. Lengths(n, e) = OriginalLengths
    BY DEF OriginalLengths, e, n
  <1> QED BY <1>4, <1>5, CountIsPlaces DEF n, d, e

LEMMA ProgIsRight == ProgInv => ResultIsRight
  <1> SUFFICES ASSUME ProgInv PROVE ResultIsRight
    OBVIOUS
  <1> DEFINE n == Len(names)
  <1>1. n \in Nat /\ \A j \in 1..n : Texts[j] = content(j) /\ content(j) \in Seq(Nat)
    BY TextsAre DEF ProgInv, DataInv
  <1>2. IntMax \in Nat
    BY ConstantsAssumption
  <1>m. /\ indices = <<>> => merged = <<>>
        /\ main \in {"merge", "written"} \/ indices # <<>> =>
             /\ Halfway(n, Texts, indices, merged)
             /\ \A k \in 1..Len(merged) : merged[k] < IntMax
             /\ main = "written" => \A j \in 1..n : ~More(j)
             /\ main = "wild" => /\ \E j \in 1..n : More(j)
                                 /\ \A j \in 1..n : More(j) => Value(j) >= IntMax
    BY DEF ProgInv, MergeInv
  <1>3. IsSorted(merged)
    <2>1. CASE indices = <<>>
      BY <1>m, <2>1 DEF IsSorted
    <2>2. CASE indices # <<>>
      BY <1>m, <2>2 DEF Halfway
    <2> QED BY <2>1, <2>2
  <1>4. ASSUME Halfway(n, Texts, indices, merged), NEW x \in Nat,
               \A j \in 1..n : More(j) => Value(j) > x
        PROVE  Count(x, merged) = CountInFiles(x)
    <2>1. AllAbove(n, Texts, indices, x)
      BY <1>1, <1>4 DEF More, Value, AllAbove
    <2>2. \A j \in 1..n : Texts[j] \in Seq(Nat)
      BY <1>1
    <2> HIDE DEF n
    <2>3. Count(x, merged) = Cardinality(Places(n, Texts, Lengths(n, Texts), x))
      <3>1. n \in Nat /\ Halfway(n, Texts, indices, merged)
        BY <1>1, <1>4
      <3> QED BY <2>1, <2>2, <3>1, HalfwayBelow
    <2> QED BY <2>3, NumbersOfNames DEF n
  <1>5. main = "written" => \A x \in 0..IntMax : Count(x, merged) = CountInFiles(x)
    <2> SUFFICES ASSUME main = "written", NEW x \in 0..IntMax PROVE Count(x, merged) = CountInFiles(x)
      OBVIOUS
    <2>1. Halfway(n, Texts, indices, merged) /\ \A j \in 1..n : ~More(j)
      BY <1>m
    <2> QED BY <1>2, <1>4, <2>1
  <1>7. ASSUME main = "written" PROVE CountInFiles(IntMax) = 0
    <2>1. merged \in Seq(Nat) /\ \A k \in 1..Len(merged) : merged[k] < IntMax
      BY <1>7, <1>m DEF Halfway
    <2>2. {k \in 1..Len(merged) : merged[k] = IntMax} = {}
      BY <1>2, <2>1
    <2>3. Count(IntMax, merged) = 0
      BY <2>2, FS_EmptySet DEF Count
    <2> QED BY <1>2, <1>5, <1>7, <2>3
  <1>6. ASSUME main = "wild", indices # <<>>
        PROVE  CountInFiles(IntMax) > 0 /\ \A x \in 0..(IntMax - 1) : Count(x, merged) = CountInFiles(x)
    <2>1. /\ Halfway(n, Texts, indices, merged) /\ \E j \in 1..n : More(j)
          /\ \A j \in 1..n : More(j) => Value(j) >= IntMax
      BY <1>6, <1>m
    <2>2. indices \in [1..n -> Nat]
      BY <2>1 DEF Halfway
    <2>3. \A j \in 1..n : More(j) => Value(j) \in Nat
      <3> SUFFICES ASSUME NEW j \in 1..n, More(j) PROVE Value(j) \in Nat
        OBVIOUS
      <3> DEFINE a == content(j)
      <3>1. a \in Seq(Nat) /\ indices[j] \in Nat /\ indices[j] < Len(a)
        BY <1>1, <2>2 DEF More
      <3> HIDE DEF a
      <3>2. a[indices[j] + 1] \in Nat
        BY <3>1, NumberAt
      <3> QED BY <3>2 DEF a, Value
    <2>4. ASSUME NEW x \in 0..(IntMax - 1) PROVE Count(x, merged) = CountInFiles(x)
      <3>1. x \in Nat /\ \A j \in 1..n : More(j) => Value(j) > x
        BY <1>2, <2>1, <2>3
      <3> QED BY <1>4, <2>1, <3>1
    <2>5. CountInFiles(IntMax) > 0
      <3>1. PICK j \in 1..n : More(j)
        BY <2>1
      <3> DEFINE k == n + 1 - j
                 a == content(j)
                 b == original[names[k]]
                 v == Value(j)
      <3>2. k \in 1..n /\ Pooled[j] = names[k] /\ names[k] \in Files
        BY NamesAre DEF ProgInv, DataInv
      <3> HIDE DEF k
      <3>3. a \in Seq(Nat) /\ b \in Seq(Nat) /\ Rearranged(b, a)
            /\ \A p \in 1..Len(b) : b[p] <= IntMax
        BY <1>1, <3>2 DEF ProgInv, DataInv, DiskInv, FilesKept, content
      <3>4. v \in Nat /\ v >= IntMax /\ v = a[indices[j] + 1] /\ indices[j] + 1 \in 1..Len(a)
        <4>1. indices[j] \in Nat /\ indices[j] < Len(a) /\ v = a[indices[j] + 1]
          BY <2>2, <3>1 DEF Value, More
        <4>2. v \in Nat /\ v >= IntMax
          BY <2>1, <2>3, <3>1
        <4>3. Len(a) \in Nat
          BY <3>3
        <4> HIDE DEF a, v
        <4> QED BY <4>1, <4>2, <4>3
      <3> HIDE DEF a, b, v, n
      <3>5. Count(v, a) > 0 /\ Count(v, b) = Count(v, a)
        BY <3>3, <3>4, NumbersOccur DEF Rearranged
      <3>6. PICK p \in 1..Len(b) : b[p] = v
        BY <3>3, <3>5, NumbersOccur
      <3>7. v = IntMax
        BY <1>2, <3>3, <3>4, <3>6, SMTT(30)
      <3> DEFINE P == Places(n, Originals, OriginalLengths, IntMax)
      <3>8. OriginalLengths \in [1..n -> Nat] /\ Originals[k] = b /\ OriginalLengths[k] = Len(b)
        <4>1. \A q \in 1..n : Originals[q] = original[names[q]] /\ names[q] \in Files
          BY DEF Originals, ProgInv, DataInv, n
        <4>2. \A q \in 1..n : Len(Originals[q]) \in Nat
          BY <4>1 DEF ProgInv, DataInv
        <4> QED BY <3>2, <4>1, <4>2 DEF OriginalLengths, Lengths, n, b
      <3>9. <<k, p>> \in P
        <4>1. IsPlace(<<k, p>>, n, Originals, OriginalLengths, IntMax)
          BY <3>2, <3>6, <3>7, <3>8 DEF IsPlace
        <4> QED BY <1>1, <3>8, <4>1, PlacesAre
      <3>10. IsFiniteSet(P)
        BY <1>1, <3>8, PlacesAre
      <3> HIDE DEF P
      <3>11. Cardinality(P) \in Nat /\ Cardinality(P) # 0
        BY <3>9, <3>10, FS_CardinalityType, FS_EmptySet
      <3>12. CountInFiles(IntMax) = Cardinality(P)
        BY CountIsPlaces DEF P, n
      <3> QED BY <3>11, <3>12
    <2> QED BY <2>4, <2>5
  <1> QED BY <1>3, <1>5, <1>6, <1>7 DEF ResultIsRight

LEMMA ProgNext == Inv /\ ProgInv /\ [Next]_vars => ProgInv'
  <1> SUFFICES ASSUME Inv, ProgInv, [Next]_vars PROVE ProgInv'
    OBVIOUS
  <1>1. DataInv /\ EndInv /\ WorksInv /\ DiskInv /\ MergeInv
    BY DEF ProgInv
  <1>2. DataInv'
    BY <1>1, DataNext
  <1>3. EndInv'
    BY <1>1, EndNext
  <1>4. WorksInv'
    BY <1>1, WorksNext
  <1>5. DiskInv'
    BY <1>1, DiskNext
  <1>6. MergeInv'
    BY <1>1, MergeNext
  <1> QED BY <1>2, <1>3, <1>4, <1>5, <1>6 DEF ProgInv

(* For any number of coroutines, names and files, of any contents and lengths,  *)
(* and wherever a coroutine yields: a file holds its numbers as they were or   *)
(* sorted; those of a name that main takes are sorted when nobody has it, and  *)
(* those that only the last name means stay as they were; a merge finds tmp    *)
(* as a copy of the array.                                                    *)
THEOREM FilesStaySafe == Spec => []FilesAreSafe
  <1>1. Init => Inv /\ ProgInv
    BY InvInit, ProgInit
  <1>2. Inv /\ ProgInv /\ [Next]_vars => Inv' /\ ProgInv'
    BY InvNext, ProgNext
  <1>3. ProgInv => FilesAreSafe
    BY ProgIsSafe
  <1> QED BY <1>1, <1>2, <1>3, PTL DEF Spec

(* For any of them, too: what main merges is sorted; it is written exactly when *)
(* no file of a name but the last holds INT_MAX, and has all of their numbers  *)
(* then, else the merge goes astray when all smaller ones are in.              *)
THEOREM MergedIsRight == Spec => []ResultIsRight
  <1>1. Init => Inv /\ ProgInv
    BY InvInit, ProgInit
  <1>2. Inv /\ ProgInv /\ [Next]_vars => Inv' /\ ProgInv'
    BY InvNext, ProgNext
  <1>3. ProgInv => ResultIsRight
    BY ProgIsRight
  <1> QED BY <1>1, <1>2, <1>3, PTL DEF Spec
===============================================================================
