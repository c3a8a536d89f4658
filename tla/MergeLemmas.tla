----------------------------- MODULE MergeLemmas -----------------------------
(***************************************************************************)
(* What the two merge sorts of 1/ have in common: what the merge of two     *)
(* stretches of an array makes of it, and what has been merged of several   *)
(* arrays when a cursor stands in each.  Both programs fill a buffer from   *)
(* two cursors, and both mains take the least of what the cursors show.     *)
(***************************************************************************)
EXTENDS SortedNumbers, Integers, FiniteSetTheorems, FunctionTheorems, WellFoundedInduction, TLAPS

(* The smallest natural number of a set. *)
LEMMA Least ==
  ASSUME NEW S \in SUBSET Nat, S # {}
  PROVE  \E m \in S : \A k \in S : m <= k
  <1>1. PICK m \in S : \A k \in S : ~(<<k, m>> \in OpToRel(<, Nat))
    BY NatLessThanWellFounded, WFMin
  <1>2. \A k \in S : ~(k < m)
    BY <1>1 DEF OpToRel
  <1> QED BY <1>2

-------------------------------------------------------------------------------
(* Numbers in order, and the same numbers in another order. *)

Rearranged(a, b) == Len(b) = Len(a) /\ \A x \in Nat : Count(x, b) = Count(x, a)

(* Of a stretch whose neighbours are in order any two are. *)
LEMMA NeighboursInOrder ==
  ASSUME NEW a, NEW lo \in Nat, NEW hi \in Nat, \A p \in (lo + 1)..hi : a[p] \in Nat,
         \A p \in (lo + 1)..(hi - 1) : a[p] <= a[p + 1],
         NEW j \in (lo + 1)..hi, NEW k \in (lo + 1)..hi, j <= k
  PROVE  a[j] <= a[k]
  <1> SUFFICES ASSUME ~(a[j] <= a[k]) PROVE FALSE
    OBVIOUS
  <1> DEFINE S == {l \in j..k : ~(a[j] <= a[l])}
  <1>1. S \in SUBSET Nat /\ k \in S
    OBVIOUS
  <1>2. PICK l \in S : \A q \in S : l <= q
    BY <1>1, Least
  <1>3. l \in j..k /\ ~(a[j] <= a[l])
    BY <1>2
  <1>4. l # j
    BY <1>3
  <1>5. l - 1 \in j..k /\ l - 1 \notin S
    BY <1>2, <1>3, <1>4
  <1>6. a[j] <= a[l - 1]
    BY <1>5
  <1>7. l - 1 \in (lo + 1)..(hi - 1) /\ (l - 1) + 1 = l /\ l \in (lo + 1)..hi /\ l - 1 \in (lo + 1)..hi
    BY <1>3, <1>4
  <1>8. a[l - 1] <= a[l] /\ a[j] \in Nat /\ a[l - 1] \in Nat /\ a[l] \in Nat
    BY <1>7
  <1> QED BY <1>3, <1>6, <1>8

(* A sequence filled from all places of another one holds the same numbers. *)
LEMMA FilledFromAll ==
  ASSUME NEW a \in Seq(Nat), NEW b \in Seq(Nat), Len(b) = Len(a),
         NEW from \in [1..Len(a) -> 1..Len(a)],
         \A k, l \in 1..Len(a) : from[k] = from[l] => k = l,
         \A k \in 1..Len(a) : b[k] = a[from[k]]
  PROVE  Rearranged(a, b)
  <1> DEFINE n == Len(a)
  <1>0. n \in Nat
    OBVIOUS
  <1>1. from \in Surjection(1..n, 1..n)
    <2>1. from \in Injection(1..n, 1..n)
      BY Fun_IsInj
    <2>2. IsFiniteSet(1..n)
      BY <1>0, FS_Interval
    <2> QED BY <2>1, <2>2, FS_Injection
  <1>s. \A t \in 1..n : \E k \in 1..n : from[k] = t
    BY <1>1 DEF Surjection
  <1> SUFFICES ASSUME NEW x \in Nat PROVE Count(x, b) = Count(x, a)
    BY DEF Rearranged
  <1> DEFINE S == {k \in 1..n : b[k] = x}
             T == {k \in 1..n : a[k] = x}
             f == [k \in S |-> from[k]]
  <1>2. f \in [S -> T]
    OBVIOUS
  <1>3. \A k, l \in S : f[k] = f[l] => k = l
    OBVIOUS
  <1>4. \A t \in T : \E s \in S : f[s] = t
    <2> SUFFICES ASSUME NEW t \in T PROVE \E s \in S : f[s] = t
      OBVIOUS
    <2>1. PICK s \in 1..n : from[s] = t
      BY <1>s
    <2> QED BY <2>1
  <1>5. f \in Bijection(S, T)
    BY <1>2, <1>3, <1>4, Fun_IsBij
  <1>6. ExistsBijection(S, T)
    BY <1>5, Fun_ExistsBij
  <1>7. IsFiniteSet(S)
    <2>1. IsFiniteSet(1..n) /\ S \in SUBSET (1..n)
      BY FS_Interval
    <2> QED BY <2>1, FS_Subset
  <1>8. Cardinality(T) = Cardinality(S)
    BY <1>6, <1>7, FS_Bijection
  <1> QED BY <1>8 DEF Count

-------------------------------------------------------------------------------
(* The merge of two stretches a[lo + 1..mi] and a[mi + 1..hi]: cur[k] is where *)
(* the cursor of the first is when k places are filled.                        *)
Left(a, l, k, mi, hi) == l < mi /\ (mi + k - l >= hi \/ a[l + 1] < a[mi + k - l + 1])

IsCursor(cur, a, lo, mi, hi) ==
  /\ cur[lo] = lo
  /\ \A k \in (lo + 1)..hi :
       cur[k] = IF Left(a, cur[k - 1], k - 1, mi, hi) THEN cur[k - 1] + 1 ELSE cur[k - 1]

Source(cur, k, mi) == IF cur[k] > cur[k - 1] THEN cur[k] ELSE mi + k - cur[k]

IsMerge(r, a, lo, mi, hi) ==
  /\ r \in Seq(Nat) /\ Len(r) = Len(a)
  /\ \A k \in 1..Len(a) : k \notin (lo + 1)..hi => r[k] = a[k]
  /\ \E cur \in [lo..hi -> Nat] :
       IsCursor(cur, a, lo, mi, hi) /\ \A k \in (lo + 1)..hi : r[k] = a[Source(cur, k, mi)]

LEMMA CursorBounds ==
  ASSUME NEW a, NEW lo \in Nat, NEW mi \in Nat, NEW hi \in Nat, lo <= mi, mi <= hi,
         NEW cur \in [lo..hi -> Nat], IsCursor(cur, a, lo, mi, hi), NEW n \in lo..hi
  PROVE  cur[n] \in lo..mi /\ mi + n - cur[n] \in mi..hi
  <1> DEFINE Fine(k) == cur[k] \in lo..mi /\ mi + k - cur[k] \in mi..hi
             S == {k \in lo..hi : ~Fine(k)}
  <1> SUFFICES ASSUME ~Fine(n) PROVE FALSE
    OBVIOUS
  <1> HIDE DEF Fine
  <1>1. S \in SUBSET Nat /\ S # {}
    OBVIOUS
  <1>2. PICK k \in S : \A q \in S : k <= q
    BY <1>1, Least
  <1>3. k \in lo..hi /\ ~Fine(k)
    BY <1>2
  <1>4. k # lo
    BY <1>3 DEF IsCursor, Fine
  <1>5. k - 1 \in lo..hi /\ k - 1 \notin S /\ k \in (lo + 1)..hi
    BY <1>2, <1>3, <1>4
  <1>6. Fine(k - 1)
    BY <1>5
  <1>7. cur[k] = IF Left(a, cur[k - 1], k - 1, mi, hi) THEN cur[k - 1] + 1 ELSE cur[k - 1]
    BY <1>5 DEF IsCursor
  <1>8. cur[k - 1] \in lo..mi /\ mi + (k - 1) - cur[k - 1] \in mi..hi /\ k \in Nat /\ k <= hi
    BY <1>5, <1>6 DEF Fine
  <1>9. CASE Left(a, cur[k - 1], k - 1, mi, hi)
    <2> DEFINE b == cur[k - 1]
    <2>1. b < mi /\ cur[k] = b + 1
      BY <1>7, <1>9 DEF Left
    <2>2. b \in Nat /\ lo <= b /\ k - 1 - b >= 0 /\ mi + (k - 1) - b <= hi /\ mi <= mi + (k - 1) - b
      BY <1>8, SMTT(30)
    <2> HIDE DEF b
    <2>3. b + 1 \in lo..mi /\ mi + k - (b + 1) \in mi..hi
      BY <1>8, <2>1, <2>2
    <2> QED BY <1>3, <2>1, <2>3 DEF Fine
  <1>10. CASE ~Left(a, cur[k - 1], k - 1, mi, hi)
    <2>1. cur[k] = cur[k - 1]
      BY <1>7, <1>10
    <2>2. cur[k - 1] = mi \/ ~(mi + (k - 1) - cur[k - 1] >= hi)
      BY <1>8, <1>10 DEF Left
    <2> QED BY <1>3, <1>8, <2>1, <2>2, SMTT(30) DEF Fine
  <1> QED BY <1>9, <1>10

(* Neither cursor goes back. *)
LEMMA CursorsMoveOn ==
  ASSUME NEW a, NEW lo \in Nat, NEW mi \in Nat, NEW hi \in Nat, lo <= mi, mi <= hi,
         NEW cur \in [lo..hi -> Nat], IsCursor(cur, a, lo, mi, hi),
         NEW j \in lo..hi, NEW n \in lo..hi, j <= n
  PROVE  cur[j] <= cur[n] /\ j - cur[j] <= n - cur[n]
  <1> DEFINE Fine(k) == cur[j] <= cur[k] /\ j - cur[j] <= k - cur[k]
             S == {k \in j..hi : ~Fine(k)}
  <1> SUFFICES ASSUME ~Fine(n) PROVE FALSE
    OBVIOUS
  <1> HIDE DEF Fine
  <1>1. S \in SUBSET Nat /\ S # {}
    BY SMTT(30)
  <1>2. PICK k \in S : \A q \in S : k <= q
    BY <1>1, Least
  <1>3. k \in j..hi /\ ~Fine(k)
    BY <1>2
  <1>4. k # j
    BY <1>3 DEF Fine
  <1>5. k - 1 \in j..hi /\ k - 1 \notin S /\ k \in (lo + 1)..hi
    BY <1>2, <1>3, <1>4
  <1>6. Fine(k - 1)
    BY <1>5
  <1>7. cur[k] = cur[k - 1] + 1 \/ cur[k] = cur[k - 1]
    BY <1>5 DEF IsCursor
  <1>8. cur[k] \in Nat /\ cur[k - 1] \in Nat /\ cur[j] \in Nat /\ k \in Nat /\ j \in Nat
    BY <1>3, <1>5
  <1>9. cur[j] <= cur[k - 1] /\ j - cur[j] <= (k - 1) - cur[k - 1]
    BY <1>6 DEF Fine
  <1>10. cur[j] <= cur[k] /\ j - cur[j] <= k - cur[k]
    <2> DEFINE x == cur[k]
               y == cur[k - 1]
               z == cur[j]
    <2>1. /\ x \in Nat /\ y \in Nat /\ z \in Nat /\ k \in Nat /\ j \in Nat
          /\ x = y + 1 \/ x = y
          /\ z <= y /\ j - z <= (k - 1) - y
      BY <1>7, <1>8, <1>9
    <2> HIDE DEF x, y, z
    <2>2. z <= x /\ j - z <= k - x
      BY <2>1
    <2> QED BY <2>2 DEF x, z
  <1> QED BY <1>3, <1>10 DEF Fine

LEMMA SourceIs ==
  ASSUME NEW a, NEW lo \in Nat, NEW mi \in Nat, NEW hi \in Nat, lo <= mi, mi <= hi,
         NEW cur \in [lo..hi -> Nat], IsCursor(cur, a, lo, mi, hi),
         NEW k \in (lo + 1)..hi
  PROVE  \/ /\ Left(a, cur[k - 1], k - 1, mi, hi)
            /\ cur[k] = cur[k - 1] + 1 /\ Source(cur, k, mi) = cur[k] /\ cur[k] \in (lo + 1)..mi
         \/ /\ ~Left(a, cur[k - 1], k - 1, mi, hi)
            /\ cur[k] = cur[k - 1] /\ Source(cur, k, mi) = mi + k - cur[k]
            /\ mi + k - cur[k] \in (mi + 1)..hi
  <1>1. k \in lo..hi /\ k - 1 \in lo..hi
    OBVIOUS
  <1>2. /\ cur[k] \in lo..mi /\ mi + k - cur[k] \in mi..hi
        /\ cur[k - 1] \in lo..mi /\ mi + (k - 1) - cur[k - 1] \in mi..hi
    BY <1>1, CursorBounds
  <1>3. cur[k] = IF Left(a, cur[k - 1], k - 1, mi, hi) THEN cur[k - 1] + 1 ELSE cur[k - 1]
    BY DEF IsCursor
  <1> DEFINE b == cur[k - 1]
             c == cur[k]
  <1>4. b \in Nat /\ c \in Nat /\ k \in Nat
    BY <1>2
  <1>5. CASE Left(a, b, k - 1, mi, hi)
    BY <1>2, <1>3, <1>4, <1>5, SMTT(30) DEF Source
  <1>6. CASE ~Left(a, b, k - 1, mi, hi)
    BY <1>2, <1>3, <1>4, <1>6, SMTT(30) DEF Source
  <1> QED BY <1>5, <1>6

LEMMA MergeRearranges ==
  ASSUME NEW a \in Seq(Nat), NEW lo \in Nat, NEW mi \in Nat, NEW hi \in Nat,
         lo <= mi, mi <= hi, hi <= Len(a), NEW r, IsMerge(r, a, lo, mi, hi)
  PROVE  Rearranged(a, r)
  <1>1. PICK cur \in [lo..hi -> Nat] :
          IsCursor(cur, a, lo, mi, hi) /\ \A k \in (lo + 1)..hi : r[k] = a[Source(cur, k, mi)]
    BY DEF IsMerge
  <1> DEFINE src(k) == Source(cur, k, mi)
             from == [k \in 1..Len(a) |-> IF k \in (lo + 1)..hi THEN src(k) ELSE k]
  <1>2. \A k \in (lo + 1)..hi :
          \/ cur[k] = cur[k - 1] + 1 /\ src(k) = cur[k] /\ src(k) \in (lo + 1)..mi
          \/ cur[k] = cur[k - 1] /\ src(k) = mi + k - cur[k] /\ src(k) \in (mi + 1)..hi
    <2>1. \A k \in (lo + 1)..hi :
         \/ /\ Left(a, cur[k - 1], k - 1, mi, hi)
            /\ cur[k] = cur[k - 1] + 1 /\ Source(cur, k, mi) = cur[k] /\ cur[k] \in (lo + 1)..mi
         \/ /\ ~Left(a, cur[k - 1], k - 1, mi, hi)
            /\ cur[k] = cur[k - 1] /\ Source(cur, k, mi) = mi + k - cur[k]
            /\ mi + k - cur[k] \in (mi + 1)..hi
      BY <1>1, SourceIs
    <2> QED BY <2>1
  <1>3. \A j, k \in lo..hi : j <= k => cur[j] <= cur[k] /\ j - cur[j] <= k - cur[k]
    BY <1>1, CursorsMoveOn
  <1> HIDE DEF src
  <1>4. ASSUME NEW k \in (lo + 1)..hi, NEW l \in (lo + 1)..hi, k < l PROVE src(k) # src(l)
    <2>1. k \in lo..hi /\ l - 1 \in lo..hi /\ l \in lo..hi /\ k <= l - 1
      BY <1>4
    <2>2. cur[k] <= cur[l - 1] /\ k - cur[k] <= (l - 1) - cur[l - 1]
      BY <1>3, <2>1
    <2> DEFINE ck == cur[k]
               cl == cur[l]
               cb == cur[l - 1]
    <2>3. ck \in Nat /\ cl \in Nat /\ cb \in Nat /\ k \in Nat /\ l \in Nat
      BY <2>1
    <2>4. \/ src(k) = ck /\ src(k) \in (lo + 1)..mi
          \/ src(k) = mi + k - ck /\ src(k) \in (mi + 1)..hi
      BY <1>2
    <2>5. \/ cl = cb + 1 /\ src(l) = cl /\ src(l) \in (lo + 1)..mi
          \/ cl = cb /\ src(l) = mi + l - cl /\ src(l) \in (mi + 1)..hi
      BY <1>2
    <2>6. ck <= cb /\ k - ck <= (l - 1) - cb
      BY <2>2
    <2> HIDE DEF ck, cl, cb
    <2>7. ASSUME src(k) = ck, src(l) = cl, cl = cb + 1 PROVE src(k) # src(l)
      BY <2>3, <2>6, <2>7
    <2>8. ASSUME src(k) = mi + k - ck, src(l) = mi + l - cl, cl = cb PROVE src(k) # src(l)
      BY <2>3, <2>6, <2>8
    <2>9. ASSUME NEW x \in (lo + 1)..mi, NEW y \in (mi + 1)..hi PROVE x # y
      OBVIOUS
    <2>10. CASE src(k) = ck /\ src(k) \in (lo + 1)..mi
      BY <2>5, <2>7, <2>9, <2>10
    <2>11. CASE src(k) = mi + k - ck /\ src(k) \in (mi + 1)..hi
      BY <2>5, <2>8, <2>9, <2>11
    <2> QED BY <2>4, <2>10, <2>11
  <1>5. from \in [1..Len(a) -> 1..Len(a)]
    <2>1. \A k \in (lo + 1)..hi : src(k) \in 1..Len(a)
      <3> SUFFICES ASSUME NEW k \in (lo + 1)..hi PROVE src(k) \in 1..Len(a)
        OBVIOUS
      <3>1. src(k) \in (lo + 1)..mi \/ src(k) \in (mi + 1)..hi
        BY <1>2
      <3> QED BY <3>1, SMTT(30)
    <2> QED BY <2>1
  <1>6. ASSUME NEW k \in 1..Len(a), NEW l \in 1..Len(a), from[k] = from[l] PROVE k = l
    <2>1. \A q \in (lo + 1)..hi : src(q) \in (lo + 1)..hi
      <3> SUFFICES ASSUME NEW q \in (lo + 1)..hi PROVE src(q) \in (lo + 1)..hi
        OBVIOUS
      <3>1. src(q) \in (lo + 1)..mi \/ src(q) \in (mi + 1)..hi
        BY <1>2
      <3> QED BY <3>1, SMTT(30)
    <2>2. CASE k \in (lo + 1)..hi /\ l \in (lo + 1)..hi
      BY <1>4, <1>6, <2>2
    <2>3. CASE ~(k \in (lo + 1)..hi /\ l \in (lo + 1)..hi)
      BY <1>6, <2>1, <2>3
    <2> QED BY <2>2, <2>3
  <1>7. \A k \in 1..Len(a) : r[k] = a[from[k]]
    BY <1>1 DEF IsMerge, src
  <1> HIDE DEF from
  <1> QED BY <1>5, <1>6, <1>7, FilledFromAll DEF IsMerge

(* What is merged is not larger than what is left, so it is in order. *)
LEMMA MergeSorts ==
  ASSUME NEW a \in Seq(Nat), NEW lo \in Nat, NEW mi \in Nat, NEW hi \in Nat,
         lo <= mi, mi <= hi, hi <= Len(a), NEW r, IsMerge(r, a, lo, mi, hi),
         \A p \in (lo + 1)..(mi - 1) : a[p] <= a[p + 1],
         \A p \in (mi + 1)..(hi - 1) : a[p] <= a[p + 1],
         NEW n \in (lo + 1)..(hi - 1)
  PROVE  r[n] <= r[n + 1]
  <1>1. PICK cur \in [lo..hi -> Nat] :
          IsCursor(cur, a, lo, mi, hi) /\ \A k \in (lo + 1)..hi : r[k] = a[Source(cur, k, mi)]
    BY DEF IsMerge
  <1>2. \A k \in (lo + 1)..hi :
         \/ /\ Left(a, cur[k - 1], k - 1, mi, hi)
            /\ cur[k] = cur[k - 1] + 1 /\ Source(cur, k, mi) = cur[k] /\ cur[k] \in (lo + 1)..mi
         \/ /\ ~Left(a, cur[k - 1], k - 1, mi, hi)
            /\ cur[k] = cur[k - 1] /\ Source(cur, k, mi) = mi + k - cur[k]
            /\ mi + k - cur[k] \in (mi + 1)..hi
    BY <1>1, SourceIs
  <1> DEFINE b == cur[n - 1]
             c == cur[n]
             x == Source(cur, n, mi)
             y == Source(cur, n + 1, mi)
  <1>3. n \in (lo + 1)..hi /\ n + 1 \in (lo + 1)..hi /\ (n + 1) - 1 = n /\ n \in lo..hi /\ n - 1 \in lo..hi
    OBVIOUS
  <1>4. \/ Left(a, b, n - 1, mi, hi) /\ c = b + 1 /\ x = c /\ x \in (lo + 1)..mi
        \/ ~Left(a, b, n - 1, mi, hi) /\ c = b /\ x = mi + n - c /\ x \in (mi + 1)..hi
    BY <1>2, <1>3
  <1>5. \/ y = c + 1 /\ y \in (lo + 1)..mi
        \/ y = mi + (n + 1) - c /\ y \in (mi + 1)..hi
    <2> DEFINE N == n + 1
    <2>1. N \in (lo + 1)..hi /\ N - 1 = n /\ N = n + 1 /\ y = Source(cur, N, mi)
      BY <1>3
    <2> HIDE DEF N
    <2>2. \/ cur[N] = cur[N - 1] + 1 /\ Source(cur, N, mi) = cur[N] /\ cur[N] \in (lo + 1)..mi
          \/ /\ cur[N] = cur[N - 1] /\ Source(cur, N, mi) = mi + N - cur[N]
             /\ mi + N - cur[N] \in (mi + 1)..hi
      BY <1>2, <2>1
    <2>3. cur[N - 1] = c
      BY <2>1
    <2> HIDE DEF c, y
    <2> QED BY <2>1, <2>2, <2>3
  <1>6. c \in lo..mi /\ mi + n - c \in mi..hi /\ b \in Nat
    BY <1>1, <1>3, CursorBounds
  <1>7. r[n] = a[x] /\ r[n + 1] = a[y]
    BY <1>1, <1>3
  <1>8. Len(a) \in Nat /\ \A k \in 1..Len(a) : a[k] \in Nat
    OBVIOUS
  <1>w. \A k \in (lo + 1)..hi : a[k] \in Nat
    BY <1>8
  <1>9. \A j, k \in (lo + 1)..mi : j <= k => a[j] <= a[k]
    <2>1. \A p \in (lo + 1)..mi : a[p] \in Nat
      BY <1>8
    <2> QED BY <2>1, NeighboursInOrder
  <1>10. \A j, k \in (mi + 1)..hi : j <= k => a[j] <= a[k]
    <2>1. \A p \in (mi + 1)..hi : a[p] \in Nat
      BY <1>8
    <2> QED BY <2>1, NeighboursInOrder
  <1> HIDE DEF b, c, x, y
  <1>11. a[x] <= a[y]
    <2>1. CASE x = c /\ y = c + 1 /\ x \in (lo + 1)..mi /\ y \in (lo + 1)..mi
      <3>1. x <= y
        BY <1>6, <2>1
      <3> QED BY <1>9, <2>1, <3>1
    <2>2. CASE /\ Left(a, b, n - 1, mi, hi) /\ c = b + 1 /\ x = c /\ x \in (lo + 1)..mi
               /\ y = mi + (n + 1) - c /\ y \in (mi + 1)..hi
      <3>1. mi + (n - 1) - b + 1 = y /\ b + 1 = x /\ ~(mi + (n - 1) - b >= hi)
        BY <1>6, <2>2
      <3>2. a[x] < a[y]
        BY <2>2, <3>1 DEF Left
      <3>3. x \in (lo + 1)..hi /\ y \in (lo + 1)..hi
        BY <1>6, <2>2
      <3> QED BY <1>w, <3>2, <3>3, SMTT(30)
    <2>3. CASE /\ ~Left(a, b, n - 1, mi, hi) /\ c = b /\ x = mi + n - c /\ x \in (mi + 1)..hi
               /\ y = c + 1 /\ y \in (lo + 1)..mi
      <3>1. b < mi /\ b + 1 = y /\ mi + (n - 1) - b + 1 = x /\ ~(mi + (n - 1) - b >= hi)
        BY <1>6, <2>3
      <3>2. ~(a[y] < a[x])
        BY <2>3, <3>1 DEF Left
      <3>3. x \in (lo + 1)..hi /\ y \in (lo + 1)..hi
        BY <1>6, <2>3
      <3> QED BY <1>w, <3>2, <3>3, SMTT(30)
    <2>4. CASE x = mi + n - c /\ y = mi + (n + 1) - c /\ x \in (mi + 1)..hi /\ y \in (mi + 1)..hi
      <3>1. x <= y
        BY <1>6, <2>4
      <3> QED BY <1>10, <2>4, <3>1
    <2> QED BY <1>4, <1>5, <2>1, <2>2, <2>3, <2>4
  <1> QED BY <1>7, <1>11

(* The cursor exists: its places are filled one after the other. *)
IsWalk(f, on, lo, hi) == f = [k \in lo..hi |-> IF k = lo THEN lo ELSE on[k - 1][f[k - 1]]]

LEMMA WalkExists ==
  ASSUME NEW lo \in Nat, NEW hi \in Nat, NEW size \in Nat, lo <= hi, hi <= size,
         NEW on, \A l \in 0..size : \A k \in 0..size : on[k][l] \in {l, l + 1}
  PROVE  \E f \in [lo..hi -> Nat] : IsWalk(f, on, lo, hi) /\ \A k \in lo..hi : f[k] <= k
  <1> DEFINE Is(f, n) == /\ f[lo] = lo
                         /\ \A k \in (lo + 1)..n : f[k] = on[k - 1][f[k - 1]]
                         /\ \A k \in lo..n : f[k] \in 0..k
             S == {n \in lo..hi : ~ \E f \in [lo..n -> 0..size] : Is(f, n)}
  <1>1. S = {}
    <2> SUFFICES ASSUME S # {} PROVE FALSE
      OBVIOUS
    <2>1. S \in SUBSET Nat
      OBVIOUS
    <2>2. PICK n \in S : \A q \in S : n <= q
      BY <2>1, Least
    <2>3. n \in lo..hi /\ ~ \E f \in [lo..n -> 0..size] : Is(f, n)
      BY <2>2
    <2>4. n # lo
      <3>1. [k \in lo..lo |-> lo] \in [lo..lo -> 0..size] /\ Is([k \in lo..lo |-> lo], lo)
        OBVIOUS
      <3> QED BY <2>3, <3>1
    <2>5. n - 1 \in lo..hi /\ n - 1 \notin S
      <3>1. n - 1 \in lo..hi /\ ~(n <= n - 1)
        BY <2>3, <2>4
      <3> HIDE DEF S
      <3> QED BY <2>2, <3>1
    <2>6. PICK f \in [lo..(n - 1) -> 0..size] : Is(f, n - 1)
      BY <2>5
    <2> DEFINE g == [k \in lo..n |-> IF k = n THEN on[n - 1][f[n - 1]] ELSE f[k]]
    <2>7. f[n - 1] \in 0..(n - 1) /\ f[n - 1] \in 0..size /\ n - 1 \in 0..size
      BY <2>3, <2>5, <2>6
    <2>8. on[n - 1][f[n - 1]] \in {f[n - 1], f[n - 1] + 1}
      BY <2>7
    <2>9. on[n - 1][f[n - 1]] \in 0..n
      BY <2>3, <2>4, <2>7, <2>8
    <2>10. g \in [lo..n -> 0..size]
      BY <2>3, <2>6, <2>9
    <2>11. Is(g, n)
      <3>1. g[lo] = lo
        BY <2>3, <2>4, <2>6
      <3>2. ASSUME NEW k \in (lo + 1)..n PROVE g[k] = on[k - 1][g[k - 1]]
        <4>1. CASE k = n
          BY <2>3, <2>4, <4>1
        <4>2. CASE k # n
          <5>1. k \in (lo + 1)..(n - 1) /\ k - 1 \in lo..n /\ k - 1 # n
            BY <2>3, <4>2
          <5>2. f[k] = on[k - 1][f[k - 1]]
            BY <2>6, <5>1
          <5> QED BY <4>2, <5>1, <5>2
        <4> QED BY <4>1, <4>2
      <3>3. \A k \in lo..n : g[k] \in 0..k
        BY <2>3, <2>4, <2>6, <2>9
      <3> QED BY <3>1, <3>2, <3>3
    <2> QED BY <2>3, <2>10, <2>11
  <1>2. PICK f \in [lo..hi -> 0..size] : Is(f, hi)
    <2>1. hi \in lo..hi
      OBVIOUS
    <2> QED BY <1>1, <2>1
  <1>3. f = [k \in lo..hi |-> f[k]]
    OBVIOUS
  <1>4. \A k \in lo..hi : f[k] = IF k = lo THEN lo ELSE on[k - 1][f[k - 1]]
    BY <1>2
  <1>5. f = [k \in lo..hi |-> IF k = lo THEN lo ELSE on[k - 1][f[k - 1]]]
    BY <1>3, <1>4
  <1>6. f \in [lo..hi -> Nat] /\ \A k \in lo..hi : f[k] <= k
    <2>1. \A k \in lo..hi : f[k] \in 0..k
      BY <1>2
    <2>2. f \in [lo..hi -> Nat]
      BY <1>2
    <2> QED BY <2>1, <2>2
  <1> HIDE DEF Is
  <1> QED BY <1>5, <1>6 DEF IsWalk
-------------------------------------------------------------------------------
(* The merge of n sequences into one, of which at[j] numbers are taken.       *)
Places(n, d, at, x) == UNION {{j} \X {k \in 1..at[j] : d[j][k] = x} : j \in 1..n}

IsPlace(p, n, d, at, x) == \E j \in 1..n : \E k \in 1..at[j] : p = <<j, k>> /\ d[j][k] = x

Lengths(n, d) == [j \in 1..n |-> Len(d[j])]

Halfway(n, d, at, out) ==
  /\ at \in [1..n -> Nat] /\ \A j \in 1..n : at[j] <= Len(d[j]) /\ IsSorted(d[j])
  /\ out \in Seq(Nat) /\ IsSorted(out)
  /\ \A j \in 1..n : at[j] < Len(d[j]) => \A k \in 1..Len(out) : out[k] <= d[j][at[j] + 1]
  /\ \A x \in Nat : Count(x, out) = Cardinality(Places(n, d, at, x))

LEMMA PlacesAre ==
  ASSUME NEW n \in Nat, NEW d, NEW at \in [1..n -> Nat], NEW x
  PROVE  /\ \A p : p \in Places(n, d, at, x) <=> IsPlace(p, n, d, at, x)
         /\ IsFiniteSet(Places(n, d, at, x))
  <1> DEFINE Row(j) == {j} \X {k \in 1..at[j] : d[j][k] = x}
             S == {Row(j) : j \in 1..n}
  <1>1. \A p : p \in UNION S <=> \E j \in 1..n : \E k \in 1..at[j] : p = <<j, k>> /\ d[j][k] = x
    <2>1. ASSUME NEW p, p \in UNION S
          PROVE  \E j \in 1..n : \E k \in 1..at[j] : p = <<j, k>> /\ d[j][k] = x
      <3>1. PICK j \in 1..n : p \in Row(j)
        BY <2>1
      <3>2. PICK k \in 1..at[j] : p = <<j, k>> /\ d[j][k] = x
        BY <3>1
      <3> QED BY <3>2
    <2>2. ASSUME NEW p, NEW j \in 1..n, NEW k \in 1..at[j], p = <<j, k>> /\ d[j][k] = x
          PROVE  p \in UNION S
      <3>1. p \in Row(j) /\ Row(j) \in S
        BY <2>2
      <3> QED BY <3>1
    <2> QED BY <2>1, <2>2
  <1>2. IsFiniteSet(S)
    <2>1. IsFiniteSet(1..n)
      BY FS_Interval
    <2> DEFINE f == [j \in 1..n |-> Row(j)]
    <2> HIDE DEF Row
    <2>2. f \in [1..n -> S] /\ \A T \in S : \E j \in 1..n : f[j] = T
      OBVIOUS
    <2> HIDE DEF f, S
    <2>3. f \in Surjection(1..n, S)
      BY <2>2, Fun_IsSurj
    <2> QED BY <2>1, <2>3, FS_Surjection
  <1>3. ASSUME NEW T \in S PROVE IsFiniteSet(T)
    <2>1. PICK j \in 1..n : T = Row(j)
      OBVIOUS
    <2> DEFINE K == {k \in 1..at[j] : d[j][k] = x}
    <2>2. IsFiniteSet(1..at[j]) /\ at[j] \in Nat
      BY FS_Interval
    <2>3. IsFiniteSet(K)
      BY <2>2, FS_Subset
    <2>4. IsFiniteSet({j})
      BY FS_Singleton
    <2> HIDE DEF K
    <2>5. IsFiniteSet({j} \X K)
      BY <2>3, <2>4, FS_Product
    <2> QED BY <2>1, <2>5 DEF K
  <1>4. IsFiniteSet(UNION S)
    <2> HIDE DEF S
    <2> QED BY <1>2, <1>3, FS_UNION
  <1> QED BY <1>1, <1>4 DEF Places, IsPlace

LEMMA HalfwayBegins ==
  ASSUME NEW n \in Nat, NEW d, NEW at, at = [j \in 1..n |-> 0],
         \A j \in 1..n : d[j] \in Seq(Nat) /\ IsSorted(d[j])
  PROVE  Halfway(n, d, at, <<>>)
  <1>1. at \in [1..n -> Nat] /\ \A j \in 1..n : at[j] <= Len(d[j]) /\ IsSorted(d[j])
    OBVIOUS
  <1>2. <<>> \in Seq(Nat) /\ IsSorted(<<>>)
    BY DEF IsSorted
  <1>3. ASSUME NEW x \in Nat PROVE Count(x, <<>>) = Cardinality(Places(n, d, at, x))
    <2>1. Places(n, d, at, x) = {}
      <3>1. \A p : ~IsPlace(p, n, d, at, x)
        BY DEF IsPlace
      <3> QED BY <1>1, <3>1, PlacesAre
    <2>2. {k \in 1..Len(<<>>) : <<>>[k] = x} = {}
      OBVIOUS
    <2> QED BY <2>1, <2>2 DEF Count
  <1> QED BY <1>1, <1>2, <1>3 DEF Halfway

(* One more number. *)
LEMMA CountOfAppend ==
  ASSUME NEW out \in Seq(Nat), NEW v \in Nat, NEW x
  PROVE  Count(x, Append(out, v)) = Count(x, out) + IF v = x THEN 1 ELSE 0
  <1> DEFINE n == Len(out)
             S == {k \in 1..n : out[k] = x}
             T == {k \in 1..Len(Append(out, v)) : Append(out, v)[k] = x}
  <1>1. n \in Nat /\ Len(Append(out, v)) = n + 1
        /\ \A k \in 1..(n + 1) : Append(out, v)[k] = IF k = n + 1 THEN v ELSE out[k]
    OBVIOUS
  <1>2. T = IF v = x THEN S \cup {n + 1} ELSE S
    BY <1>1
  <1>3. IsFiniteSet(S) /\ n + 1 \notin S
    <2>1. IsFiniteSet(1..n) /\ S \in SUBSET (1..n)
      BY <1>1, FS_Interval
    <2> QED BY <1>1, <2>1, FS_Subset
  <1>4. Cardinality(S) \in Nat
    BY <1>3, FS_CardinalityType
  <1>5. v = x => Cardinality(T) = Cardinality(S) + 1
    BY <1>2, <1>3, FS_AddElement
  <1>6. Count(x, out) = Cardinality(S) /\ Count(x, Append(out, v)) = Cardinality(T)
    BY DEF Count
  <1> HIDE DEF S, T
  <1>7. CASE v = x
    BY <1>4, <1>5, <1>6, <1>7
  <1>8. CASE v # x
    BY <1>2, <1>4, <1>6, <1>8
  <1> QED BY <1>7, <1>8

LEMMA NumberAt ==
  ASSUME NEW a \in Seq(Nat), NEW k \in Nat, k < Len(a)
  PROVE  a[k + 1] \in Nat
  <1>1. k + 1 \in 1..Len(a)
    OBVIOUS
  <1> QED BY <1>1

LEMMA HalfwayGoesOn ==
  ASSUME NEW n \in Nat, NEW d, \A j \in 1..n : d[j] \in Seq(Nat),
         NEW at, NEW out, Halfway(n, d, at, out),
         NEW j \in 1..n, at[j] < Len(d[j]),
         \A k \in 1..n : at[k] < Len(d[k]) => d[j][at[j] + 1] <= d[k][at[k] + 1]
  PROVE  Halfway(n, d, [at EXCEPT ![j] = @ + 1], Append(out, d[j][at[j] + 1]))
  <1> DEFINE v == d[j][at[j] + 1]
             on == [at EXCEPT ![j] = @ + 1]
             more == Append(out, v)
             N == Len(out)
  <1>1. at \in [1..n -> Nat] /\ on \in [1..n -> Nat] /\ v \in Nat /\ out \in Seq(Nat) /\ N \in Nat
    BY SMTT(30) DEF Halfway
  <1>2. on[j] = at[j] + 1 /\ \A k \in 1..n : k # j => on[k] = at[k]
    BY <1>1
  <1>3. more \in Seq(Nat) /\ Len(more) = N + 1
        /\ \A k \in 1..(N + 1) : more[k] = IF k = N + 1 THEN v ELSE out[k]
    BY <1>1, SMTT(30)
  <1>4. \A k \in 1..N : out[k] <= v /\ out[k] \in Nat
    BY <1>1, SMTT(30) DEF Halfway
  <1>5. IsSorted(more)
    <2>0. Len(more) - 1 = N
      BY <1>1, <1>3
    <2> SUFFICES ASSUME NEW k \in 1..N PROVE more[k] <= more[k + 1]
      <3> HIDE DEF more, N
      <3> QED BY <2>0 DEF IsSorted
    <2>1. CASE k = N
      BY <1>1, <1>3, <1>4, <2>1
    <2>2. CASE k # N
      <3>1. out[k] <= out[k + 1]
        BY <1>1, <2>2 DEF Halfway, IsSorted
      <3> QED BY <1>1, <1>3, <2>2, <3>1, SMTT(30)
    <2> QED BY <2>1, <2>2
  <1>6. \A k \in 1..n : on[k] <= Len(d[k]) /\ IsSorted(d[k])
    BY <1>1, <1>2, SMTT(30) DEF Halfway
  <1>7. ASSUME NEW k \in 1..n, on[k] < Len(d[k])
        PROVE  \A q \in 1..Len(more) : more[q] <= d[k][on[k] + 1]
    <2>1. at[k] \in Nat /\ at[k] < Len(d[k]) /\ Len(d[k]) \in Nat
      BY <1>1, <1>2, <1>7
    <2>2. v <= d[k][on[k] + 1] /\ d[k][on[k] + 1] \in Nat
      <3>1. d[k][on[k] + 1] \in Nat /\ d[k][at[k] + 1] \in Nat
        <4>1. d[k] \in Seq(Nat) /\ on[k] \in Nat
          BY <1>1
        <4> HIDE DEF on
        <4> QED BY <1>7, <2>1, <4>1, NumberAt
      <3>2. CASE k = j
        <4>1. d[j][at[j] + 1] <= d[j][(at[j] + 1) + 1]
          <5>1. at[j] + 1 \in 1..(Len(d[j]) - 1) /\ IsSorted(d[j])
            BY <1>1, <1>2, <1>7, <2>1, <3>2 DEF Halfway
          <5> QED BY <5>1 DEF IsSorted
        <4> QED BY <1>2, <3>1, <3>2, <4>1
      <3>3. CASE k # j
        BY <1>2, <2>1, <3>1, <3>3
      <3> QED BY <3>2, <3>3
    <2>3. \A q \in 1..(N + 1) : more[q] <= v /\ more[q] \in Nat
      BY <1>1, <1>3, <1>4, SMTT(30)
    <2> HIDE DEF v, more, on
    <2> QED BY <1>1, <1>3, <2>2, <2>3, SMTT(30)
  <1>8. ASSUME NEW x \in Nat PROVE Count(x, more) = Cardinality(Places(n, d, on, x))
    <2> DEFINE P == Places(n, d, at, x)
               Q == Places(n, d, on, x)
               new == <<j, at[j] + 1>>
    <2>1. \A p : p \in P <=> \E u \in 1..n : \E k \in 1..at[u] : p = <<u, k>> /\ d[u][k] = x
      <3>1. \A p : p \in P <=> IsPlace(p, n, d, at, x)
        BY <1>1, PlacesAre
      <3> QED BY <3>1 DEF IsPlace
    <2>2. \A p : p \in Q <=> \E u \in 1..n : \E k \in 1..on[u] : p = <<u, k>> /\ d[u][k] = x
      <3>1. \A p : p \in Q <=> IsPlace(p, n, d, on, x)
        BY <1>1, PlacesAre
      <3> QED BY <3>1 DEF IsPlace
    <2>3. IsFiniteSet(P) /\ Cardinality(P) \in Nat
      BY <1>1, PlacesAre, FS_CardinalityType
    <2>4. new \notin P
      <3> SUFFICES ASSUME new \in P PROVE FALSE
        OBVIOUS
      <3>1. PICK u \in 1..n : \E k \in 1..at[u] : new = <<u, k>> /\ d[u][k] = x
        BY <2>1
      <3>2. PICK k \in 1..at[u] : new = <<u, k>>
        BY <3>1
      <3>3. u = j /\ k = at[j] + 1 /\ at[j] \in Nat
        BY <1>1, <3>2
      <3> QED BY <3>3
    <2>5. Q = IF v = x THEN P \cup {new} ELSE P
      <3>1. ASSUME NEW p \in P PROVE p \in Q
        <4>1. PICK u \in 1..n : \E k \in 1..at[u] : p = <<u, k>> /\ d[u][k] = x
          BY <2>1
        <4>2. PICK k \in 1..at[u] : p = <<u, k>> /\ d[u][k] = x
          BY <4>1
        <4>3. k \in 1..on[u]
          BY <1>1, <1>2
        <4> QED BY <2>2, <4>2, <4>3
      <3>2. v = x => new \in Q
        <4>1. at[j] + 1 \in 1..on[j]
          BY <1>1, <1>2
        <4> QED BY <2>2, <4>1
      <3>3. ASSUME NEW p \in Q PROVE p \in P \/ (v = x /\ p = new)
        <4>1. PICK u \in 1..n : \E k \in 1..on[u] : p = <<u, k>> /\ d[u][k] = x
          BY <2>2
        <4>2. PICK k \in 1..on[u] : p = <<u, k>> /\ d[u][k] = x
          BY <4>1
        <4>3. CASE k \in 1..at[u]
          BY <2>1, <4>2, <4>3
        <4>4. CASE ~(k \in 1..at[u])
          <5>1. u = j /\ k = at[j] + 1
            BY <1>1, <1>2, <4>4
          <5> QED BY <4>2, <5>1
        <4> QED BY <4>3, <4>4
      <3> HIDE DEF P, Q, new, v
      <3> QED BY <3>1, <3>2, <3>3
    <2>6. Count(x, out) = Cardinality(P)
      BY DEF Halfway
    <2>7. Count(x, more) = Count(x, out) + IF v = x THEN 1 ELSE 0
      BY <1>1, CountOfAppend
    <2> HIDE DEF P, Q, new, v, more
    <2>8. v = x => Cardinality(Q) = Cardinality(P) + 1
      BY <2>3, <2>4, <2>5, FS_AddElement
    <2> QED BY <2>3, <2>5, <2>6, <2>7, <2>8 DEF Q
  <1> HIDE DEF on, more
  <1>9. Halfway(n, d, on, more)
    BY <1>1, <1>3, <1>5, <1>6, <1>7, <1>8 DEF Halfway
  <1> QED BY <1>9 DEF on, more

(* While some number is below `top', there is a first of the least ones. *)
LEMMA FirstOfLeast ==
  ASSUME NEW n \in Nat, NEW d, \A j \in 1..n : d[j] \in Seq(Nat),
         NEW at \in [1..n -> Nat], NEW top \in Nat,
         NEW u \in 1..n, at[u] < Len(d[u]), d[u][at[u] + 1] < top
  PROVE  \E j \in 1..n :
           /\ at[j] < Len(d[j]) /\ d[j][at[j] + 1] < top
           /\ \A k \in 1..n : at[k] < Len(d[k]) => d[j][at[j] + 1] <= d[k][at[k] + 1]
           /\ \A k \in 1..(j - 1) : at[k] < Len(d[k]) => d[j][at[j] + 1] < d[k][at[k] + 1]
  <1> DEFINE Has(j) == at[j] < Len(d[j])
             Num(j) == d[j][at[j] + 1]
             V == {Num(j) : j \in {k \in 1..n : Has(k)}}
  <1>1. ASSUME NEW j \in 1..n, Has(j) PROVE Num(j) \in Nat
    <2>1. d[j] \in Seq(Nat) /\ at[j] \in Nat
      BY <1>1
    <2> QED BY <1>1, <2>1, NumberAt
  <1>t. Has(u) /\ Num(u) < top
    OBVIOUS
  <1> HIDE DEF Has, Num
  <1>2. V \in SUBSET Nat /\ Num(u) \in V
    BY <1>1 DEF Has
  <1>3. PICK v \in V : \A w \in V : v <= w
    BY <1>2, Least
  <1> DEFINE J == {j \in 1..n : Has(j) /\ Num(j) = v}
  <1>4. J \in SUBSET Nat /\ J # {}
    BY <1>3
  <1>5. PICK j \in J : \A k \in J : j <= k
    BY <1>4, Least
  <1>6. j \in 1..n /\ Has(j) /\ Num(j) = v
    BY <1>5
  <1>7. Num(j) < top
    <2>1. v <= Num(u) /\ Num(u) \in Nat /\ v \in Nat
      BY <1>1, <1>2, <1>3, <1>t
    <2> QED BY <1>6, <1>t, <2>1
  <1>8. \A k \in 1..n : Has(k) => Num(j) <= Num(k)
    BY <1>3, <1>6
  <1>9. ASSUME NEW k \in 1..(j - 1), Has(k) PROVE Num(j) < Num(k)
    <2>1. k \in 1..n /\ ~(j <= k)
      BY <1>6, SMTT(30)
    <2>2. Num(k) # v
      BY <1>5, <1>9, <2>1
    <2> QED BY <1>1, <1>6, <1>8, <1>9, <2>1, <2>2
  <1> QED BY <1>6, <1>7, <1>8, <1>9 DEF Has, Num

(* When all that is left is above a number, that number has been taken as often *)
(* as it is there.                                                             *)
AllAbove(n, d, at, x) == \A j \in 1..n : at[j] < Len(d[j]) => d[j][at[j] + 1] > x

LEMMA HalfwayBelow ==
  ASSUME NEW n \in Nat, NEW d, \A j \in 1..n : d[j] \in Seq(Nat),
         NEW at, NEW out, Halfway(n, d, at, out), NEW x \in Nat, AllAbove(n, d, at, x)
  PROVE  Count(x, out) = Cardinality(Places(n, d, Lengths(n, d), x))
  <1> DEFINE all == Lengths(n, d)
  <1>1. at \in [1..n -> Nat] /\ all \in [1..n -> Nat] /\ \A j \in 1..n : all[j] = Len(d[j]) /\ at[j] <= all[j]
    BY DEF Halfway, Lengths
  <1> HIDE DEF all
  <1>2. ASSUME NEW j \in 1..n, NEW k \in 1..all[j], d[j][k] = x PROVE k \in 1..at[j]
    <2> SUFFICES ASSUME ~(k <= at[j]) PROVE FALSE
      BY <1>1
    <2> DEFINE a == d[j]
    <2>1. a \in Seq(Nat) /\ Len(a) \in Nat /\ all[j] = Len(a) /\ IsSorted(a) /\ at[j] \in Nat
      BY <1>1 DEF Halfway
    <2>2. a[at[j] + 1] > x /\ at[j] + 1 <= k
      <3>1. at[j] < Len(a) /\ at[j] + 1 <= k
        BY <1>1, <2>1
      <3> QED BY <3>1 DEF AllAbove
    <2> HIDE DEF a
    <2>3. \A p \in (0 + 1)..Len(a) : a[p] \in Nat
      BY <2>1
    <2>4. \A p \in (0 + 1)..(Len(a) - 1) : a[p] <= a[p + 1]
      BY <2>1 DEF IsSorted
    <2>5. at[j] + 1 \in (0 + 1)..Len(a) /\ k \in (0 + 1)..Len(a)
      BY <2>1, <2>2, SMTT(30)
    <2>6. a[at[j] + 1] <= a[k]
      BY <2>1, <2>2, <2>3, <2>4, <2>5, NeighboursInOrder
    <2> QED BY <1>2, <2>2, <2>3, <2>5, <2>6, SMTT(30) DEF a
  <1>3. \A p : p \in Places(n, d, at, x) <=>
          \E u \in 1..n : \E k \in 1..at[u] : p = <<u, k>> /\ d[u][k] = x
    <2>1. \A p : p \in Places(n, d, at, x) <=> IsPlace(p, n, d, at, x)
      BY <1>1, PlacesAre
    <2> QED BY <2>1 DEF IsPlace
  <1>4. \A p : p \in Places(n, d, all, x) <=>
          \E u \in 1..n : \E k \in 1..all[u] : p = <<u, k>> /\ d[u][k] = x
    <2>1. \A p : p \in Places(n, d, all, x) <=> IsPlace(p, n, d, all, x)
      BY <1>1, PlacesAre
    <2> QED BY <2>1 DEF IsPlace
  <1>5. \A u \in 1..n : \A k \in 1..at[u] : k \in 1..all[u]
    BY <1>1
  <1>6. \A p : p \in Places(n, d, at, x) <=> p \in Places(n, d, all, x)
    BY <1>2, <1>3, <1>4, <1>5
  <1>7. Places(n, d, at, x) = Places(n, d, all, x)
    BY <1>6
  <1> QED BY <1>7 DEF Halfway, all

(* Sequences taken from the others in another order, with the same numbers. *)
LEMMA SameInAll ==
  ASSUME NEW n \in Nat, NEW d, NEW e, NEW g \in Bijection(1..n, 1..n),
         \A j \in 1..n : d[j] \in Seq(Nat) /\ e[j] \in Seq(Nat),
         \A j \in 1..n : Rearranged(e[g[j]], d[j]), NEW x \in Nat
  PROVE  Cardinality(Places(n, d, Lengths(n, d), x)) = Cardinality(Places(n, e, Lengths(n, e), x))
  <1> DEFINE lens(q) == Lengths(n, q)
             In(a) == {k \in 1..Len(a) : a[k] = x}
             P == Places(n, d, lens(d), x)
             Q == Places(n, e, lens(e), x)
  <1>1. /\ g \in [1..n -> 1..n] /\ \A u, j \in 1..n : g[u] = g[j] => u = j
        /\ \A u \in 1..n : \E j \in 1..n : g[j] = u
    BY DEF Bijection, Injection, Surjection, IsInjective
  <1>2. \A p : p \in P <=> \E j \in 1..n : \E k \in In(d[j]) : p = <<j, k>>
    <2>1. lens(d) \in [1..n -> Nat] /\ \A j \in 1..n : lens(d)[j] = Len(d[j])
      BY DEF Lengths
    <2> HIDE DEF lens
    <2>2. \A p : p \in P <=> IsPlace(p, n, d, lens(d), x)
      BY <2>1, PlacesAre
    <2> QED BY <2>1, <2>2 DEF IsPlace
  <1>3. \A p : p \in Q <=> \E j \in 1..n : \E k \in In(e[j]) : p = <<j, k>>
    <2>1. lens(e) \in [1..n -> Nat] /\ \A j \in 1..n : lens(e)[j] = Len(e[j])
      BY DEF Lengths
    <2> HIDE DEF lens
    <2>2. \A p : p \in Q <=> IsPlace(p, n, e, lens(e), x)
      BY <2>1, PlacesAre
    <2> QED BY <2>1, <2>2 DEF IsPlace
  <1>4. ASSUME NEW j \in 1..n PROVE Bijection(In(d[j]), In(e[g[j]])) # {}
    <2>1. d[j] \in Seq(Nat) /\ e[g[j]] \in Seq(Nat)
      BY <1>1
    <2>2. \A a \in Seq(Nat) : IsFiniteSet(In(a))
      <3> SUFFICES ASSUME NEW a \in Seq(Nat) PROVE IsFiniteSet(In(a))
        OBVIOUS
      <3>1. IsFiniteSet(1..Len(a)) /\ In(a) \in SUBSET (1..Len(a))
        BY FS_Interval
      <3> QED BY <3>1, FS_Subset
    <2>3. Cardinality(In(d[j])) = Cardinality(In(e[g[j]]))
      BY DEF Rearranged, Count
    <2> QED BY <2>1, <2>2, <2>3, FS_SameCardinalityBij, Fun_ExistsBij
  <1> DEFINE f == [j \in 1..n |-> CHOOSE b : b \in Bijection(In(d[j]), In(e[g[j]]))]
  <1> HIDE DEF In
  <1>5. \A j \in 1..n : f[j] \in Bijection(In(d[j]), In(e[g[j]]))
    BY <1>4
  <1> HIDE DEF f
  <1>6. ASSUME NEW j \in 1..n
        PROVE  /\ \A k \in In(d[j]) : f[j][k] \in In(e[g[j]])
               /\ \A k, l \in In(d[j]) : f[j][k] = f[j][l] => k = l
               /\ \A l \in In(e[g[j]]) : \E k \in In(d[j]) : f[j][k] = l
    <2> DEFINE S == In(d[j])
               T == In(e[g[j]])
               b == f[j]
    <2>1. b \in Bijection(S, T)
      BY <1>5
    <2> HIDE DEF S, T, b
    <2>2. b \in [S -> T] /\ (\A k, l \in S : b[k] = b[l] => k = l) /\ \A l \in T : \E k \in S : b[k] = l
      BY <2>1, Fun_BijectionProperties
    <2> QED BY <2>2 DEF S, T, b
  <1> DEFINE h == [p \in P |-> <<g[p[1]], f[p[1]][p[2]]>>]
  <1> HIDE DEF P, Q
  <1>7. \A p \in P : /\ p[1] \in 1..n /\ p[2] \in In(d[p[1]]) /\ p = <<p[1], p[2]>>
                     /\ h[p] = <<g[p[1]], f[p[1]][p[2]]>>
    BY <1>2
  <1> HIDE DEF h
  <1>8. \A p \in P : h[p] \in Q
    <2> SUFFICES ASSUME NEW p \in P PROVE h[p] \in Q
      OBVIOUS
    <2>1. g[p[1]] \in 1..n /\ f[p[1]][p[2]] \in In(e[g[p[1]]])
      BY <1>1, <1>6, <1>7, ZenonT(30)
    <2> QED BY <1>3, <1>7, <2>1, ZenonT(30)
  <1>9. ASSUME NEW p \in P, NEW q \in P, h[p] = h[q] PROVE p = q
    <2>1. g[p[1]] = g[q[1]] /\ f[p[1]][p[2]] = f[q[1]][q[2]]
      BY <1>7, <1>9
    <2>2. p[1] = q[1]
      BY <1>1, <1>7, <2>1
    <2>3. p[2] = q[2]
      BY <1>6, <1>7, <2>1, <2>2
    <2> QED BY <1>7, <2>2, <2>3
  <1>10. ASSUME NEW q \in Q PROVE \E p \in P : h[p] = q
    <2>1. PICK u \in 1..n : \E l \in In(e[u]) : q = <<u, l>>
      BY <1>3
    <2>2. PICK l \in In(e[u]) : q = <<u, l>>
      BY <2>1
    <2>3. PICK j \in 1..n : g[j] = u
      BY <1>1
    <2>4. PICK k \in In(d[j]) : f[j][k] = l
      BY <1>6, <2>2, <2>3, ZenonT(30)
    <2>5. <<j, k>> \in P
      BY <1>2, <2>4
    <2>6. h[<<j, k>>] = <<u, l>>
      BY <1>7, <2>3, <2>4, <2>5
    <2> QED BY <2>2, <2>5, <2>6
  <1>11. IsFiniteSet(P)
    <2>1. lens(d) \in [1..n -> Nat]
      BY DEF Lengths
    <2> QED BY <2>1, PlacesAre DEF P
  <1>12. h \in [P -> Q]
    <2>1. h = [p \in P |-> h[p]]
      BY DEF h
    <2> QED BY <1>8, <2>1
  <1>13. ExistsBijection(P, Q)
    BY <1>9, <1>10, <1>12, Fun_IsBij, Fun_ExistsBij
  <1>14. Cardinality(P) = Cardinality(Q)
    BY <1>11, <1>13, FS_Bijection
  <1> QED BY <1>14 DEF P, Q

LEMMA SameIsRearranged == \A a : Rearranged(a, a)
  BY DEF Rearranged

LEMMA RearrangedAgain ==
  ASSUME NEW a, NEW b, NEW d, Rearranged(a, b), Rearranged(b, d)
  PROVE  Rearranged(a, d)
  BY DEF Rearranged

LEMMA NumbersOccur ==
  ASSUME NEW a \in Seq(Nat), NEW x
  PROVE  Count(x, a) \in Nat /\ (Count(x, a) > 0 <=> \E k \in 1..Len(a) : a[k] = x)
  <1> DEFINE S == {k \in 1..Len(a) : a[k] = x}
  <1>1. IsFiniteSet(S)
    <2>1. IsFiniteSet(1..Len(a)) /\ S \in SUBSET (1..Len(a))
      BY FS_Interval
    <2> QED BY <2>1, FS_Subset
  <1>2. Cardinality(S) \in Nat /\ (Cardinality(S) = 0 <=> S = {})
    BY <1>1, FS_CardinalityType, FS_EmptySet
  <1>3. Count(x, a) = Cardinality(S)
    BY DEF Count
  <1>4. S # {} <=> \E k \in 1..Len(a) : a[k] = x
    OBVIOUS
  <1> QED BY <1>2, <1>3, <1>4
===============================================================================
