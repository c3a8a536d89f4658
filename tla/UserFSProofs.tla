----------------------------- MODULE UserFSProofs -----------------------------
(***************************************************************************)
(* The list of files stays sound, a file lives exactly as long as its name *)
(* or a descriptor leads to it, and UserFS implements OpenFiles, for any   *)
(* number of files, names and descriptors and any calls.                   *)
(***************************************************************************)
EXTENDS UserFS, FiniteSetTheorems, TLAPS

-------------------------------------------------------------------------------
(* The list.  It is spelled by an order s of n files, which is said to exist  *)
(* and not computed.                                                          *)

Size == Cardinality(Files)

Order(n, s) ==
  /\ fileList = IF n = 0 THEN NoFile ELSE s[1]
  /\ \A i \in 1..n :
       /\ next[s[i]] = IF i = n THEN NoFile ELSE s[i + 1]
       /\ prev[s[i]] = IF i = 1 THEN NoFile ELSE s[i - 1]
  /\ \A i, j \in 1..n : name[s[i]] = name[s[j]] => i = j

LinkInv == \E n \in 0..Size : \E s \in [1..n -> Files] : Order(n, s)

LEMMA SizeIsNat == Size \in Nat /\ IsFiniteSet(Files) /\ NoFile \notin Files
  BY UserFSAssumption, FS_CardinalityType DEF Size

LEMMA Least ==
  ASSUME NEW S \in SUBSET Nat, S # {}
  PROVE  Min(S) \in S /\ \A k \in S : Min(S) <= k
<1>1. PICK m \in S : \A k \in S : ~(<<k, m>> \in OpToRel(<, Nat))
  BY NatLessThanWellFounded, WFMin
<1>2. \A k \in S : ~(k < m)
  BY <1>1 DEF OpToRel
<1>3. \A k \in S : m <= k
  BY <1>2
<1> QED
  BY <1>3, Zenon DEF Min

LEMMA Greatest ==
  ASSUME NEW S \in SUBSET Nat, NEW m \in S, \A k \in S : k <= m
  PROVE  Max(S) = m
<1>1. Max(S) \in S /\ \A k \in S : Max(S) >= k
  <2>1. \E x \in S : \A k \in S : x >= k
    OBVIOUS
  <2> QED
    BY <2>1, Zenon DEF Max
<1> DEFINE x == Max(S)
<1>2. x \in S /\ x >= m /\ x <= m
  BY <1>1
<1>3. x \in Nat /\ m \in Nat
  BY <1>2
<1> HIDE DEF x
<1>4. x = m
  BY <1>2, <1>3
<1> QED
  BY <1>4 DEF x

(* The loops go through the files of the order, and then find the null        *)
(* pointer: by induction over the steps, with the first at which they would   *)
(* part from the order.                                                       *)
WalkIs == \A n \in 0..Size : \A s \in [1..n -> Files] :
  Order(n, s) => Walk = [i \in 0..Size |-> IF i < n THEN s[i + 1] ELSE NoFile]

LEMMA WalkFollows == WalkIs
<1> SUFFICES ASSUME NEW n \in 0..Size, NEW s \in [1..n -> Files], Order(n, s)
             PROVE  Walk = [i \in 0..Size |-> IF i < n THEN s[i + 1] ELSE NoFile]
  BY DEF WalkIs
<1> DEFINE W == [i \in 0..Size |-> IF i < n THEN s[i + 1] ELSE NoFile]
           Unfold(at) == at = [i \in 0..Size |->
                                 IF i = 0 THEN fileList
                                 ELSE IF at[i - 1] = NoFile THEN NoFile ELSE next[at[i - 1]]]
<1>0. Size \in Nat /\ NoFile \notin Files
  BY SizeIsNat
<1>1. Unfold(W)
  <2> SUFFICES ASSUME NEW i \in 0..Size
               PROVE  W[i] = IF i = 0 THEN fileList
                             ELSE IF W[i - 1] = NoFile THEN NoFile ELSE next[W[i - 1]]
    BY Zenon
  <2>1. CASE i = 0
    BY <1>0, <2>1 DEF Order
  <2>2. CASE i > 0 /\ i < n
    <3>1. W[i - 1] = s[i] /\ i \in 1..n /\ s[i] \in Files /\ W[i] = s[i + 1]
      BY <1>0, <2>2
    <3>2. next[s[i]] = s[i + 1]
      BY <2>2, <3>1 DEF Order
    <3> QED
      BY <1>0, <2>2, <3>1, <3>2
  <2>3. CASE i > 0 /\ i = n
    <3>1. W[i - 1] = s[i] /\ i \in 1..n /\ s[i] \in Files /\ W[i] = NoFile
      BY <1>0, <2>3
    <3>2. next[s[i]] = NoFile
      BY <2>3, <3>1 DEF Order
    <3> QED
      BY <1>0, <2>3, <3>1, <3>2
  <2>4. CASE i > n
    <3>1. W[i - 1] = NoFile /\ W[i] = NoFile
      BY <1>0, <2>4
    <3> QED
      BY <2>4, <3>1
  <2> QED
    BY <1>0, <2>1, <2>2, <2>3, <2>4
<1>2. Walk = CHOOSE at : Unfold(at)
  BY DEF Walk, Size
<1>3. Unfold(Walk)
  BY <1>1, <1>2, ZenonT(30)
<1> HIDE DEF W
<1>4. ASSUME NEW i \in 0..Size, Walk[i] # W[i] PROVE FALSE
  <2> DEFINE S == {k \in 0..Size : Walk[k] # W[k]}
  <2>1. S \in SUBSET Nat /\ S # {}
    BY <1>4
  <2>2. PICK m \in S : \A k \in S : m <= k
    BY <2>1, Least, Zenon
  <2>3. Walk[m] # W[m] /\ m \in 0..Size
    BY <2>2
  <2>4. CASE m = 0
    BY <1>1, <1>3, <2>3, <2>4
  <2>5. CASE m # 0
    <3>1. m - 1 \in 0..Size /\ m - 1 \notin S
      BY <1>0, <2>2, <2>3, <2>5
    <3>2. Walk[m - 1] = W[m - 1]
      BY <3>1
    <3>3. W[m] = IF W[m - 1] = NoFile THEN NoFile ELSE next[W[m - 1]]
      BY <1>1, <2>3, <2>5
    <3>4. Walk[m] = IF Walk[m - 1] = NoFile THEN NoFile ELSE next[Walk[m - 1]]
      <4> HIDE DEF S
      <4> QED
        BY <1>3, <2>3, <2>5
    <3> QED
      BY <2>3, <3>2, <3>3, <3>4
  <2> QED
    BY <2>4, <2>5
<1>5. Walk = [i \in 0..Size |-> Walk[i]] /\ W = [i \in 0..Size |-> W[i]]
  BY <1>3 DEF W
<1> QED
  BY <1>4, <1>5, Zenon DEF W

(* What the searches of the list find. *)
LookupIs == \A n \in 0..Size : \A s \in [1..n -> Files] : Order(n, s) =>
  /\ Listed = {s[i] : i \in 1..n}
  /\ n > 0 => LastFile = s[n]
  /\ \A x \in Names : \A i \in 1..n : name[s[i]] = x => FileOf(x) = s[i]
  /\ \A x \in Names : (\A i \in 1..n : name[s[i]] # x) => FileOf(x) = NoFile

LEMMA Lookup == LookupIs
<1> SUFFICES ASSUME NEW n \in 0..Size, NEW s \in [1..n -> Files], Order(n, s)
             PROVE  /\ Listed = {s[i] : i \in 1..n}
                    /\ n > 0 => LastFile = s[n]
                    /\ \A x \in Names : \A i \in 1..n : name[s[i]] = x => FileOf(x) = s[i]
                    /\ \A x \in Names : (\A i \in 1..n : name[s[i]] # x) => FileOf(x) = NoFile
  BY DEF LookupIs
<1>0. Size \in Nat /\ NoFile \notin Files
  BY SizeIsNat
<1>1. Walk = [i \in 0..Size |-> IF i < n THEN s[i + 1] ELSE NoFile]
  BY WalkFollows DEF WalkIs
<1>2. DOMAIN Walk = 0..Size
  BY <1>1
<1>3. /\ \A i \in 0..Size : i < n => i + 1 \in 1..n /\ Walk[i] = s[i + 1] /\ s[i + 1] \in Files
      /\ \A i \in 0..Size : i >= n => Walk[i] = NoFile
  BY <1>0, <1>1
<1>4. \A i \in 1..n : i - 1 \in 0..Size /\ Walk[i - 1] = s[i]
  <2> SUFFICES ASSUME NEW i \in 1..n PROVE i - 1 \in 0..Size /\ Walk[i - 1] = s[i]
    OBVIOUS
  <2>1. i - 1 \in 0..Size /\ i - 1 < n /\ (i - 1) + 1 = i
    BY <1>0
  <2> QED
    BY <1>3, <2>1
<1>5. \A i \in 0..Size : Walk[i] # NoFile <=> i < n
  BY <1>0, <1>3
<1>6. Listed = {s[i] : i \in 1..n}
  <2>1. ASSUME NEW f \in Listed PROVE f \in {s[i] : i \in 1..n}
    <3>1. PICK i \in 0..Size : f = Walk[i] /\ f # NoFile
      BY <1>2, <2>1 DEF Listed
    <3> QED
      BY <1>3, <1>5, <3>1
  <2>2. ASSUME NEW i \in 1..n PROVE s[i] \in Listed
    <3>1. s[i] # NoFile /\ i - 1 \in DOMAIN Walk /\ Walk[i - 1] = s[i]
      BY <1>0, <1>2, <1>4
    <3> QED
      BY <3>1 DEF Listed
  <2> QED
    BY <2>1, <2>2
<1>7. n > 0 => LastFile = s[n]
  <2> SUFFICES ASSUME n > 0 PROVE LastFile = s[n]
    OBVIOUS
  <2> DEFINE S == {i \in DOMAIN Walk : Walk[i] # NoFile}
  <2>1. S = 0..(n - 1)
    BY <1>0, <1>2, <1>5
  <2>2. n - 1 \in S /\ S \in SUBSET Nat /\ \A k \in S : k <= n - 1
    BY <1>0, <2>1
  <2> HIDE DEF S
  <2>3. Max(S) = n - 1
    BY <2>2, Greatest
  <2> QED
    BY <1>4, <2>3 DEF LastFile, S
<1>8. ASSUME NEW x \in Names, NEW i \in 1..n, name[s[i]] = x
      PROVE  FileOf(x) = s[i]
  <2>1. ASSUME NEW j \in Found(x) PROVE j = i - 1
    <3>1. j \in 0..Size /\ j < n /\ name[Walk[j]] = x
      BY <1>2, <1>5 DEF Found
    <3>2. j + 1 \in 1..n /\ name[s[j + 1]] = x
      BY <1>3, <3>1
    <3> QED
      BY <1>0, <1>8, <3>1, <3>2 DEF Order
  <2>2. i - 1 \in Found(x)
    BY <1>0, <1>2, <1>4, <1>8 DEF Found
  <2>3. Found(x) = {i - 1}
    BY <2>1, <2>2
  <2>4. Found(x) \in SUBSET Nat /\ Found(x) # {}
    BY <1>0, <2>3
  <2>5. Min(Found(x)) = i - 1
    BY <2>3, <2>4, Least
  <2> QED
    BY <1>4, <2>4, <2>5 DEF FileOf
<1>9. ASSUME NEW x \in Names, \A i \in 1..n : name[s[i]] # x
      PROVE  FileOf(x) = NoFile
  <2>1. ASSUME NEW j \in Found(x) PROVE FALSE
    <3>1. j \in 0..Size /\ j < n /\ name[Walk[j]] = x
      BY <1>2, <1>5 DEF Found
    <3> QED
      BY <1>3, <1>9, <3>1
  <2> QED
    BY <2>1 DEF FileOf
<1> QED
  BY <1>6, <1>7, <1>8, <1>9

LEMMA LookupNext == LookupIs'
  BY Lookup, PTL

LEMMA Named ==
  ASSUME NEW n \in 0..Size, NEW s \in [1..n -> Files], Order(n, s),
         NEW x \in Names, FileOf(x) # NoFile
  PROVE  \E i \in 1..n : FileOf(x) = s[i] /\ name[s[i]] = x
<1> SUFFICES ASSUME \A i \in 1..n : name[s[i]] # x PROVE FALSE
  <2> SUFFICES ASSUME NEW i \in 1..n, name[s[i]] = x PROVE FileOf(x) = s[i]
    OBVIOUS
  <2> QED
    BY Lookup DEF LookupIs
<1> QED
  BY Lookup DEF LookupIs

(* A list that is left alone, and one that is dropped. *)
LEMMA ListRests ==
  ASSUME LinkInv, UNCHANGED listVars
  PROVE  LinkInv' /\ Listed' = Listed /\ \A x \in Names : FileOf(x)' = FileOf(x)
<1>1. LinkInv'
  <2>1. PICK n \in 0..Size : \E s \in [1..n -> Files] : Order(n, s)
    BY DEF LinkInv
  <2>2. PICK s \in [1..n -> Files] : Order(n, s)
    BY <2>1
  <2>3. Order(n, s)'
    BY <2>2 DEF listVars, Order
  <2> QED
    BY <2>3 DEF LinkInv
<1>2. Walk' = Walk
  BY DEF Walk, listVars
<1> QED
  BY <1>1, <1>2 DEF Listed, FileOf, Found, listVars

LEMMA EmptyList ==
  ASSUME fileList' = NoFile
  PROVE  LinkInv' /\ \A x \in Names : FileOf(x)' = NoFile
<1> DEFINE s == [i \in 1..0 |-> NoFile]
<1>1. 0 \in 0..Size /\ s \in [1..0 -> Files]
  BY SizeIsNat
<1>2. Order(0, s)'
  BY DEF Order
<1> HIDE DEF s
<1>3. LinkInv'
  BY <1>1, <1>2 DEF LinkInv
<1>4. \A x \in Names : FileOf(x)' = NoFile
  <2>1. \A i \in 1..0 : FALSE
    OBVIOUS
  <2>2. \A x \in Names : (\A i \in 1..0 : name'[s[i]] # x) => FileOf(x)' = NoFile
    BY <1>1, <1>2, LookupNext DEF LookupIs
  <2> QED
    BY <2>1, <2>2
<1> QED
  BY <1>3, <1>4

(* Files that are linked are as many as there are places at most. *)
LEMMA Fits ==
  ASSUME NEW n \in Nat, NEW s \in [1..n -> Files], \A i, j \in 1..n : s[i] = s[j] => i = j
  PROVE  n <= Size
<1>1. s \in Injection(1..n, Files)
  BY DEF Injection, IsInjective
<1>2. Cardinality(1..n) <= Size
  BY <1>1, SizeIsNat, FS_Injection DEF Size
<1>3. Cardinality(1..n) = n
  BY FS_Interval
<1> QED
  BY <1>2, <1>3

(* add_file: a new last one. *)
LEMMA Added ==
  ASSUME TypeOK, LinkInv, Listed \subseteq allocated,
         NEW n \in Names, NEW f \in Files, FileOf(n) = NoFile, AddFile(f, n)
  PROVE  /\ LinkInv'
         /\ Listed' = Listed \cup {f} /\ f \notin Listed
         /\ \A x \in Names : FileOf(x)' = IF x = n THEN f ELSE FileOf(x)
<1>0. Size \in Nat /\ NoFile \notin Files
  BY SizeIsNat
<1>a. PICK m \in 0..Size : \E s \in [1..m -> Files] : Order(m, s)
  BY DEF LinkInv
<1>1. PICK s \in [1..m -> Files] : Order(m, s)
  BY <1>a
<1>2. /\ Listed = {s[i] : i \in 1..m}
      /\ m > 0 => LastFile = s[m]
  BY <1>1, Lookup DEF LookupIs
<1>3. f \notin allocated /\ \A i \in 1..m : s[i] \in Files /\ s[i] # f
  BY <1>2 DEF AddFile
<1>4. \A i \in 1..m : name[s[i]] # n
  <2> SUFFICES ASSUME NEW i \in 1..m, name[s[i]] = n PROVE FALSE
    OBVIOUS
  <2>1. FileOf(n) = s[i]
    BY <1>1, Lookup DEF LookupIs
  <2> QED
    BY <1>0, <1>3, <2>1
<1> DEFINE t == [i \in 1..(m + 1) |-> IF i <= m THEN s[i] ELSE f]
<1>5. /\ t \in [1..(m + 1) -> Files] /\ m + 1 \in Nat
      /\ \A i \in 1..(m + 1) : t[i] = IF i <= m THEN s[i] ELSE f
  BY <1>0
<1>6. \A i \in 1..m : i \in 1..(m + 1) /\ t[i] = s[i]
  BY <1>0, <1>5
<1>7. t[m + 1] = f /\ \A i \in 1..(m + 1) : i \in 1..m \/ i = m + 1
  BY <1>0, <1>5
<1> HIDE DEF t
<1>8. \A i, j \in 1..(m + 1) : name'[t[i]] = name'[t[j]] => i = j
  <2>1. name'[f] = n /\ \A i \in 1..m : name'[s[i]] = name[s[i]]
    BY <1>3 DEF AddFile, TypeOK
  <2>2. \A i, j \in 1..m : name[s[i]] = name[s[j]] => i = j
    BY <1>1 DEF Order
  <2> QED
    BY <1>4, <1>6, <1>7, <2>1, <2>2
<1>9. m + 1 \in 0..Size
  <2>1. \A i, j \in 1..(m + 1) : t[i] = t[j] => i = j
    BY <1>8
  <2>2. m + 1 <= Size
    BY <1>5, <2>1, Fits
  <2> QED
    BY <1>0, <1>5, <2>2
<1>10. Order(m + 1, t)'
  <2>1. CASE m = 0
    <3>1. fileList = NoFile
      BY <1>1, <2>1 DEF Order
    <3>2. fileList' = f /\ next'[f] = NoFile /\ prev'[f] = NoFile
      BY <3>1 DEF AddFile, TypeOK
    <3>3. t[1] = f /\ \A i \in 1..(m + 1) : i = 1
      BY <1>7, <2>1
    <3> QED
      BY <1>8, <2>1, <3>2, <3>3 DEF Order
  <2>2. CASE m > 0
    <3>1. fileList # NoFile /\ fileList = s[1] /\ 1 \in 1..m /\ m \in 1..m
      BY <1>0, <1>1, <1>3, <2>2 DEF Order
    <3>2. LastFile = s[m] /\ s[m] \in Files /\ s[m] # f
      BY <1>2, <1>3, <2>2, <3>1
    <3>3. /\ fileList' = fileList
          /\ next' = [next EXCEPT ![f] = NoFile, ![s[m]] = f]
          /\ prev' = [prev EXCEPT ![f] = s[m]]
      BY <3>1, <3>2 DEF AddFile
    <3>4. fileList' = t[1]
      BY <1>6, <3>1, <3>3
    <3>5. ASSUME NEW i \in 1..(m + 1)
          PROVE  /\ next'[t[i]] = IF i = m + 1 THEN NoFile ELSE t[i + 1]
                 /\ prev'[t[i]] = IF i = 1 THEN NoFile ELSE t[i - 1]
      <4>1. CASE i = m + 1
        <5>1. t[i] = f /\ i # 1 /\ i - 1 = m /\ t[m] = s[m]
          BY <1>0, <1>6, <1>7, <2>2, <3>1, <4>1
        <5>2. next'[f] = NoFile /\ prev'[f] = s[m]
          BY <3>2, <3>3 DEF TypeOK
        <5> QED
          BY <4>1, <5>1, <5>2
      <4>2. CASE i = m
        <5>1. t[i] = s[m] /\ i # m + 1 /\ t[i + 1] = f
          BY <1>0, <1>6, <1>7, <3>1, <4>2
        <5>2. next'[s[m]] = f /\ prev'[s[m]] = prev[s[m]]
          BY <3>2, <3>3 DEF TypeOK
        <5>3. prev[s[m]] = IF m = 1 THEN NoFile ELSE s[m - 1]
          BY <1>1, <3>1 DEF Order
        <5>4. m # 1 => m - 1 \in 1..m
          BY <1>0, <3>1
        <5> QED
          BY <1>6, <4>2, <5>1, <5>2, <5>3, <5>4
      <4>3. CASE i < m
        <5>1. /\ i \in 1..m /\ i # m + 1 /\ i # m /\ i + 1 \in 1..m
              /\ t[i] = s[i] /\ t[i + 1] = s[i + 1] /\ i # 1 => i - 1 \in 1..m
          <6>1. i \in 1..m /\ i + 1 \in 1..m /\ i # m + 1 /\ i # m /\ (i # 1 => i - 1 \in 1..m)
            BY <1>0, <4>3
          <6> QED
            BY <1>6, <6>1
        <5>2. s[i] # s[m] /\ s[i] # f /\ s[i] \in Files
          BY <1>1, <1>3, <3>1, <5>1 DEF Order
        <5>3. next'[s[i]] = next[s[i]] /\ prev'[s[i]] = prev[s[i]]
          BY <3>2, <3>3, <5>2 DEF TypeOK
        <5>4. /\ next[s[i]] = IF i = m THEN NoFile ELSE s[i + 1]
              /\ prev[s[i]] = IF i = 1 THEN NoFile ELSE s[i - 1]
          BY <1>1, <5>1 DEF Order
        <5> QED
          BY <1>6, <5>1, <5>3, <5>4
      <4> QED
        BY <1>0, <4>1, <4>2, <4>3
    <3>6. m + 1 # 0
      BY <1>0
    <3> QED
      BY <1>8, <3>4, <3>5, <3>6 DEF Order
  <2> QED
    BY <1>0, <2>1, <2>2
<1>11. LinkInv'
  BY <1>5, <1>9, <1>10 DEF LinkInv
<1>12. /\ Listed' = {t[i] : i \in 1..(m + 1)}
       /\ \A x \in Names : \A i \in 1..(m + 1) : name'[t[i]] = x => FileOf(x)' = t[i]
       /\ \A x \in Names : (\A i \in 1..(m + 1) : name'[t[i]] # x) => FileOf(x)' = NoFile
  BY <1>5, <1>9, <1>10, LookupNext DEF LookupIs
<1>13. Listed' = Listed \cup {f} /\ f \notin Listed
  BY <1>0, <1>2, <1>3, <1>6, <1>7, <1>12
<1>14. ASSUME NEW x \in Names PROVE FileOf(x)' = IF x = n THEN f ELSE FileOf(x)
  <2>0. name'[f] = n /\ \A i \in 1..m : name'[s[i]] = name[s[i]]
    BY <1>3 DEF AddFile, TypeOK
  <2>1. CASE x = n
    BY <1>0, <1>7, <1>12, <2>0, <2>1
  <2>2. CASE x # n /\ \E i \in 1..m : name[s[i]] = x
    <3>1. PICK i \in 1..m : name[s[i]] = x
      BY <2>2
    <3>2. FileOf(x) = s[i]
      BY <1>1, <3>1, Lookup DEF LookupIs
    <3>3. FileOf(x)' = s[i]
      BY <1>6, <1>12, <2>0, <3>1
    <3> QED
      BY <2>2, <3>2, <3>3
  <2>3. CASE x # n /\ \A i \in 1..m : name[s[i]] # x
    <3>1. FileOf(x) = NoFile
      BY <1>1, <2>3, Lookup DEF LookupIs
    <3>2. \A i \in 1..(m + 1) : name'[t[i]] # x
      BY <1>6, <1>7, <2>0, <2>3
    <3> QED
      BY <1>12, <2>3, <3>1, <3>2
  <2> QED
    BY <2>1, <2>2, <2>3
<1> QED
  BY <1>11, <1>13, <1>14

(* ufs_delete: a file is taken out of the list. *)
LEMMA Unlinked ==
  ASSUME TypeOK, LinkInv, NEW n \in Names, FileOf(n) # NoFile, Unlink(FileOf(n))
  PROVE  /\ LinkInv'
         /\ FileOf(n) \in Listed /\ Listed' = Listed \ {FileOf(n)}
         /\ \A x \in Names : FileOf(x)' = IF x = n THEN NoFile ELSE FileOf(x)
<1>0. Size \in Nat /\ NoFile \notin Files
  BY SizeIsNat
<1>1. PICK m \in 0..Size : \E s \in [1..m -> Files] : Order(m, s)
  BY DEF LinkInv
<1>2. PICK s \in [1..m -> Files] : Order(m, s)
  BY <1>1
<1>3. PICK k \in 1..m : FileOf(n) = s[k] /\ name[s[k]] = n
  BY <1>2, Named
<1>4. /\ Listed = {s[i] : i \in 1..m}
      /\ \A i, j \in 1..m : name[s[i]] = name[s[j]] => i = j
      /\ \A i \in 1..m : s[i] \in Files
  BY <1>2, Lookup DEF LookupIs, Order
<1> DEFINE p == m - 1
           t == [i \in 1..p |-> IF i < k THEN s[i] ELSE s[i + 1]]
<1>5. /\ p \in 0..Size /\ k - 1 <= p /\ k \in Nat
      /\ \A i \in 1..p : i \in 1..m /\ i + 1 \in 1..m
  BY <1>0
<1>6. /\ t \in [1..p -> Files]
      /\ \A i \in 1..p : i < k => t[i] = s[i]
      /\ \A i \in 1..p : i >= k => t[i] = s[i + 1]
  BY <1>4, <1>5
<1> HIDE DEF t
<1>7. \A i \in 1..p : \E j \in 1..m : j # k /\ t[i] = s[j] /\ j = IF i < k THEN i ELSE i + 1
  BY <1>0, <1>4, <1>5, <1>6
<1>8. \A j \in 1..m : j # k => \E i \in 1..p : t[i] = s[j]
  <2> SUFFICES ASSUME NEW j \in 1..m, j # k PROVE \E i \in 1..p : t[i] = s[j]
    OBVIOUS
  <2>1. CASE j < k
    <3>1. j \in 1..p
      BY <1>0, <2>1
    <3>2. t[j] = s[j]
      BY <1>6, <2>1, <3>1
    <3> QED
      BY <3>1, <3>2
  <2>2. CASE j > k
    <3>1. j - 1 \in 1..p /\ j - 1 >= k /\ (j - 1) + 1 = j
      BY <1>0, <2>2
    <3> QED
      BY <1>6, <3>1
  <2> QED
    BY <1>0, <2>1, <2>2
<1>9. \A i, j \in 1..m : s[i] = s[j] => i = j
  BY <1>4
<1> DEFINE before == IF k = 1 THEN NoFile ELSE s[k - 1]
           behind == IF k = m THEN NoFile ELSE s[k + 1]
<1>10. prev[s[k]] = before /\ next[s[k]] = behind /\ s[k] \in Files
  BY <1>2, <1>4 DEF Order
<1>11. /\ k # 1 => k - 1 \in 1..m /\ before = s[k - 1] /\ before \in Files
       /\ k # m => k + 1 \in 1..m /\ behind = s[k + 1] /\ behind \in Files
  BY <1>0, <1>4
<1>12. /\ name' = name
       /\ k # 1 => next' = [next EXCEPT ![s[k - 1]] = behind] /\ fileList' = fileList
       /\ k = 1 => fileList' = behind /\ next' = next
  BY <1>0, <1>3, <1>10, <1>11 DEF Unlink
<1>13. prev' = IF k = m THEN prev ELSE [prev EXCEPT ![s[k + 1]] = before]
  BY <1>0, <1>3, <1>10, <1>11 DEF Unlink, UnlinkPrev
<1>14. fileList' = IF p = 0 THEN NoFile ELSE t[1]
  <2>1. CASE k = 1
    <3>1. p # 0 => k # m /\ 1 \in 1..p /\ t[1] = s[2]
      BY <1>0, <1>5, <1>6, <2>1
    <3>2. p = 0 => k = m
      BY <1>0, <2>1
    <3> QED
      BY <1>12, <2>1, <3>1, <3>2
  <2>2. CASE k # 1
    <3>1. p # 0 /\ 1 \in 1..p /\ t[1] = s[1]
      BY <1>0, <1>5, <1>6, <2>2
    <3>2. m # 0
      BY <1>0
    <3> QED
      BY <1>2, <1>12, <2>2, <3>1, <3>2 DEF Order
  <2> QED
    BY <2>1, <2>2
<1>15. ASSUME NEW i \in 1..p
       PROVE  next'[t[i]] = IF i = p THEN NoFile ELSE t[i + 1]
  <2>1. CASE i < k - 1
    <3>1. /\ i \in 1..m /\ i + 1 \in 1..p /\ i < k /\ i + 1 < k /\ i # p /\ i # m
          /\ k # 1 /\ k - 1 \in 1..m /\ i # k - 1
      BY <1>0, <1>5, <2>1
    <3>2. t[i] = s[i] /\ t[i + 1] = s[i + 1]
      BY <1>0, <1>5, <1>6, <3>1
    <3>3. s[i] # s[k - 1] /\ s[i] \in Files /\ s[k - 1] \in Files
      BY <1>4, <1>9, <3>1
    <3>4. next'[s[i]] = next[s[i]]
      BY <1>12, <3>1, <3>3 DEF TypeOK
    <3>5. next[s[i]] = s[i + 1]
      BY <1>2, <3>1 DEF Order
    <3> QED
      BY <3>1, <3>2, <3>4, <3>5
  <2>2. CASE i = k - 1
    <3>1. i \in 1..m /\ k # 1 /\ i < k /\ (i = p <=> k = m) /\ i + 1 = k
      BY <1>0, <1>5, <2>2
    <3>2. t[i] = s[k - 1] /\ s[k - 1] \in Files
      BY <1>0, <1>4, <1>5, <1>6, <2>2, <3>1
    <3>3. next'[t[i]] = behind
      BY <1>12, <3>1, <3>2 DEF TypeOK
    <3>4. i # p => k \in 1..p /\ t[k] = s[k + 1]
      <4>1. i # p => k \in 1..p /\ k >= k
        BY <1>0, <3>1
      <4> QED
        BY <1>6, <4>1
    <3> QED
      BY <3>1, <3>3, <3>4
  <2>3. CASE i >= k
    <3>1. i + 1 \in 1..m /\ (i + 1 = m <=> i = p) /\ i + 1 # k /\ i + 1 # k - 1
      BY <1>0, <1>5, <2>3
    <3>2. t[i] = s[i + 1]
      BY <1>6, <2>3
    <3>3. next'[s[i + 1]] = next[s[i + 1]]
      <4>1. k # 1 => s[i + 1] # s[k - 1]
        BY <1>9, <1>11, <3>1
      <4> QED
        BY <1>4, <1>11, <1>12, <3>1, <4>1 DEF TypeOK
    <3>4. next[s[i + 1]] = IF i + 1 = m THEN NoFile ELSE s[(i + 1) + 1]
      BY <1>2, <3>1 DEF Order
    <3>5. i # p => i + 1 \in 1..p /\ i + 1 >= k
      BY <1>0, <1>5, <2>3
    <3>6. i # p => t[i + 1] = s[(i + 1) + 1]
      BY <1>6, <3>5
    <3> QED
      BY <3>1, <3>2, <3>3, <3>4, <3>6
  <2> QED
    BY <1>0, <1>5, <2>1, <2>2, <2>3
<1>16. ASSUME NEW i \in 1..p
       PROVE  prev'[t[i]] = IF i = 1 THEN NoFile ELSE t[i - 1]
  <2>1. CASE i < k
    <3>1. i \in 1..m /\ (i # 1 => i - 1 \in 1..p /\ i - 1 < k) /\ (k # m => i # k + 1)
      BY <1>0, <1>5, <2>1
    <3>2. t[i] = s[i] /\ (i # 1 => t[i - 1] = s[i - 1])
      BY <1>0, <1>5, <1>6, <2>1, <3>1
    <3>3. prev'[s[i]] = prev[s[i]]
      <4>1. k # m => s[i] # s[k + 1]
        BY <1>9, <1>11, <3>1
      <4> QED
        BY <1>4, <1>11, <1>13, <3>1, <4>1 DEF TypeOK
    <3>4. prev[s[i]] = IF i = 1 THEN NoFile ELSE s[i - 1]
      BY <1>2, <3>1 DEF Order
    <3> QED
      BY <3>2, <3>3, <3>4
  <2>2. CASE i = k
    <3>1. k # m /\ i >= k /\ (k # 1 => k - 1 \in 1..p /\ k - 1 < k)
      BY <1>0, <1>5, <2>2
    <3>2. t[i] = s[k + 1] /\ (k # 1 => t[k - 1] = s[k - 1])
      BY <1>0, <1>5, <1>6, <2>2, <3>1
    <3>3. prev'[s[k + 1]] = before
      BY <1>11, <1>13, <3>1 DEF TypeOK
    <3> QED
      BY <2>2, <3>2, <3>3
  <2>3. CASE i > k
    <3>1. /\ i + 1 \in 1..m /\ i + 1 # 1 /\ i # 1 /\ i - 1 \in 1..p /\ i - 1 >= k
          /\ (i - 1) + 1 = i /\ (i + 1) - 1 = i /\ i + 1 # k + 1 /\ i >= k
      BY <1>0, <1>5, <2>3
    <3>2. t[i] = s[i + 1] /\ t[i - 1] = s[i]
      BY <1>6, <3>1
    <3>3. prev'[s[i + 1]] = prev[s[i + 1]]
      <4>1. k # m => s[i + 1] # s[k + 1]
        BY <1>9, <1>11, <3>1
      <4> QED
        BY <1>4, <1>11, <1>13, <3>1, <4>1 DEF TypeOK
    <3>4. prev[s[i + 1]] = s[i]
      BY <1>2, <3>1 DEF Order
    <3> QED
      BY <3>1, <3>2, <3>3, <3>4
  <2> QED
    BY <1>0, <1>5, <2>1, <2>2, <2>3
<1>17. \A i, j \in 1..p : name'[t[i]] = name'[t[j]] => i = j
  <2> SUFFICES ASSUME NEW i \in 1..p, NEW j \in 1..p, name[t[i]] = name[t[j]]
               PROVE  i = j
    BY <1>12
  <2>1. PICK a \in 1..m : t[i] = s[a] /\ a = IF i < k THEN i ELSE i + 1
    BY <1>7
  <2>2. PICK b \in 1..m : t[j] = s[b] /\ b = IF j < k THEN j ELSE j + 1
    BY <1>7
  <2>3. a = b
    BY <1>4, <2>1, <2>2
  <2> QED
    BY <1>0, <2>1, <2>2, <2>3
<1>18. Order(p, t)'
  BY <1>14, <1>15, <1>16, <1>17 DEF Order
<1>19. LinkInv'
  BY <1>5, <1>6, <1>18 DEF LinkInv
<1> HIDE DEF p
<1>20. /\ Listed' = {t[i] : i \in 1..p}
       /\ \A x \in Names : \A i \in 1..p : name[t[i]] = x => FileOf(x)' = t[i]
       /\ \A x \in Names : (\A i \in 1..p : name[t[i]] # x) => FileOf(x)' = NoFile
  <2>1. /\ Listed' = {t[i] : i \in 1..p}
        /\ \A x \in Names : \A i \in 1..p : name'[t[i]] = x => FileOf(x)' = t[i]
        /\ \A x \in Names : (\A i \in 1..p : name'[t[i]] # x) => FileOf(x)' = NoFile
    BY <1>5, <1>6, <1>18, LookupNext DEF LookupIs
  <2> QED
    BY <1>12, <2>1
<1>21. FileOf(n) \in Listed /\ Listed' = Listed \ {FileOf(n)}
  <2>1. \A j \in 1..m : j # k => s[j] # s[k]
    BY <1>9
  <2>2. FileOf(n) \in Listed
    BY <1>3, <1>4
  <2>3. ASSUME NEW f \in Listed' PROVE f \in Listed \ {FileOf(n)}
    <3>1. PICK i \in 1..p : f = t[i]
      BY <1>20, <2>3
    <3>2. PICK j \in 1..m : j # k /\ f = s[j]
      BY <1>7, <3>1
    <3> QED
      BY <1>3, <1>4, <2>1, <3>2
  <2>4. ASSUME NEW f \in Listed \ {FileOf(n)} PROVE f \in Listed'
    <3>1. PICK j \in 1..m : f = s[j]
      BY <1>4
    <3>2. j # k
      BY <1>3, <2>4, <3>1
    <3>3. PICK i \in 1..p : t[i] = s[j]
      BY <1>8, <3>2
    <3> QED
      BY <1>20, <3>1, <3>3
  <2> QED
    BY <2>2, <2>3, <2>4
<1>22. ASSUME NEW x \in Names PROVE FileOf(x)' = IF x = n THEN NoFile ELSE FileOf(x)
  <2>1. CASE x = n
    <3>1. \A i \in 1..p : name[t[i]] # n
      BY <1>3, <1>4, <1>7
    <3> QED
      BY <1>20, <2>1, <3>1
  <2>2. CASE x # n /\ \E j \in 1..m : name[s[j]] = x
    <3>1. PICK j \in 1..m : name[s[j]] = x
      BY <2>2
    <3>2. j # k
      BY <1>3, <2>2, <3>1
    <3>3. PICK i \in 1..p : t[i] = s[j]
      BY <1>8, <3>2
    <3>4. FileOf(x) = s[j]
      BY <1>2, <3>1, Lookup DEF LookupIs
    <3> QED
      BY <1>20, <2>2, <3>1, <3>3, <3>4
  <2>3. CASE x # n /\ \A j \in 1..m : name[s[j]] # x
    <3>1. FileOf(x) = NoFile
      BY <1>2, <2>3, Lookup DEF LookupIs
    <3>2. \A i \in 1..p : name[t[i]] # x
      BY <1>7, <2>3
    <3> QED
      BY <1>20, <2>3, <3>1, <3>2
  <2> QED
    BY <2>1, <2>2, <2>3
<1> QED
  BY <1>19, <1>21, <1>22

-------------------------------------------------------------------------------
(* The descriptors.  A file that has lost its name is marked as removed, and  *)
(* no other is: that is how a close knows which to free.                      *)

InUse == {fd \in DOMAIN table : table[fd] # NoFile}

LivesInv ==
  /\ allocated = Listed \cup {f \in Files : OnFile(f) # {}}
  /\ \A f \in allocated : refs[f] = Cardinality(OnFile(f)) /\ (removed[f] <=> f \notin Listed)
  /\ Cardinality(InUse) <= count
  /\ capacity <= count + TableStep

Inv == TypeOK /\ LinkInv /\ (state = "up" => LivesInv)

LEMMA Lives ==
  ASSUME LivesInv, NEW g \in allocated
  PROVE  refs[g] = Cardinality(OnFile(g)) /\ (removed[g] <=> g \notin Listed)
BY Zenon DEF LivesInv

LEMMA Counted ==
  ASSUME TypeOK
  PROVE  /\ IsFiniteSet(InUse) /\ Cardinality(InUse) \in Nat
         /\ \A f : IsFiniteSet(OnFile(f)) /\ Cardinality(OnFile(f)) \in Nat
<1>1. DOMAIN table = 0..(capacity - 1) /\ capacity \in Nat
  BY DEF TypeOK, Places
<1>2. IsFiniteSet(DOMAIN table)
  BY <1>1, FS_Interval
<1>3. IsFiniteSet(InUse) /\ \A f : IsFiniteSet(OnFile(f))
  <2>1. InUse \in SUBSET DOMAIN table /\ \A f : OnFile(f) \in SUBSET DOMAIN table
    BY DEF InUse, OnFile
  <2> QED
    BY <1>2, <2>1, FS_Subset
<1> QED
  BY <1>3, FS_CardinalityType

(* create_filedesc finds a place that is empty and inside of the table: fewer *)
(* are in use than descriptors were ever made, and the table was made longer  *)
(* than that.                                                                 *)
LEMMA Room ==
  ASSUME TypeOK, LivesInv, NEW f \in Files, NEW r, CreateFiledesc(f, r)
  PROVE  LET fd == FreePlace(capacity') IN
         /\ capacity' \in Nat /\ capacity <= capacity'
         /\ count + 1 <= capacity' /\ capacity' <= count + 1 + TableStep
         /\ fd \in Places(capacity') /\ At(fd) = NoFile
         /\ table' = [i \in Places(capacity') |-> IF i = fd THEN f ELSE At(i)]
<1> DEFINE c == capacity'
           fd == FreePlace(c)
           Free == {i \in Places(c) : At(i) = NoFile}
<1>0. /\ capacity \in Nat /\ count \in Nat /\ count <= capacity /\ TableStep \in Nat \ {0}
      /\ capacity <= count + TableStep /\ Cardinality(InUse) <= count
  BY UserFSAssumption DEF TypeOK, LivesInv
<1>1. c \in Nat /\ capacity <= c /\ count + 1 <= c /\ c <= count + 1 + TableStep
  BY <1>0 DEF CreateFiledesc, TableFull
<1> HIDE DEF c
<1>2. Free # {}
  <2> SUFFICES ASSUME Free = {} PROVE FALSE
    OBVIOUS
  <2>1. Places(c) \in SUBSET InUse
    BY DEF InUse, At
  <2>2. Cardinality(Places(c)) <= Cardinality(InUse)
    BY <2>1, Counted, FS_Subset
  <2>3. Cardinality(Places(c)) = c
    BY <1>1, FS_Interval DEF Places
  <2> QED
    BY <1>0, <1>1, <2>2, <2>3, Counted
<1>3. Free \cup {c} \in SUBSET Nat /\ Free \cup {c} # {}
  BY <1>1 DEF Places
<1>4. fd = Min(Free \cup {c})
  BY DEF FreePlace
<1> HIDE DEF fd
<1>5. fd \in Free \cup {c} /\ \A k \in Free \cup {c} : fd <= k
  BY <1>3, <1>4, Least
<1>6. fd \in Free
  <2>1. PICK k \in Free : TRUE
    BY <1>2
  <2>2. k < c /\ k \in Nat
    BY <1>1, <2>1 DEF Places
  <2> QED
    BY <1>1, <1>5, <2>1, <2>2
<1>7. Places(c) \cup {fd} = Places(c)
  BY <1>6
<1>8. table' = [i \in Places(c) \cup {fd} |-> IF i = fd THEN f ELSE At(i)]
  BY DEF CreateFiledesc, c, fd
<1> QED
  BY <1>1, <1>6, <1>7, <1>8 DEF c, fd

(* What a new descriptor, and one closed, does to the counts. *)
LEMMA Opened ==
  ASSUME TypeOK, TypeOK', LivesInv, NEW f \in Files, NEW r, CreateFiledesc(f, r)
  PROVE  /\ OnFile(f)' # {} /\ Cardinality(OnFile(f)') = Cardinality(OnFile(f)) + 1
         /\ \A g \in Files : g # f => OnFile(g)' = OnFile(g)
         /\ Cardinality(InUse') <= count'
<1> DEFINE fd == FreePlace(capacity')
<1>1. /\ capacity' \in Nat /\ capacity <= capacity'
      /\ fd \in Places(capacity') /\ At(fd) = NoFile
      /\ table' = [i \in Places(capacity') |-> IF i = fd THEN f ELSE At(i)]
  BY Room
<1> HIDE DEF fd
<1>2. capacity \in Nat /\ DOMAIN table = Places(capacity) /\ count' = count + 1 /\ count \in Nat
  BY DEF TypeOK, CreateFiledesc
<1>3. Places(capacity) \subseteq Places(capacity') /\ NoFile \notin Files
  <2>1. \A a, b \in Nat : a <= b => 0..(a - 1) \subseteq 0..(b - 1)
    OBVIOUS
  <2> QED
    BY <1>1, <1>2, <2>1, SizeIsNat DEF Places
<1>4. OnFile(f)' = OnFile(f) \cup {fd} /\ fd \notin OnFile(f)
  BY <1>1, <1>2, <1>3 DEF OnFile, At
<1>5. \A g \in Files : g # f => OnFile(g)' = OnFile(g)
  BY <1>1, <1>2, <1>3 DEF OnFile, At
<1>6. InUse' = InUse \cup {fd} /\ fd \notin InUse
  BY <1>1, <1>2, <1>3 DEF InUse, At
<1>7. Cardinality(OnFile(f)') = Cardinality(OnFile(f)) + 1
  BY <1>4, Counted, FS_AddElement
<1>8. Cardinality(InUse') = Cardinality(InUse) + 1 /\ Cardinality(InUse) \in Nat
  BY <1>6, Counted, FS_AddElement
<1>9. Cardinality(InUse') <= count'
  BY <1>2, <1>8 DEF LivesInv
<1> QED
  BY <1>4, <1>5, <1>7, <1>9

LEMMA Closed ==
  ASSUME TypeOK, LivesInv, NEW fd \in DOMAIN table, NEW f \in Files, f = table[fd],
         table' = [table EXCEPT ![fd] = NoFile], count' = count
  PROVE  /\ OnFile(f) # {} /\ Cardinality(OnFile(f)) \in Nat
         /\ Cardinality(OnFile(f)') = Cardinality(OnFile(f)) - 1
         /\ OnFile(f)' = {} <=> Cardinality(OnFile(f)') = 0
         /\ \A g \in Files : g # f => OnFile(g)' = OnFile(g)
         /\ Cardinality(InUse') <= count'
<1>1. f \in Files /\ table \in [DOMAIN table -> Pointers] /\ NoFile \notin Files
  BY SizeIsNat DEF TypeOK, Pointers
<1>2. OnFile(f)' = OnFile(f) \ {fd} /\ fd \in OnFile(f)
  BY <1>1 DEF OnFile
<1>3. \A g \in Files : g # f => OnFile(g)' = OnFile(g)
  BY <1>1 DEF OnFile
<1>4. InUse' = InUse \ {fd} /\ fd \in InUse
  BY <1>1 DEF InUse
<1>5. /\ Cardinality(OnFile(f)') = Cardinality(OnFile(f)) - 1
      /\ IsFiniteSet(OnFile(f)')
  BY <1>2, Counted, FS_RemoveElement
<1>6. OnFile(f)' = {} <=> Cardinality(OnFile(f)') = 0
  BY <1>5, FS_EmptySet
<1>7. Cardinality(InUse') = Cardinality(InUse) - 1
  BY <1>4, Counted, FS_RemoveElement
<1>8. Cardinality(InUse') <= count'
  BY <1>7, Counted DEF LivesInv, TypeOK
<1>9. Cardinality(OnFile(f)) \in Nat
  BY Counted
<1> QED
  BY <1>1, <1>2, <1>3, <1>5, <1>6, <1>8, <1>9

LEMMA TableTypes ==
  ASSUME TypeOK, LivesInv, count < MaxOpens,
         NEW f \in Files, NEW r \in Nat, CreateFiledesc(f, r)
  PROVE  /\ table' \in [Places(capacity') -> Pointers] /\ capacity' \in Nat
         /\ count' \in 0..MaxOpens /\ count' <= capacity'
         /\ refs' = [refs EXCEPT ![f] = r + 1] /\ refs' \in [Files -> Nat]
         /\ capacity' <= count' + TableStep
<1> DEFINE fd == FreePlace(capacity')
<1>1. /\ capacity' \in Nat /\ count + 1 <= capacity' /\ capacity' <= count + 1 + TableStep
      /\ table' = [i \in Places(capacity') |-> IF i = fd THEN f ELSE At(i)]
  BY Room
<1> HIDE DEF fd
<1>2. \A i : At(i) \in Pointers
  BY DEF At, TypeOK, Pointers
<1>3. count' = count + 1 /\ refs' = [refs EXCEPT ![f] = r + 1]
  BY DEF CreateFiledesc, OneMoreRef
<1>4. table' \in [Places(capacity') -> Pointers]
  BY <1>1, <1>2 DEF Pointers
<1>5. count' \in 0..MaxOpens /\ count' <= capacity' /\ capacity' <= count' + TableStep
  BY <1>1, <1>3, UserFSAssumption DEF TypeOK
<1>6. refs' \in [Files -> Nat]
  BY <1>3 DEF TypeOK
<1> QED
  BY <1>1, <1>3, <1>4, <1>5, <1>6

LEMMA OpenInv ==
  ASSUME Inv, NEW n \in Names, Open(n)
  PROVE  Inv'
<1>0. PICK f : f = FileOf(n)
  OBVIOUS
<1>1. TypeOK /\ LinkInv /\ LivesInv /\ state = "up" /\ state' = "up"
  BY DEF Inv, Open, Up
<1>2. f \in Listed /\ f \in Files
  <2>1. PICK m \in 0..Size : \E s \in [1..m -> Files] : Order(m, s)
    BY <1>1 DEF LinkInv
  <2>2. PICK s \in [1..m -> Files] : Order(m, s)
    BY <2>1
  <2>3. PICK i \in 1..m : f = s[i]
    BY <1>0, <2>2, Named DEF Open
  <2> QED
    BY <2>2, <2>3, Lookup DEF LookupIs
<1>3. f \in allocated /\ refs[f] \in Nat /\ refs[f] = Cardinality(OnFile(f))
  <2>1. f \in allocated
    BY <1>1, <1>2 DEF LivesInv
  <2> QED
    BY <1>1, <1>2, <2>1, Lives DEF TypeOK
<1>4. /\ CreateFiledesc(f, refs[f]) /\ count < MaxOpens
      /\ UNCHANGED listVars /\ removed' = removed /\ allocated' = allocated
  BY <1>0 DEF Open
<1>5. LinkInv' /\ Listed' = Listed
  BY <1>1, <1>4, ListRests
<1>6. /\ table' \in [Places(capacity') -> Pointers] /\ capacity' \in Nat
      /\ count' \in 0..MaxOpens /\ count' <= capacity'
      /\ refs' = [refs EXCEPT ![f] = refs[f] + 1] /\ refs' \in [Files -> Nat]
      /\ capacity' <= count' + TableStep
  BY <1>1, <1>2, <1>3, <1>4, TableTypes
<1>7. TypeOK'
  BY <1>1, <1>4, <1>6 DEF TypeOK, listVars
<1>8. /\ OnFile(f)' # {} /\ Cardinality(OnFile(f)') = Cardinality(OnFile(f)) + 1
      /\ \A g \in Files : g # f => OnFile(g)' = OnFile(g)
      /\ Cardinality(InUse') <= count'
  BY <1>1, <1>2, <1>4, <1>7, Opened
<1>9. LivesInv'
  <2>1. allocated' = Listed' \cup {g \in Files : OnFile(g)' # {}}
    BY <1>1, <1>2, <1>4, <1>5, <1>8 DEF LivesInv
  <2>2. ASSUME NEW g \in allocated
        PROVE  refs'[g] = Cardinality(OnFile(g)') /\ (removed'[g] <=> g \notin Listed')
    <3>1. g \in Files /\ refs[g] = Cardinality(OnFile(g)) /\ (removed[g] <=> g \notin Listed)
      BY <1>1, Lives DEF TypeOK
    <3>2. refs'[g] = IF g = f THEN refs[f] + 1 ELSE refs[g]
      BY <1>1, <1>6, <3>1 DEF TypeOK
    <3> QED
      BY <1>3, <1>4, <1>5, <1>8, <3>1, <3>2
  <2> QED
    BY <1>4, <1>6, <1>8, <2>1, <2>2 DEF LivesInv
<1> QED
  BY <1>1, <1>5, <1>7, <1>9 DEF Inv

LEMMA CreateInv ==
  ASSUME Inv, NEW n \in Names, NEW f \in Files, Create(n, f)
  PROVE  Inv'
<1>1. TypeOK /\ LinkInv /\ LivesInv /\ state = "up" /\ state' = "up"
  BY DEF Inv, Create, Up
<1>2. CreateFiledesc(f, 0) /\ count < MaxOpens /\ AddFile(f, n) /\ FileOf(n) = NoFile
  BY DEF Create
<1>3. Listed \subseteq allocated /\ f \notin allocated /\ OnFile(f) = {}
  BY <1>1, <1>2 DEF LivesInv, AddFile
<1>4. LinkInv' /\ Listed' = Listed \cup {f}
  BY <1>1, <1>2, <1>3, Added
<1>5. /\ table' \in [Places(capacity') -> Pointers] /\ capacity' \in Nat
      /\ count' \in 0..MaxOpens /\ count' <= capacity'
      /\ refs' = [refs EXCEPT ![f] = 0 + 1] /\ refs' \in [Files -> Nat]
      /\ capacity' <= count' + TableStep
  BY <1>1, <1>2, TableTypes
<1>6. /\ allocated' = allocated \cup {f}
      /\ removed' = [removed EXCEPT ![f] = FALSE]
      /\ name' = [name EXCEPT ![f] = n]
      /\ fileList' \in Pointers /\ next' \in [Files -> Pointers] /\ prev' \in [Files -> Pointers]
  <2>1. CASE fileList = NoFile
    BY <1>1, <1>2, <2>1 DEF AddFile, TypeOK, Pointers
  <2>2. CASE fileList # NoFile
    <3>1. LastFile \in Pointers
      <4>1. PICK m \in 0..Size : \E s \in [1..m -> Files] : Order(m, s)
        BY <1>1 DEF LinkInv
      <4>2. PICK s \in [1..m -> Files] : Order(m, s)
        BY <4>1
      <4>3. m > 0 /\ m \in 1..m
        BY <2>2, <4>2, SizeIsNat DEF Order
      <4>4. LastFile = s[m]
        BY <4>2, <4>3, Lookup DEF LookupIs
      <4> QED
        BY <4>3, <4>4 DEF Pointers
    <3>2. /\ next' = [next EXCEPT ![f] = NoFile, ![LastFile] = f]
          /\ prev' = [prev EXCEPT ![f] = LastFile] /\ fileList' = fileList
      BY <1>2, <2>2 DEF AddFile
    <3> HIDE DEF LastFile
    <3>3. fileList' \in Pointers /\ next' \in [Files -> Pointers] /\ prev' \in [Files -> Pointers]
      BY <1>1, <3>1, <3>2 DEF TypeOK, Pointers
    <3> QED
      BY <1>2, <3>3 DEF AddFile
  <2> QED
    BY <2>1, <2>2
<1>7. TypeOK'
  BY <1>1, <1>5, <1>6 DEF TypeOK
<1>8. /\ OnFile(f)' # {} /\ Cardinality(OnFile(f)') = Cardinality(OnFile(f)) + 1
      /\ \A g \in Files : g # f => OnFile(g)' = OnFile(g)
      /\ Cardinality(InUse') <= count'
  BY <1>1, <1>2, <1>7, Opened
<1>9. LivesInv'
  <2>1. allocated' = Listed' \cup {g \in Files : OnFile(g)' # {}}
    BY <1>1, <1>3, <1>4, <1>6, <1>8 DEF LivesInv
  <2>2. ASSUME NEW g \in allocated'
        PROVE  refs'[g] = Cardinality(OnFile(g)') /\ (removed'[g] <=> g \notin Listed')
    <3>1. CASE g = f
      <4>1. refs'[f] = 1 /\ removed'[f] = FALSE /\ f \in Listed'
        BY <1>1, <1>4, <1>5, <1>6 DEF TypeOK
      <4>2. Cardinality(OnFile(f)') = 1
        BY <1>3, <1>8, FS_EmptySet
      <4> QED
        BY <3>1, <4>1, <4>2
    <3>2. CASE g # f
      <4>1. g \in allocated /\ g \in Files
        BY <1>1, <1>6, <3>2, <2>2 DEF TypeOK
      <4>2. refs[g] = Cardinality(OnFile(g)) /\ (removed[g] <=> g \notin Listed)
        BY <1>1, <4>1, Lives
      <4>3. refs'[g] = refs[g] /\ removed'[g] = removed[g] /\ (g \in Listed' <=> g \in Listed)
        BY <1>1, <1>4, <1>5, <1>6, <3>2, <4>1 DEF TypeOK
      <4> QED
        BY <1>8, <3>2, <4>1, <4>2, <4>3
    <3> QED
      BY <3>1, <3>2
  <2> QED
    BY <1>5, <1>8, <2>1, <2>2 DEF LivesInv
<1> QED
  BY <1>1, <1>4, <1>7, <1>9 DEF Inv

LEMMA CloseInv ==
  ASSUME Inv, NEW fd \in DOMAIN table, Close(fd)
  PROVE  Inv'
<1>1. TypeOK /\ LinkInv /\ LivesInv /\ state = "up" /\ state' = "up"
  BY DEF Inv, Close, Up
<1>2. PICK f \in Files : f = table[fd]
  BY <1>1 DEF Close, Valid, TypeOK, Pointers
<1>3. /\ f # NoFile
      /\ refs' = [refs EXCEPT ![f] = refs[f] - 1]
      /\ allocated' = IF removed[f] /\ refs[f] - 1 = 0 THEN allocated \ {f} ELSE allocated
      /\ table' = [table EXCEPT ![fd] = NoFile]
      /\ UNCHANGED listVars /\ removed' = removed /\ capacity' = capacity /\ count' = count
  BY <1>2 DEF Close, Valid, FreesOnClose
<1>4. LinkInv' /\ Listed' = Listed
  BY <1>1, <1>3, ListRests
<1>5. /\ OnFile(f) # {} /\ Cardinality(OnFile(f)) \in Nat
      /\ Cardinality(OnFile(f)') = Cardinality(OnFile(f)) - 1
      /\ OnFile(f)' = {} <=> Cardinality(OnFile(f)') = 0
      /\ \A g \in Files : g # f => OnFile(g)' = OnFile(g)
      /\ Cardinality(InUse') <= count'
  <2>1. table' = [table EXCEPT ![fd] = NoFile] /\ count' = count
    BY <1>3
  <2> QED
    BY <1>1, <1>2, <2>1, Closed
<1>6. f \in allocated /\ refs[f] = Cardinality(OnFile(f)) /\ (removed[f] <=> f \notin Listed)
  <2>1. f \in allocated
    BY <1>1, <1>5 DEF LivesInv
  <2> QED
    BY <1>1, <2>1, Lives
<1>7. refs[f] - 1 \in Nat
  <2>1. Cardinality(OnFile(f)) # 0
    BY <1>1, <1>5, Counted, FS_EmptySet
  <2> QED
    BY <1>5, <1>6, <2>1
<1>8. TypeOK'
  <2>1. table' \in [Places(capacity') -> Pointers]
    BY <1>1, <1>3 DEF TypeOK, Pointers
  <2>2. refs' \in [Files -> Nat] /\ allocated' \subseteq Files
    BY <1>1, <1>3, <1>7 DEF TypeOK
  <2> QED
    BY <1>1, <1>3, <2>1, <2>2 DEF TypeOK, listVars
<1>9. LivesInv'
  <2>1. f \in allocated' <=> f \in Listed \/ OnFile(f)' # {}
    BY <1>3, <1>5, <1>6
  <2>2. \A g : g # f => (g \in allocated' <=> g \in allocated)
    BY <1>3
  <2>3. allocated' = Listed' \cup {g \in Files : OnFile(g)' # {}}
    BY <1>1, <1>4, <1>5, <2>1, <2>2 DEF LivesInv
  <2>4. ASSUME NEW g \in allocated'
        PROVE  refs'[g] = Cardinality(OnFile(g)') /\ (removed'[g] <=> g \notin Listed')
    <3>1. g \in allocated /\ g \in Files
      BY <1>1, <1>6, <2>2, <2>4 DEF TypeOK
    <3>2. refs[g] = Cardinality(OnFile(g)) /\ (removed[g] <=> g \notin Listed)
      BY <1>1, <3>1, Lives
    <3>3. refs'[g] = IF g = f THEN refs[f] - 1 ELSE refs[g]
      BY <1>1, <1>3, <3>1 DEF TypeOK
    <3> QED
      BY <1>3, <1>4, <1>5, <1>6, <3>1, <3>2, <3>3
  <2> QED
    BY <1>1, <1>3, <1>5, <2>3, <2>4 DEF LivesInv
<1> QED
  BY <1>1, <1>4, <1>8, <1>9 DEF Inv

LEMMA DeleteInv ==
  ASSUME Inv, NEW n \in Names, Delete(n)
  PROVE  Inv'
<1>1. TypeOK /\ LinkInv /\ LivesInv /\ state = "up" /\ state' = "up"
  BY DEF Inv, Delete, Up
<1>2. /\ LinkInv' /\ FileOf(n) \in Listed /\ Listed' = Listed \ {FileOf(n)}
  BY <1>1, Unlinked DEF Delete
<1>3. PICK f \in Files : f = FileOf(n)
  BY <1>1, <1>2 DEF LivesInv, TypeOK
<1>4. f \in allocated /\ refs[f] = Cardinality(OnFile(f)) /\ ~removed[f]
  <2>1. f \in allocated
    BY <1>1, <1>2, <1>3 DEF LivesInv
  <2> QED
    BY <1>1, <1>2, <1>3, <2>1, Lives
<1>5. /\ allocated' = IF refs[f] = 0 THEN allocated \ {f} ELSE allocated
      /\ removed' = IF refs[f] = 0 THEN removed ELSE [removed EXCEPT ![f] = TRUE]
      /\ refs' = refs /\ table' = table /\ capacity' = capacity /\ count' = count
      /\ Unlink(f)
  BY <1>3 DEF Delete, tableVars
<1>6. TypeOK'
  <2>1. next[f] \in Pointers /\ prev[f] \in Pointers
    BY <1>1, <1>3 DEF TypeOK
  <2>2. /\ fileList' \in Pointers /\ name' \in [Files -> Names]
        /\ next' \in [Files -> Pointers] /\ prev' \in [Files -> Pointers]
    BY <1>1, <1>5, <2>1 DEF TypeOK, Unlink, UnlinkPrev
  <2>3. allocated' \subseteq Files /\ removed' \in [Files -> BOOLEAN]
    BY <1>1, <1>5 DEF TypeOK
  <2> QED
    BY <1>1, <1>5, <2>2, <2>3 DEF TypeOK
<1>7. \A g : OnFile(g)' = OnFile(g)
  BY <1>5 DEF OnFile
<1>8. LivesInv'
  <2>1. refs[f] = 0 <=> OnFile(f) = {}
    BY <1>1, <1>4, Counted, FS_EmptySet
  <2>2. allocated' = Listed' \cup {g \in Files : OnFile(g)' # {}}
    BY <1>1, <1>2, <1>3, <1>5, <1>7, <2>1 DEF LivesInv
  <2>3. ASSUME NEW g \in allocated'
        PROVE  refs'[g] = Cardinality(OnFile(g)') /\ (removed'[g] <=> g \notin Listed')
    <3>1. g \in allocated /\ g \in Files
      BY <1>1, <1>5, <2>3 DEF TypeOK
    <3>2. refs[g] = Cardinality(OnFile(g)) /\ (removed[g] <=> g \notin Listed)
      BY <1>1, <3>1, Lives
    <3>3. refs'[g] = Cardinality(OnFile(g)')
      BY <1>5, <1>7, <3>2
    <3>4. CASE g = f
      <4>1. refs[f] # 0 /\ removed' = [removed EXCEPT ![f] = TRUE]
        BY <1>5, <2>3, <3>4
      <4>2. removed'[g] = TRUE /\ g \notin Listed'
        BY <1>1, <1>2, <1>3, <3>4, <4>1 DEF TypeOK
      <4> QED
        BY <3>3, <4>2
    <3>5. CASE g # f
      <4>1. removed'[g] = removed[g]
        BY <1>1, <1>5, <3>1, <3>5 DEF TypeOK
      <4> QED
        BY <1>2, <1>3, <3>2, <3>3, <3>5, <4>1
    <3> QED
      BY <3>4, <3>5
  <2>4. Cardinality(InUse') <= count' /\ capacity' <= count' + TableStep
    BY <1>1, <1>5 DEF LivesInv, InUse
  <2> QED
    BY <2>2, <2>3, <2>4 DEF LivesInv
<1> QED
  BY <1>1, <1>2, <1>6, <1>8 DEF Inv

LEMMA EndInv ==
  ASSUME Inv, Destroy \/ UsePlacePastTable \/ UNCHANGED vars
  PROVE  Inv'
<1>1. TypeOK /\ LinkInv
  BY DEF Inv
<1>2. CASE Destroy
  <2>1. LinkInv'
    BY <1>2, EmptyList DEF Destroy
  <2>2. TypeOK'
    BY <1>1, <1>2 DEF Destroy, TypeOK, Pointers
  <2>3. state' # "up"
    BY <1>2 DEF Destroy
  <2> QED
    BY <2>1, <2>2, <2>3 DEF Inv
<1>3. CASE UsePlacePastTable
  <2>1. LinkInv'
    BY <1>1, <1>3, ListRests DEF UsePlacePastTable
  <2>2. TypeOK'
    BY <1>1, <1>3 DEF UsePlacePastTable, TypeOK, listVars, fileVars, tableVars
  <2>3. state' # "up"
    BY <1>3 DEF UsePlacePastTable
  <2> QED
    BY <2>1, <2>2, <2>3 DEF Inv
<1>4. CASE UNCHANGED vars
  <2>1. LinkInv' /\ Listed' = Listed
    BY <1>1, <1>4, ListRests DEF vars
  <2>2. TypeOK'
    BY <1>1, <1>4 DEF vars, TypeOK, listVars, fileVars, tableVars
  <2>3. state' = "up" => LivesInv'
    BY <1>4, <2>1 DEF Inv, LivesInv, vars, fileVars, tableVars, OnFile, InUse
  <2> QED
    BY <2>1, <2>2, <2>3 DEF Inv
<1> QED
  BY <1>2, <1>3, <1>4

LEMMA InitInv == Init => Inv
<1> SUFFICES ASSUME Init PROVE Inv
  OBVIOUS
<1> DEFINE s == [i \in 1..0 |-> NoFile]
<1>1. 0 \in 0..Size /\ s \in [1..0 -> Files]
  BY SizeIsNat
<1>2. Order(0, s)
  BY DEF Order, Init
<1>3. LinkInv
  BY <1>1, <1>2 DEF LinkInv
<1>4. Listed = {}
  <2>1. Listed = {s[i] : i \in 1..0}
    BY <1>1, <1>2, Lookup DEF LookupIs
  <2> QED
    BY <2>1
<1>5. Places(0) = {} /\ DOMAIN table = {}
  BY DEF Init, Places
<1>6. TypeOK
  BY <1>5, UserFSAssumption DEF Init, TypeOK, Pointers
<1>7. InUse = {} /\ \A f : OnFile(f) = {}
  BY <1>5 DEF InUse, OnFile
<1>8. LivesInv
  BY <1>4, <1>7, FS_EmptySet, UserFSAssumption DEF Init, LivesInv
<1> QED
  BY <1>3, <1>6, <1>8 DEF Inv

LEMMA NextInv == Inv /\ [Next]_vars => Inv'
<1> SUFFICES ASSUME Inv, [Next]_vars PROVE Inv'
  OBVIOUS
<1>1. ASSUME NEW n \in Names, Open(n) PROVE Inv'
  BY <1>1, OpenInv
<1>2. ASSUME NEW n \in Names, Delete(n) PROVE Inv'
  BY <1>2, DeleteInv
<1>3. ASSUME NEW n \in Names, NEW f \in Files, Create(n, f) PROVE Inv'
  BY <1>3, CreateInv
<1>4. ASSUME NEW fd \in DOMAIN table, Close(fd) PROVE Inv'
  BY <1>4, CloseInv
<1>5. CASE Destroy \/ UsePlacePastTable \/ UNCHANGED vars
  BY <1>5, EndInv
<1> QED
  BY <1>1, <1>2, <1>3, <1>4, <1>5 DEF Next

LEMMA Invariance == Spec => []Inv
  BY InitInv, NextInv, PTL DEF Spec

-------------------------------------------------------------------------------
(* For any number of files, names and calls, until ufs_destroy: the links of  *)
(* the list go both ways and lead only to files that exist and have a name,   *)
(* and no two files have the same (userfs.c:211-228, 381-407).                *)
THEOREM ListStaysSound == Spec => []ListIsSound
<1>1. Inv => ListIsSound
  <2> SUFFICES ASSUME Inv PROVE ListIsSound
    OBVIOUS
  <2>1. PICK n \in 0..Size : \E s \in [1..n -> Files] : Order(n, s)
    BY DEF Inv, LinkInv
  <2>2. PICK s \in [1..n -> Files] : Order(n, s)
    BY <2>1
  <2>3. Listed = {s[i] : i \in 1..n} /\ n \in Nat /\ NoFile \notin Files
    BY <2>2, Lookup, SizeIsNat DEF LookupIs
  <2>4. ASSUME NEW f \in Listed
        PROVE  /\ next[f] # NoFile => prev[next[f]] = f
               /\ f = fileList <=> prev[f] = NoFile
    <3>1. PICK i \in 1..n : f = s[i]
      BY <2>3
    <3>2. /\ next[f] = IF i = n THEN NoFile ELSE s[i + 1]
          /\ prev[f] = IF i = 1 THEN NoFile ELSE s[i - 1]
          /\ fileList = s[1]
      BY <2>2, <2>3, <3>1 DEF Order
    <3>3. i # n => i + 1 \in 1..n /\ i + 1 # 1 /\ (i + 1) - 1 = i
      BY <2>3
    <3>4. i # n => prev[s[i + 1]] = s[i]
      BY <2>2, <3>3 DEF Order
    <3>5. f = fileList <=> i = 1
      <4>1. 1 \in 1..n
        BY <2>3
      <4> QED
        BY <2>2, <3>1, <3>2, <4>1 DEF Order
    <3>6. i # 1 => s[i - 1] # NoFile
      <4>1. i # 1 => i - 1 \in 1..n
        BY <2>3
      <4> QED
        BY <2>3, <4>1
    <3> QED
      BY <3>1, <3>2, <3>4, <3>5, <3>6
  <2>5. \A f, g \in Listed : name[f] = name[g] => f = g
    BY <2>2, <2>3 DEF Order
  <2>6. ASSUME state = "up", NEW f \in Listed PROVE f \in allocated /\ ~removed[f]
    <3>1. LivesInv
      BY <2>6 DEF Inv
    <3>2. f \in allocated
      BY <2>6, <3>1 DEF LivesInv
    <3> QED
      BY <2>6, <3>1, <3>2, Lives
  <2> QED
    BY <2>4, <2>5, <2>6 DEF ListIsSound, Inv
<1> QED
  BY <1>1, Invariance, PTL

(* For any number of files, names and descriptors: a file exists exactly as   *)
(* long as its name or a descriptor leads to it, refs counts the descriptors, *)
(* and there is room for one more (userfs.c:130-161, 364-407).                *)
THEOREM FilesLive == Spec => []FilesLiveWhileUsed
<1>1. Inv => FilesLiveWhileUsed
  <2>1. ASSUME LivesInv, NEW f \in allocated PROVE refs[f] = Cardinality(OnFile(f))
    BY <2>1, Lives
  <2> QED
    BY <2>1 DEF Inv, LivesInv, InUse, FilesLiveWhileUsed
<1> QED
  BY <1>1, Invariance, PTL

-------------------------------------------------------------------------------
(* Names and descriptors as OpenFiles has them. *)

Fds == 0..(MaxOpens + TableStep)
Directory  == [n \in Names |-> FileOf(n)]
Descriptor == [fd \in Fds |-> At(fd)]

LEMMA Exists ==
  ASSUME Inv, NEW n \in Names, FileOf(n) # NoFile
  PROVE  FileOf(n) \in Listed /\ FileOf(n) \in Files
<1>1. PICK m \in 0..Size : \E s \in [1..m -> Files] : Order(m, s)
  BY DEF Inv, LinkInv
<1>2. PICK s \in [1..m -> Files] : Order(m, s)
  BY <1>1
<1>3. PICK i \in 1..m : FileOf(n) = s[i]
  BY <1>2, Named
<1> QED
  BY <1>2, <1>3, Lookup DEF LookupIs

(* A new descriptor is one that stood for nothing. *)
LEMMA NewDescriptor ==
  ASSUME Inv, state = "up", count < MaxOpens, NEW f \in Files, NEW r, CreateFiledesc(f, r)
  PROVE  \E fd \in Fds : Descriptor[fd] = NoFile /\ Descriptor' = [Descriptor EXCEPT ![fd] = f]
<1>1. PICK fd : fd = FreePlace(capacity')
  OBVIOUS
<1>2. /\ capacity' \in Nat /\ capacity <= capacity' /\ capacity' <= count + 1 + TableStep
      /\ fd \in Places(capacity') /\ At(fd) = NoFile
      /\ table' = [i \in Places(capacity') |-> IF i = fd THEN f ELSE At(i)]
  BY <1>1, Room DEF Inv
<1>3. /\ count \in Nat /\ MaxOpens \in Nat /\ TableStep \in Nat
      /\ capacity \in Nat /\ DOMAIN table = Places(capacity)
  BY UserFSAssumption DEF Inv, TypeOK
<1>4. fd \in Fds
  <2>1. \A a \in Nat : \A x \in 0..(a - 1) : x \in Nat /\ x < a
    OBVIOUS
  <2>2. fd \in Nat /\ fd < capacity'
    BY <1>2, <2>1 DEF Places
  <2>3. fd <= MaxOpens + TableStep
    <3>1. count + 1 + TableStep <= MaxOpens + TableStep
      BY <1>3
    <3> QED
      BY <1>2, <1>3, <2>2, <3>1
  <2> QED
    BY <1>3, <2>2, <2>3 DEF Fds
<1>5. ASSUME NEW i PROVE At(i)' = IF i = fd THEN f ELSE At(i)
  <2>1. At(i)' = IF i \in Places(capacity') THEN table'[i] ELSE NoFile
    BY <1>2 DEF At
  <2>2. CASE i \in Places(capacity')
    BY <1>2, <2>1, <2>2
  <2>3. CASE i \notin Places(capacity')
    <3>1. \A a, b \in Nat : a <= b => 0..(a - 1) \subseteq 0..(b - 1)
      OBVIOUS
    <3>2. i \notin DOMAIN table
      BY <1>2, <1>3, <2>3, <3>1 DEF Places
    <3> QED
      BY <1>2, <2>1, <2>3, <3>2 DEF At
  <2> QED
    BY <2>2, <2>3
<1>6. Descriptor' = [Descriptor EXCEPT ![fd] = f]
  <2>1. Descriptor' = [i \in Fds |-> At(i)']
    BY DEF Descriptor, Fds
  <2> QED
    BY <1>4, <1>5, <2>1 DEF Descriptor
<1> QED
  BY <1>2, <1>4, <1>6 DEF Descriptor

LEMMA OpenFilesStep == Inv /\ [Next]_vars => [Names2Files!Next]_Names2Files!vars
<1> SUFFICES ASSUME Inv, [Next]_vars PROVE [Names2Files!Next]_Names2Files!vars
  OBVIOUS
<1> USE DEF Directory, Descriptor, Fds
<1>0. TypeOK /\ LinkInv /\ (state = "up" => LivesInv) /\ NoFile \notin Files
  BY SizeIsNat DEF Inv
<1>1. ASSUME NEW n \in Names, Open(n) PROVE Names2Files!Next
  <2>1. PICK f \in Files : f = FileOf(n)
    BY <1>1, Exists DEF Open
  <2>2. CreateFiledesc(f, refs[f]) /\ count < MaxOpens /\ state = "up" /\ UNCHANGED listVars
    BY <1>1, <2>1 DEF Open, Up
  <2> HIDE DEF Directory, Descriptor, Fds
  <2>3. PICK fd \in Fds : Descriptor[fd] = NoFile /\ Descriptor' = [Descriptor EXCEPT ![fd] = f]
    BY <2>2, NewDescriptor
  <2>4. Directory' = Directory /\ Directory[n] = f /\ f # NoFile
    BY <1>0, <2>1, <2>2, ListRests DEF Directory
  <2>5. Names2Files!Open(n, fd)
    BY <2>3, <2>4 DEF Names2Files!Open, Directory, Descriptor, Fds
  <2> QED
    BY <2>3, <2>5 DEF Names2Files!Next, Fds
<1>2. ASSUME NEW n \in Names, NEW f \in Files, Create(n, f) PROVE Names2Files!Next
  <2>1. /\ CreateFiledesc(f, 0) /\ count < MaxOpens /\ state = "up"
        /\ AddFile(f, n) /\ FileOf(n) = NoFile /\ f \notin allocated /\ LivesInv
    BY <1>0, <1>2 DEF Create, Up, AddFile
  <2> HIDE DEF Directory, Descriptor, Fds
  <2>2. PICK fd \in Fds : Descriptor[fd] = NoFile /\ Descriptor' = [Descriptor EXCEPT ![fd] = f]
    BY <2>1, NewDescriptor
  <2>3. Listed \subseteq allocated
    BY <2>1 DEF LivesInv
  <2>4. \A x \in Names : FileOf(x)' = IF x = n THEN f ELSE FileOf(x)
    BY <1>0, <2>1, <2>3, Added
  <2>5. Directory' = [Directory EXCEPT ![n] = f] /\ Directory[n] = NoFile
    <3>1. Directory' = [x \in Names |-> FileOf(x)']
      BY DEF Directory
    <3> QED
      BY <2>1, <2>4, <3>1 DEF Directory
  <2>6. f \notin Names2Files!Live
    <3>1. ASSUME NEW x \in Names, FileOf(x) = f PROVE FALSE
      BY <1>0, <2>1, <2>3, <3>1, Exists
    <3>2. ASSUME NEW i \in Fds, At(i) = f PROVE FALSE
      <4>1. i \in OnFile(f)
        BY <1>0, <3>2 DEF At, OnFile
      <4> QED
        BY <2>1, <4>1 DEF LivesInv
    <3> QED
      BY <3>1, <3>2 DEF Names2Files!Live, Fds
  <2>7. Names2Files!Create(n, f, fd)
    BY <2>2, <2>5, <2>6 DEF Names2Files!Create, Directory, Descriptor, Fds
  <2> QED
    BY <2>2, <2>7 DEF Names2Files!Next, Fds
<1>3. ASSUME NEW fd \in DOMAIN table, Close(fd) PROVE Names2Files!Next
  <2>1. /\ table[fd] # NoFile /\ table' = [table EXCEPT ![fd] = NoFile]
        /\ UNCHANGED listVars /\ LivesInv
    BY <1>0, <1>3 DEF Close, Valid, Up
  <2> HIDE DEF Directory, Descriptor, Fds
  <2>2. fd \in Fds
    <3>1. capacity <= count + TableStep /\ count \in 0..MaxOpens /\ fd \in 0..(capacity - 1) /\ capacity \in Nat
      BY <1>0, <2>1 DEF LivesInv, TypeOK, Places
    <3> QED
      BY <3>1, UserFSAssumption DEF Fds
  <2>3. \A i : At(i)' = IF i = fd THEN NoFile ELSE At(i)
    BY <2>1 DEF At
  <2>4. Descriptor' = [Descriptor EXCEPT ![fd] = NoFile] /\ Descriptor[fd] # NoFile
    <3>1. Descriptor' = [i \in Fds |-> At(i)']
      BY DEF Descriptor, Fds
    <3> QED
      BY <2>1, <2>2, <2>3, <3>1 DEF Descriptor, At
  <2>5. Directory' = Directory
    BY <1>0, <2>1, ListRests DEF Directory
  <2>6. Names2Files!Close(fd)
    BY <2>4, <2>5 DEF Names2Files!Close, Directory, Descriptor, Fds
  <2> QED
    BY <2>2, <2>6 DEF Names2Files!Next, Fds
<1>4. ASSUME NEW n \in Names, Delete(n) PROVE Names2Files!Next
  <2>1. FileOf(n) # NoFile /\ Unlink(FileOf(n)) /\ table' = table
    BY <1>4 DEF Delete, tableVars
  <2> HIDE DEF Directory, Descriptor, Fds
  <2>2. \A x \in Names : FileOf(x)' = IF x = n THEN NoFile ELSE FileOf(x)
    BY <1>0, <2>1, Unlinked
  <2>3. Directory' = [Directory EXCEPT ![n] = NoFile] /\ Directory[n] # NoFile
    <3>1. Directory' = [x \in Names |-> FileOf(x)']
      BY DEF Directory
    <3> QED
      BY <2>1, <2>2, <3>1 DEF Directory
  <2>4. Descriptor' = Descriptor
    BY <2>1 DEF Descriptor, At, Fds
  <2>5. Names2Files!Delete(n)
    BY <2>3, <2>4 DEF Names2Files!Delete, Directory, Descriptor, Fds
  <2> QED
    BY <2>5 DEF Names2Files!Next
<1>5. CASE Destroy
  <2>1. \A x \in Names : FileOf(x)' = NoFile
    BY <1>5, EmptyList DEF Destroy
  <2>2. \A i : At(i)' = NoFile
    BY <1>5 DEF Destroy, At
  <2>3. Names2Files!Destroy
    <3>1. Directory' = [x \in Names |-> FileOf(x)'] /\ Descriptor' = [i \in Fds |-> At(i)']
      OBVIOUS
    <3> QED
      BY <2>1, <2>2, <3>1 DEF Names2Files!Destroy
  <2> QED
    BY <2>3 DEF Names2Files!Next
<1>6. CASE UsePlacePastTable \/ UNCHANGED vars
  <2>1. UNCHANGED listVars /\ table' = table
    BY <1>6 DEF UsePlacePastTable, vars, tableVars
  <2>2. Directory' = Directory /\ Descriptor' = Descriptor
    BY <1>0, <2>1, ListRests DEF At
  <2> QED
    BY <2>2 DEF Names2Files!vars
<1> QED
  BY <1>1, <1>2, <1>3, <1>4, <1>5, <1>6 DEF Next

(* Names and descriptors are what userfs.h:87-140 promises: each call affects *)
(* the one name and the one descriptor it is about, and a new file is none    *)
(* that a name or a descriptor still leads to.                                *)
THEOREM NamesAndDescriptors == Spec => ImplementsOpenFiles
<1>1. Init => Names2Files!Init
  <2> SUFFICES ASSUME Init PROVE Names2Files!Init
    OBVIOUS
  <2>1. \A n \in Names : FileOf(n) = NoFile
    <3>1. ASSUME NEW n \in Names, FileOf(n) # NoFile PROVE FALSE
      <4>1. FileOf(n) \in Listed /\ FileOf(n) \in allocated
        BY <3>1, Exists, InitInv DEF Inv, LivesInv, Init
      <4> QED
        BY <4>1 DEF Init
    <3> QED
      BY <3>1
  <2>2. \A i : At(i) = NoFile
    BY DEF Init, At, Places
  <2> QED
    BY <2>1, <2>2 DEF Names2Files!Init
<1> QED
  BY <1>1, OpenFilesStep, Invariance, PTL DEF Spec, ImplementsOpenFiles, Names2Files!Spec
===============================================================================
