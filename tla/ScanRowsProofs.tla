-------------------------- MODULE ScanRowsProofs ---------------------------
(***************************************************************************)
(* What the operators of module Scan do to rows, for any files: sorting    *)
(* keeps every row; cutting sorted rows into runs and merging each leaves  *)
(* of every key the newest value in mode Overwrite and all its bytes, each *)
(* once, in mode Append; grouping by segment puts every file in one group; *)
(* and what a plan of a scan returns of its files.                         *)
(***************************************************************************)
EXTENDS Scan, FiniteSetTheorems, SequenceTheorems, TLAPS

\* Most steps are first-order: Zenon is tried first, then SMT, then Zenon for longer.
USE ZenonT(3), SMTT(30), ZenonT(30)
-----------------------------------------------------------------------------
\* A strict total order on a finite set, as InOrder takes it.
IsOrder(before) ==
    LET S == DOMAIN before
    IN  /\ IsFiniteSet(S)
        /\ \A x \in S : before[x] \subseteq S /\ x \notin before[x]
        /\ \A x, y \in S : x # y => x \in before[y] \/ y \in before[x]
        /\ \A x, y, z \in S : x \in before[y] /\ y \in before[z] => x \in before[z]

\* What follows a member has more members before it; there are fewer than all.
LEMMA Ranks ==
    ASSUME NEW before, IsOrder(before)
    PROVE  LET S == DOMAIN before
           IN  /\ Cardinality(S) \in Nat
               /\ \A x \in S : Cardinality(before[x]) \in 0..(Cardinality(S) - 1)
               /\ \A x, y \in S : x \in before[y] => Cardinality(before[x]) < Cardinality(before[y])
<1> DEFINE S == DOMAIN before
<1>1. IsFiniteSet(S) /\ Cardinality(S) \in Nat
  BY FS_CardinalityType DEF IsOrder
<1>2. ASSUME NEW x \in S
      PROVE  /\ IsFiniteSet(before[x]) /\ Cardinality(before[x]) \in Nat
             /\ Cardinality(before[x]) < Cardinality(S)
  <2>1. before[x] \in SUBSET (S \ {x})
    BY DEF IsOrder
  <2>2. IsFiniteSet(S \ {x}) /\ Cardinality(S \ {x}) = Cardinality(S) - 1
    BY <1>1, FS_RemoveElement
  <2>3. IsFiniteSet(before[x]) /\ Cardinality(before[x]) <= Cardinality(S \ {x})
    BY <2>1, <2>2, FS_Subset
  <2>4. Cardinality(before[x]) \in Nat
    BY <2>3, FS_CardinalityType
  <2> QED  BY <1>1, <2>2, <2>3, <2>4
<1>3. ASSUME NEW x \in S, NEW y \in S, x \in before[y]
      PROVE  Cardinality(before[x]) < Cardinality(before[y])
  <2>1. before[x] \cup {x} \in SUBSET before[y]
    BY <1>3 DEF IsOrder
  <2>2. x \notin before[x]
    BY DEF IsOrder
  <2>3. Cardinality(before[x] \cup {x}) = Cardinality(before[x]) + 1
    BY <1>2, <2>2, FS_AddElement
  <2>4. Cardinality(before[x] \cup {x}) <= Cardinality(before[y])
    BY <1>2, <2>1, FS_Subset
  <2> QED  BY <1>2, <2>3, <2>4
<1> QED  BY <1>1, <1>2, <1>3

\* InOrder returns every member once, each before those it precedes.
LEMMA Ordered ==
    ASSUME NEW before, IsOrder(before)
    PROVE  LET S == DOMAIN before f == InOrder(before) n == Cardinality(S)
           IN  /\ n \in Nat /\ f \in [1..n -> S]
               /\ \A x \in S : \E i \in 1..n : f[i] = x
               /\ \A i, j \in 1..n : i < j => f[i] \in before[f[j]]
<1> DEFINE S == DOMAIN before
           n == Cardinality(S)
           rank == [x \in S |-> Cardinality(before[x])]
           ranks == {<<x, Cardinality(before[x])>> : x \in S}
           pick(i) == CHOOSE r \in ranks : r[2] = i - 1
<1>1. /\ n \in Nat
      /\ \A x \in S : rank[x] \in 0..(n - 1)
      /\ \A x, y \in S : x \in before[y] => rank[x] < rank[y]
  BY Ranks
<1>2. rank \in Injection(S, 0..(n - 1))
  <2>1. rank \in [S -> 0..(n - 1)]
    BY <1>1
  <2>2. ASSUME NEW x \in S, NEW y \in S, rank[x] = rank[y]  PROVE x = y
    <3>1. x # y => x \in before[y] \/ y \in before[x]
      BY DEF IsOrder
    <3>2. rank[x] \in Int /\ rank[y] \in Int
      BY <1>1
    <3>3. ~(rank[x] < rank[y]) /\ ~(rank[y] < rank[x])
      BY <2>2, <3>2
    <3> QED  BY <1>1, <3>1, <3>3
  <2> QED  BY <2>1, <2>2 DEF Injection, IsInjective
<1>3. IsFiniteSet(S) /\ IsFiniteSet(0..(n - 1)) /\ Cardinality(0..(n - 1)) = n
  <2>1. IsFiniteSet(0..(n - 1)) /\ Cardinality(0..(n - 1)) = IF 0 > n - 1 THEN 0 ELSE n - 1 - 0 + 1
    BY <1>1, FS_Interval
  <2> QED  BY <1>1, <2>1 DEF IsOrder
<1>4. rank \in Surjection(S, 0..(n - 1))
  BY <1>2, <1>3, FS_Injection
<1>5. Cardinality(ranks) = n
  <2> DEFINE pair == [x \in S |-> <<x, Cardinality(before[x])>>]
  <2>1. pair \in Bijection(S, ranks)
    BY DEF Bijection, Injection, Surjection, IsInjective
  <2> QED  BY <1>3, <2>1, FS_Bijection DEF ExistsBijection
<1>6. ASSUME NEW i \in 1..n  PROVE pick(i)[1] \in S /\ rank[pick(i)[1]] = i - 1
  <2>1. i - 1 \in 0..(n - 1)
    BY <1>1
  <2>2. PICK x \in S : rank[x] = i - 1
    BY <1>4, <2>1 DEF Surjection
  <2>3. \E r \in ranks : r[2] = i - 1
    <3>1. <<x, Cardinality(before[x])>> \in ranks
      OBVIOUS
    <3>2. <<x, Cardinality(before[x])>>[2] = i - 1
      BY <2>2
    <3> QED  BY <3>1, <3>2
  <2>4. PICK r \in ranks : r = pick(i) /\ r[2] = i - 1
    BY <2>3
  <2>5. PICK y \in S : r = <<y, Cardinality(before[y])>>
    BY <2>4
  <2>6. r[1] = y /\ r[2] = Cardinality(before[y])
    BY <2>5
  <2> QED  BY <2>4, <2>6
<1>7. InOrder(before) = [i \in 1..n |-> pick(i)[1]]
  BY <1>5 DEF InOrder
<1> DEFINE f == InOrder(before)
<1> HIDE DEF pick, ranks
<1>8. f \in [1..n -> S] /\ \A i \in 1..n : rank[f[i]] = i - 1
  BY <1>6, <1>7
<1> HIDE DEF f, rank
<1>9. ASSUME NEW x \in S  PROVE \E i \in 1..n : f[i] = x
  <2>1. rank[x] + 1 \in 1..n
    BY <1>1
  <2>2. rank[f[rank[x] + 1]] = rank[x]
    BY <1>1, <1>8, <2>1
  <2>3. f[rank[x] + 1] \in S
    BY <1>8, <2>1
  <2>4. f[rank[x] + 1] = x
    BY <1>2, <2>2, <2>3 DEF Injection, IsInjective
  <2> QED  BY <2>1, <2>4
<1>10. ASSUME NEW i \in 1..n, NEW j \in 1..n, i < j  PROVE f[i] \in before[f[j]]
  <2>1. f[i] \in S /\ f[j] \in S
    BY <1>8
  <2>2. rank[f[i]] < rank[f[j]]
    BY <1>1, <1>8, <1>10
  <2>3. rank[f[i]] \in Int /\ rank[f[j]] \in Int
    BY <1>1, <2>1
  <2>4. ~(rank[f[j]] < rank[f[i]]) /\ rank[f[i]] # rank[f[j]]
    BY <2>2, <2>3
  <2>5. f[i] # f[j] => f[i] \in before[f[j]] \/ f[j] \in before[f[i]]
    BY <2>1 DEF IsOrder
  <2> QED  BY <1>1, <2>1, <2>4, <2>5
<1> QED  BY <1>1, <1>8, <1>9, <1>10 DEF f

\* The numbers of a finite set in ascending order.
LEMMA AscendingOrder ==
    ASSUME NEW S, IsFiniteSet(S), S \subseteq Int
    PROVE  LET f == Ascending(S) n == Cardinality(S)
           IN  /\ n \in Nat /\ f \in [1..n -> S]
               /\ \A x \in S : \E i \in 1..n : f[i] = x
               /\ \A i, j \in 1..n : i < j => f[i] < f[j]
<1> DEFINE before == [x \in S |-> {y \in S : y < x}]
<1>1. DOMAIN before = S /\ \A x, y \in S : y \in before[x] <=> y < x
  OBVIOUS
<1>2. \A x \in S : before[x] \subseteq S
  OBVIOUS
<1>3. Ascending(S) = InOrder(before)
  BY DEF Ascending
<1> HIDE DEF before
<1>4. IsOrder(before)
  <2>1. ASSUME NEW x \in S, NEW y \in S, x # y  PROVE x \in before[y] \/ y \in before[x]
    <3>1. x < y \/ y < x
      BY <2>1
    <3> QED  BY <1>1, <3>1
  <2>2. ASSUME NEW x \in S, NEW y \in S, NEW z \in S, x \in before[y], y \in before[z]
        PROVE  x \in before[z]
    <3>1. x < y /\ y < z
      BY <1>1, <2>2
    <3>2. x < z
      BY <3>1
    <3> QED  BY <1>1, <3>2
  <2>3. \A x \in S : x \notin before[x]
    BY <1>1
  <2> QED  BY <1>1, <1>2, <2>1, <2>2, <2>3 DEF IsOrder
<1>5. LET f == InOrder(before) n == Cardinality(S)
      IN  /\ n \in Nat /\ f \in [1..n -> S]
          /\ \A x \in S : \E i \in 1..n : f[i] = x
          /\ \A i, j \in 1..n : i < j => f[i] \in before[f[j]]
  BY <1>1, <1>4, Ordered
<1> QED  BY <1>1, <1>3, <1>5

\* A finite set of numbers has a least and a greatest one.
LEMMA LeastAndGreatest ==
    ASSUME NEW S, IsFiniteSet(S), S \subseteq Int, S # {}
    PROVE  /\ \E x \in S : \A y \in S : x <= y
           /\ \E x \in S : \A y \in S : y <= x
<1> DEFINE f == Ascending(S)
           n == Cardinality(S)
<1>1. /\ n \in Nat /\ f \in [1..n -> S]
      /\ \A x \in S : \E i \in 1..n : f[i] = x
      /\ \A i, j \in 1..n : i < j => f[i] < f[j]
  BY AscendingOrder
<1> HIDE DEF f, n
<1>2. 1 \in 1..n /\ n \in 1..n
  <2>1. PICK i \in 1..n : TRUE
    BY <1>1
  <2> QED  BY <1>1, <2>1
<1>3. f[1] \in S /\ f[n] \in S
  BY <1>1, <1>2
<1>4. ASSUME NEW y \in S  PROVE f[1] <= y /\ y <= f[n]
  <2>1. PICK i \in 1..n : f[i] = y
    BY <1>1
  <2>2. f[1] \in Int /\ f[n] \in Int /\ y \in Int
    BY <1>3
  <2>3. 1 < i => f[1] < y
    BY <1>1, <1>2, <2>1
  <2>4. i < n => y < f[n]
    BY <1>1, <1>2, <2>1
  <2> QED  BY <1>1, <2>1, <2>2, <2>3, <2>4
<1> QED  BY <1>3, <1>4

\* A function on the first numbers is a sequence.
LEMMA FunctionIsSeq ==
    ASSUME NEW S, NEW n \in Nat, NEW f \in [1..n -> S]
    PROVE  f \in Seq(S) /\ Len(f) = n /\ DOMAIN f = 1..n
<1>1. f \in Seq(S)
  BY SeqDef
<1>2. Len(f) \in Nat /\ DOMAIN f = 1..Len(f) /\ DOMAIN f = 1..n
  BY <1>1, LenProperties
<1> QED  BY <1>1, <1>2

\* The elements at some places keep their order, and no others are there.
LEMMA AtPlaces ==
    ASSUME NEW R, NEW s \in Seq(R), NEW places \in SUBSET (DOMAIN s)
    PROVE  /\ At(s, places) \in Seq(R)
           /\ \E f \in [DOMAIN At(s, places) -> places] :
                 /\ \A i \in DOMAIN At(s, places) : At(s, places)[i] = s[f[i]]
                 /\ \A p \in places : \E i \in DOMAIN At(s, places) : f[i] = p
                 /\ \A i, j \in DOMAIN At(s, places) : i < j => f[i] < f[j]
<1> DEFINE f == Ascending(places)
           n == Cardinality(places)
<1>1. Len(s) \in Nat /\ DOMAIN s = 1..Len(s) /\ \A i \in DOMAIN s : s[i] \in R
  BY LenProperties
<1>2. IsFiniteSet(places) /\ places \subseteq Int
  <2>1. IsFiniteSet(1..Len(s))
    BY <1>1, FS_Interval
  <2> QED  BY <1>1, <2>1, FS_Subset
<1>3. /\ n \in Nat /\ f \in [1..n -> places]
      /\ \A x \in places : \E i \in 1..n : f[i] = x
      /\ \A i, j \in 1..n : i < j => f[i] < f[j]
  BY <1>2, AscendingOrder
<1>4. At(s, places) = [i \in DOMAIN f |-> s[f[i]]]
  BY DEF At
<1> HIDE DEF f, n
<1>5. At(s, places) \in [1..n -> R] /\ \A i \in 1..n : At(s, places)[i] = s[f[i]]
  BY <1>1, <1>3, <1>4
<1>6. At(s, places) \in Seq(R) /\ DOMAIN At(s, places) = 1..n
  BY <1>3, <1>5, FunctionIsSeq
<1> QED  BY <1>3, <1>5, <1>6

\* The runs of a sequence are m pieces of it, from a[k] to b[k], that are not empty,
\* follow each other, cover it, and have one key each.
IsCut(s, key, m, a, b) ==
    /\ Runs(s, key) = [k \in 1..m |-> SubSeq(s, a[k], b[k])]
    /\ \A k \in 1..m : a[k] <= b[k]
    /\ \A k, l \in 1..m : k < l => b[k] < a[l]
    /\ \A i \in 1..Len(s) : \E k \in 1..m : a[k] <= i /\ i <= b[k]
    /\ \A k \in 1..m : \A i \in a[k]..b[k] : key[i] = key[a[k]]

\* There are such pieces.
LEMMA RunsCut ==
    ASSUME NEW R, NEW s \in Seq(R), NEW key
    PROVE  \E m \in Nat : \E a, b \in [1..m -> 1..Len(s)] : IsCut(s, key, m, a, b)
<1> DEFINE n == Len(s)
           cuts == {i \in DOMAIN s : i = 1 \/ key[i] # key[i - 1]}
           a == Ascending(cuts)
           m == Cardinality(cuts)
           b == [k \in 1..m |-> IF k = m THEN n ELSE a[k + 1] - 1]
<1>1. n \in Nat /\ DOMAIN s = 1..n
  BY LenProperties
<1>2. cuts \in SUBSET (1..n) /\ cuts \subseteq Int
  BY <1>1
<1>3. IsFiniteSet(cuts)
  <2>1. IsFiniteSet(1..n)
    BY <1>1, FS_Interval
  <2> QED  BY <1>2, <2>1, FS_Subset
<1>4. /\ m \in Nat /\ a \in [1..m -> cuts]
      /\ \A x \in cuts : \E k \in 1..m : a[k] = x
      /\ \A k, l \in 1..m : k < l => a[k] < a[l]
  BY <1>2, <1>3, AscendingOrder
<1>5. Len(a) = m /\ DOMAIN a = 1..m
  BY <1>4, FunctionIsSeq
<1>6. Runs(s, key) = [k \in 1..m |-> SubSeq(s, a[k], b[k])]
  BY <1>5 DEF Runs
<1>7. \A k \in 1..m : b[k] = IF k = m THEN n ELSE a[k + 1] - 1
  OBVIOUS
<1>8. b = [k \in 1..m |-> b[k]]
  OBVIOUS
<1>9. \A i \in 1..n : i \in cuts <=> (i = 1 \/ key[i] # key[i - 1])
  BY <1>1
<1> HIDE DEF a, b, m, cuts, n
<1>10. ASSUME NEW k \in 1..m  PROVE a[k] \in 1..n /\ b[k] \in 1..n /\ a[k] <= b[k]
  <2>1. a[k] \in 1..n
    BY <1>2, <1>4
  <2>2. CASE k = m
    BY <1>1, <1>7, <2>1, <2>2
  <2>3. CASE k # m
    <3>1. k + 1 \in 1..m /\ k < k + 1
      BY <1>4, <2>3
    <3>2. a[k + 1] \in 1..n /\ a[k] < a[k + 1]
      BY <1>2, <1>4, <3>1
    <3>3. b[k] = a[k + 1] - 1
      BY <1>7, <2>3
    <3> QED  BY <1>1, <2>1, <3>2, <3>3
  <2> QED  BY <2>2, <2>3
<1>11. a \in [1..m -> 1..n] /\ b \in [1..m -> 1..n]
  BY <1>2, <1>4, <1>8, <1>10
<1>12. ASSUME NEW k \in 1..m, NEW l \in 1..m, k < l  PROVE b[k] < a[l]
  <2>1. k # m /\ k + 1 \in 1..m /\ (k + 1 = l \/ k + 1 < l)
    BY <1>4, <1>12
  <2>2. b[k] = a[k + 1] - 1
    BY <1>7, <2>1
  <2>3. a[k + 1] = a[l] \/ a[k + 1] < a[l]
    BY <1>4, <2>1
  <2>4. a[k + 1] \in Int /\ a[l] \in Int
    BY <1>10, <2>1
  <2> QED  BY <2>2, <2>3, <2>4
<1>13. ASSUME NEW i \in 1..n  PROVE \E k \in 1..m : a[k] <= i /\ i <= b[k]
  <2> DEFINE later == {l \in 1..m : i < a[l]}
  <2>1. PICK f \in 1..m : a[f] = 1
    <3>1. 1 \in 1..n
      BY <1>1
    <3> QED  BY <1>4, <1>9, <3>1
  <2>2. CASE later = {}
    <3>1. m \in 1..m
      BY <1>4, <2>1
    <3>2. a[m] <= i
      BY <1>10, <2>2, <3>1
    <3>3. i <= b[m]
      BY <1>1, <1>7, <3>1
    <3> QED  BY <3>1, <3>2, <3>3
  <2>3. CASE later # {}
    <3>1. IsFiniteSet(later) /\ later \subseteq Int
      <4>1. IsFiniteSet(1..m) /\ later \in SUBSET (1..m)
        BY <1>4, FS_Interval
      <4>2. later \subseteq Int
        OBVIOUS
      <4> QED  BY <4>1, <4>2, FS_Subset
    <3>2. PICK l \in later : \A y \in later : l <= y
      BY <2>3, <3>1, LeastAndGreatest
    <3>3. l \in 1..m /\ i < a[l]
      BY <3>2
    <3>4. f < l
      <4>1. a[f] < a[l]
        BY <2>1, <3>3, <1>10
      <4>2. ~(l < f) /\ l # f
        BY <1>4, <1>10, <3>3, <4>1
      <4> QED  BY <1>4, <3>3, <4>2
    <3>5. l - 1 \in 1..m /\ l - 1 < l /\ l - 1 # m
      BY <1>4, <3>3, <3>4
    <3>6. l - 1 \notin later
      BY <3>2, <3>5
    <3>7. a[l - 1] <= i
      BY <1>10, <3>5, <3>6
    <3>8. b[l - 1] = a[l] - 1
      <4>1. (l - 1) + 1 = l
        BY <3>3
      <4> QED  BY <1>7, <3>5, <4>1
    <3>9. i <= b[l - 1]
      BY <1>10, <3>3, <3>8
    <3> QED  BY <3>5, <3>7, <3>9
  <2> QED  BY <2>2, <2>3
<1>14. ASSUME NEW k \in 1..m, NEW i \in a[k]..b[k]  PROVE key[i] = key[a[k]]
  <2> DEFINE other == {j \in a[k]..b[k] : key[j] # key[a[k]]}
  <2>1. a[k] \in Int /\ b[k] \in Int /\ 1 <= a[k] /\ b[k] <= n
    BY <1>1, <1>10
  <2> SUFFICES ASSUME other # {}  PROVE FALSE
    OBVIOUS
  <2>2. IsFiniteSet(other) /\ other \subseteq Int
    <3>1. IsFiniteSet(a[k]..b[k]) /\ other \in SUBSET (a[k]..b[k])
      BY <2>1, FS_Interval
    <3> QED  BY <2>1, <3>1, FS_Subset
  <2>3. PICK j \in other : \A y \in other : j <= y
    BY <2>2, LeastAndGreatest
  <2>4. j \in a[k]..b[k] /\ key[j] # key[a[k]]
    BY <2>3
  <2>5. j # a[k] /\ j - 1 \in a[k]..b[k] /\ j \in 1..n /\ j \in Int
    BY <1>1, <2>1, <2>4
  <2>6. j - 1 \notin other
    BY <2>3, <2>5
  <2>7. key[j - 1] = key[a[k]]
    BY <2>5, <2>6
  <2>8. j \in cuts
    BY <1>9, <2>4, <2>5, <2>7
  <2>9. PICK l \in 1..m : a[l] = j
    BY <1>4, <2>8
  <2>10. a[k] < a[l] /\ a[l] <= b[k]
    BY <2>1, <2>4, <2>5, <2>9
  <2>11. k < l
    <3>1. ~(l < k) /\ l # k
      BY <1>4, <1>10, <2>10
    <3> QED  BY <1>4, <3>1
  <2>12. b[k] < a[l]
    BY <1>12, <2>11
  <2> QED  BY <1>10, <2>10, <2>12
<1>15. n = Len(s)
  BY DEF n
<1>16. IsCut(s, key, m, a, b)
  BY <1>6, <1>10, <1>12, <1>13, <1>14, <1>15 DEF IsCut
<1> QED  BY <1>4, <1>11, <1>15, <1>16
-----------------------------------------------------------------------------
Row == [pk : Int, seq : Int, val : Seq(Int)]
File == [id : Int, start : Int, end : Int, rows : Seq(Row)]

Sorted(rows) == \A i, j \in DOMAIN rows : i < j => NotAfter(rows[i], rows[j])

\* The places of the rows of files are finitely many.
LEMMA PlacesOfRows ==
    ASSUME NEW files \in Seq(File)
    PROVE  /\ IsFiniteSet(Places(files))
           /\ \A p \in Places(files) :
                 /\ p = <<p[1], p[2]>> /\ p[1] \in DOMAIN files /\ p[2] \in DOMAIN files[p[1]].rows
                 /\ p[1] \in Int /\ p[2] \in Int /\ RowAt(files, p) \in Row
           /\ \A i \in DOMAIN files : \A j \in DOMAIN files[i].rows : <<i, j>> \in Places(files)
<1> DEFINE of == [i \in DOMAIN files |-> {i} \X DOMAIN files[i].rows]
           cells == {{i} \X DOMAIN files[i].rows : i \in DOMAIN files}
<1>1. Len(files) \in Nat /\ DOMAIN files = 1..Len(files) /\ \A i \in DOMAIN files : files[i] \in File
  BY LenProperties
<1>2. \A i \in DOMAIN files : files[i].rows \in Seq(Row)
  BY <1>1 DEF File
<1>3. ASSUME NEW i \in DOMAIN files
      PROVE  /\ Len(files[i].rows) \in Nat /\ DOMAIN files[i].rows = 1..Len(files[i].rows)
             /\ \A j \in DOMAIN files[i].rows : files[i].rows[j] \in Row
  BY <1>2, LenProperties
<1>4. Places(files) = UNION cells
  BY DEF Places
<1>5. IsFiniteSet(cells)
  <2>1. of \in Surjection(DOMAIN files, cells)
    BY DEF Surjection
  <2>2. IsFiniteSet(DOMAIN files)
    BY <1>1, FS_Interval
  <2> QED  BY <2>1, <2>2, FS_Surjection
<1>6. \A T \in cells : IsFiniteSet(T)
  <2> SUFFICES ASSUME NEW i \in DOMAIN files  PROVE IsFiniteSet({i} \X DOMAIN files[i].rows)
    OBVIOUS
  <2>1. IsFiniteSet({i})
    BY FS_Singleton
  <2>2. IsFiniteSet(DOMAIN files[i].rows)
    BY <1>3, FS_Interval
  <2> QED  BY <2>1, <2>2, FS_Product
<1>7. IsFiniteSet(Places(files))
  <2> HIDE DEF cells
  <2> QED  BY <1>4, <1>5, <1>6, FS_UNION
<1>8. ASSUME NEW p \in Places(files)
      PROVE  /\ p = <<p[1], p[2]>> /\ p[1] \in DOMAIN files /\ p[2] \in DOMAIN files[p[1]].rows
             /\ p[1] \in Int /\ p[2] \in Int /\ RowAt(files, p) \in Row
  <2>1. PICK i \in DOMAIN files : p \in {i} \X DOMAIN files[i].rows
    BY <1>4
  <2>2. PICK j \in DOMAIN files[i].rows : p = <<i, j>>
    BY <2>1
  <2>3. p[1] = i /\ p[2] = j
    BY <2>2
  <2>4. i \in Int /\ j \in Int /\ files[i].rows[j] \in Row
    BY <1>1, <1>3
  <2> QED  BY <2>2, <2>3, <2>4 DEF RowAt
<1>9. ASSUME NEW i \in DOMAIN files, NEW j \in DOMAIN files[i].rows  PROVE <<i, j>> \in Places(files)
  BY <1>4
<1> QED  BY <1>7, <1>8, <1>9

\* The rows of files are ordered by SortsBefore.
LEMMA SortIsOrder ==
    ASSUME NEW files \in Seq(File)
    PROVE  IsOrder([p \in Places(files) |-> {q \in Places(files) : SortsBefore(files, q, p)}])
<1> DEFINE places == Places(files)
           before == [p \in places |-> {q \in places : SortsBefore(files, q, p)}]
<1>1. IsFiniteSet(places)
  BY PlacesOfRows
<1>2. \A p \in places : /\ p = <<p[1], p[2]>> /\ p[1] \in Int /\ p[2] \in Int
                        /\ RowAt(files, p).pk \in Int /\ RowAt(files, p).seq \in Int
  BY PlacesOfRows DEF Row
<1>3. DOMAIN before = places /\ \A p, q \in places : q \in before[p] <=> SortsBefore(files, q, p)
  OBVIOUS
<1>4. \A p \in places : before[p] \subseteq places
  OBVIOUS
<1> HIDE DEF before, places
<1>5. ASSUME NEW p \in places  PROVE ~SortsBefore(files, p, p)
  BY <1>2 DEF SortsBefore, NotAfter
<1>6. ASSUME NEW p \in places, NEW q \in places, p # q
      PROVE  SortsBefore(files, p, q) \/ SortsBefore(files, q, p)
  <2>1. p[1] # q[1] \/ p[2] # q[2]
    BY <1>2, <1>6
  <2> QED  BY <1>2, <2>1 DEF SortsBefore, NotAfter
<1>7. ASSUME NEW p \in places, NEW q \in places, NEW r \in places,
             SortsBefore(files, p, q), SortsBefore(files, q, r)
      PROVE  SortsBefore(files, p, r)
  <2> DEFINE P == RowAt(files, p)
             Q == RowAt(files, q)
             T == RowAt(files, r)
  <2>1. /\ P.pk \in Int /\ P.seq \in Int /\ p[1] \in Int /\ p[2] \in Int
        /\ Q.pk \in Int /\ Q.seq \in Int /\ q[1] \in Int /\ q[2] \in Int
        /\ T.pk \in Int /\ T.seq \in Int /\ r[1] \in Int /\ r[2] \in Int
    BY <1>2
  <2>2. P.pk <= Q.pk /\ Q.pk <= T.pk
    BY <1>7, <2>1 DEF SortsBefore, NotAfter
  <2>3. CASE P.pk # T.pk
    BY <2>1, <2>2, <2>3 DEF SortsBefore, NotAfter
  <2>4. CASE P.pk = T.pk
    <3>1. P.pk = Q.pk /\ Q.pk = T.pk
      BY <2>1, <2>2, <2>4
    <3>2. P.seq <= Q.seq /\ Q.seq <= T.seq
      BY <1>7, <2>1, <3>1 DEF SortsBefore, NotAfter
    <3>3. CASE P.seq # T.seq
      BY <2>1, <2>4, <3>2, <3>3 DEF SortsBefore, NotAfter
    <3>4. CASE P.seq = T.seq
      <4>1. P.seq = Q.seq /\ Q.seq = T.seq
        BY <2>1, <3>2, <3>4
      <4>2. /\ p[1] < q[1] \/ (p[1] = q[1] /\ p[2] < q[2])
            /\ q[1] < r[1] \/ (q[1] = r[1] /\ q[2] < r[2])
        BY <1>7, <2>1, <3>1, <4>1 DEF SortsBefore, NotAfter
      <4>3. p[1] < r[1] \/ (p[1] = r[1] /\ p[2] < r[2])
        BY <2>1, <4>2
      <4> QED  BY <2>1, <2>4, <3>4, <4>3 DEF SortsBefore, NotAfter
    <3> QED  BY <3>3, <3>4
  <2> QED  BY <2>3, <2>4
<1>8. IsOrder(before)
  <2>1. \A p \in places : p \notin before[p]
    BY <1>3, <1>5
  <2>2. \A p, q \in places : p # q => p \in before[q] \/ q \in before[p]
    BY <1>3, <1>6
  <2>3. \A p, q, r \in places : p \in before[q] /\ q \in before[r] => p \in before[r]
    BY <1>3, <1>7
  <2> QED  BY <1>1, <1>3, <1>4, <2>1, <2>2, <2>3 DEF IsOrder
<1> QED  BY <1>8 DEF before, places

\* AllRows has the rows of all the files, sorted.
LEMMA AllRowsSorted ==
    ASSUME NEW files \in Seq(File)
    PROVE  /\ AllRows(files) \in Seq(Row) /\ Sorted(AllRows(files))
           /\ Range(AllRows(files)) = RowSet(files)
<1> DEFINE places == Places(files)
           before == [p \in places |-> {q \in places : SortsBefore(files, q, p)}]
           f == InOrder(before)
           n == Cardinality(places)
           all == AllRows(files)
<1>1. DOMAIN before = places /\ \A p, q \in places : q \in before[p] <=> SortsBefore(files, q, p)
  OBVIOUS
<1>2. IsOrder(before)
  BY SortIsOrder
<1>3. all = [k \in DOMAIN f |-> RowAt(files, f[k])]
  BY DEF AllRows
<1> HIDE DEF before
<1>4. /\ n \in Nat /\ f \in [1..n -> places]
      /\ \A x \in places : \E i \in 1..n : f[i] = x
      /\ \A i, j \in 1..n : i < j => f[i] \in before[f[j]]
  BY <1>1, <1>2, Ordered
<1> HIDE DEF f, n, all
<1>5. \A p \in places : /\ p[1] \in DOMAIN files /\ p[2] \in DOMAIN files[p[1]].rows
                        /\ RowAt(files, p) \in Row
  BY PlacesOfRows
<1>6. \A i \in DOMAIN files : \A j \in DOMAIN files[i].rows : <<i, j>> \in places
  BY PlacesOfRows
<1> HIDE DEF places
<1>7. all \in [1..n -> Row] /\ \A k \in 1..n : all[k] = RowAt(files, f[k])
  BY <1>3, <1>4, <1>5
<1>8. all \in Seq(Row) /\ DOMAIN all = 1..n
  BY <1>4, <1>7, FunctionIsSeq
<1>9. Sorted(all)
  <2> SUFFICES ASSUME NEW i \in 1..n, NEW j \in 1..n, i < j  PROVE NotAfter(all[i], all[j])
    BY <1>8 DEF Sorted
  <2>1. f[i] \in places /\ f[j] \in places /\ f[i] \in before[f[j]]
    BY <1>4
  <2>2. SortsBefore(files, f[i], f[j])
    BY <1>1, <2>1
  <2>3. all[i] = RowAt(files, f[i]) /\ all[j] = RowAt(files, f[j]) /\ all[i] \in Row /\ all[j] \in Row
    BY <1>5, <1>7, <2>1
  <2>4. ~NotAfter(all[j], all[i]) \/ NotAfter(all[i], all[j])
    BY <2>2, <2>3 DEF SortsBefore
  <2> QED  BY <2>3, <2>4 DEF NotAfter, Row
<1>10. ASSUME NEW r \in Range(all)  PROVE r \in RowSet(files)
  <2>1. PICK k \in 1..n : r = RowAt(files, f[k])
    BY <1>7, <1>8 DEF Range
  <2>2. f[k] \in places
    BY <1>4
  <2> QED  BY <1>5, <2>1, <2>2 DEF RowAt, RowSet, Range
<1>11. ASSUME NEW r \in RowSet(files)  PROVE r \in Range(all)
  <2>1. PICK i \in DOMAIN files : r \in Range(files[i].rows)
    BY DEF RowSet
  <2>2. PICK j \in DOMAIN files[i].rows : r = files[i].rows[j]
    BY <2>1 DEF Range
  <2>3. PICK k \in 1..n : f[k] = <<i, j>>
    BY <1>4, <1>6
  <2>4. RowAt(files, f[k]) = r
    BY <2>2, <2>3 DEF RowAt
  <2> QED  BY <1>7, <1>8, <2>4 DEF Range
<1> QED  BY <1>8, <1>9, <1>10, <1>11 DEF all

\* The rows that satisfy the predicate, still sorted.
LEMMA FilteredRows ==
    ASSUME NEW rows \in Seq(Row), Sorted(rows)
    PROVE  /\ Satisfying(rows) \in Seq(Row) /\ Sorted(Satisfying(rows))
           /\ Range(Satisfying(rows)) = {r \in Range(rows) : Satisfies(r)}
<1> DEFINE places == {i \in DOMAIN rows : Satisfies(rows[i])}
           s == At(rows, places)
<1>1. Satisfying(rows) = s /\ places \in SUBSET (DOMAIN rows)
  BY DEF Satisfying
<1>2. s \in Seq(Row)
  BY <1>1, AtPlaces
<1>3. PICK f \in [DOMAIN s -> places] :
         /\ \A i \in DOMAIN s : s[i] = rows[f[i]]
         /\ \A p \in places : \E i \in DOMAIN s : f[i] = p
         /\ \A i, j \in DOMAIN s : i < j => f[i] < f[j]
  BY <1>1, AtPlaces
<1> HIDE DEF s
<1>4. \A p \in places : p \in DOMAIN rows /\ Satisfies(rows[p])
  OBVIOUS
<1>5. \A i \in DOMAIN rows : Satisfies(rows[i]) => i \in places
  OBVIOUS
<1> HIDE DEF places
<1>6. Sorted(s)
  BY <1>3, <1>4 DEF Sorted
<1>7. ASSUME NEW r \in Range(s)  PROVE r \in Range(rows) /\ Satisfies(r)
  BY <1>3, <1>4 DEF Range
<1>8. ASSUME NEW r \in Range(rows), Satisfies(r)  PROVE r \in Range(s)
  BY <1>3, <1>5, <1>8 DEF Range
<1> QED  BY <1>1, <1>2, <1>6, <1>7, <1>8

\* In Overwrite mode, merging keeps rows, and of each key one with no smaller
\* sequence.
LEMMA MergedRows ==
    ASSUME NEW rows \in Seq(Row), Sorted(rows), mode = "Overwrite"
    PROVE  /\ MergedByKey(rows) \in Seq(Row)
           /\ Range(MergedByKey(rows)) \subseteq Range(rows)
           /\ \A r \in Range(rows) : \E q \in Range(MergedByKey(rows)) : q.pk = r.pk /\ r.seq <= q.seq
<1> DEFINE key == [i \in DOMAIN rows |-> rows[i].pk]
           merged == MergedByKey(rows)
<1>1. \A i \in DOMAIN rows : key[i] = rows[i].pk
  OBVIOUS
<1>2. merged = [k \in DOMAIN Runs(rows, key) |-> LastValue(Runs(rows, key)[k])]
  BY DEF MergedByKey, Merge
<1> HIDE DEF key
<1>3. PICK m \in Nat : \E a, b \in [1..m -> 1..Len(rows)] : IsCut(rows, key, m, a, b)
  BY RunsCut
<1>4. PICK a \in [1..m -> 1..Len(rows)], b \in [1..m -> 1..Len(rows)] : IsCut(rows, key, m, a, b)
  BY <1>3
<1>5. Len(rows) \in Nat /\ DOMAIN rows = 1..Len(rows) /\ \A i \in DOMAIN rows : rows[i] \in Row
  BY LenProperties
<1>6. merged = [k \in 1..m |-> LastValue(SubSeq(rows, a[k], b[k]))]
  BY <1>2, <1>4 DEF IsCut
<1> HIDE DEF merged
<1>7. ASSUME NEW k \in 1..m
      PROVE  /\ a[k] \in 1..Len(rows) /\ b[k] \in 1..Len(rows) /\ a[k] <= b[k]
             /\ merged[k] = rows[b[k]]
  <2>1. a[k] \in 1..Len(rows) /\ b[k] \in 1..Len(rows) /\ a[k] <= b[k]
    BY <1>4 DEF IsCut
  <2> DEFINE run == SubSeq(rows, a[k], b[k])
             l == b[k] - a[k] + 1
  <2>2. a[k] \in Int /\ b[k] \in Int /\ l \in Nat /\ l \in 1..l
    BY <1>5, <2>1
  <2>3. \A i \in a[k]..b[k] : rows[i] \in Row
    BY <1>5, <2>1
  <2>4. Len(run) = l /\ \A i \in 1..l : run[i] = rows[a[k] + i - 1]
    BY <2>1, <2>2, <2>3, SubSeqProperties
  <2>5. LastValue(run) = rows[a[k] + l - 1]
    BY <2>2, <2>4 DEF LastValue
  <2>6. a[k] + l - 1 = b[k]
    BY <2>2
  <2> QED  BY <1>6, <2>1, <2>5, <2>6
<1>8. merged \in [1..m -> Row]
  BY <1>5, <1>6, <1>7
<1>9. merged \in Seq(Row) /\ DOMAIN merged = 1..m
  BY <1>8, FunctionIsSeq
<1>10. ASSUME NEW r \in Range(merged)  PROVE r \in Range(rows)
  <2>1. PICK k \in 1..m : r = merged[k]
    BY <1>9 DEF Range
  <2> QED  BY <1>5, <1>7, <2>1 DEF Range
<1>11. ASSUME NEW r \in Range(rows)  PROVE \E q \in Range(merged) : q.pk = r.pk /\ r.seq <= q.seq
  <2>1. PICK i \in 1..Len(rows) : r = rows[i]
    BY <1>5 DEF Range
  <2>2. PICK k \in 1..m : a[k] <= i /\ i <= b[k]
    BY <1>4 DEF IsCut
  <2>3. a[k] \in Int /\ b[k] \in 1..Len(rows) /\ b[k] \in Int /\ i \in Int /\ a[k] <= b[k]
    BY <1>7
  <2>4. i \in a[k]..b[k] /\ b[k] \in a[k]..b[k]
    BY <2>2, <2>3
  <2>5. key[i] = key[b[k]]
    BY <1>4, <2>4 DEF IsCut
  <2>6. rows[i].pk = rows[b[k]].pk
    BY <1>5, <1>1, <2>3, <2>5
  <2>7. i = b[k] \/ NotAfter(rows[i], rows[b[k]])
    <3>1. i = b[k] \/ i < b[k]
      BY <2>2, <2>3
    <3> QED  BY <1>5, <2>3, <3>1 DEF Sorted
  <2>8. rows[i] \in Row /\ rows[b[k]] \in Row
    BY <1>5, <2>3
  <2>9. rows[i].seq <= rows[b[k]].seq
    <3>1. rows[i].seq \in Int /\ rows[i].pk \in Int
      BY <2>8 DEF Row
    <3> QED  BY <2>6, <2>7, <3>1 DEF NotAfter
  <2>10. rows[b[k]] \in Range(merged)
    BY <1>7, <1>9 DEF Range
  <2> QED  BY <2>1, <2>6, <2>9, <2>10
<1> QED  BY <1>9, <1>10, <1>11 DEF merged
-----------------------------------------------------------------------------
\* What holds of 0 and of the successor of each number below n holds up to n.
LEMMA UpTo ==
    ASSUME NEW n \in Nat, NEW good, 0 \in good,
           \A k \in 0..(n - 1) : k \in good => k + 1 \in good
    PROVE  \A k \in 0..n : k \in good
<1> DEFINE bad == {k \in 0..n : k \notin good}
<1> SUFFICES ASSUME bad # {}  PROVE FALSE
  OBVIOUS
<1>1. IsFiniteSet(bad) /\ bad \subseteq Int
  <2>1. IsFiniteSet(0..n) /\ bad \in SUBSET (0..n)
    BY FS_Interval
  <2>2. bad \subseteq Int
    OBVIOUS
  <2> QED  BY <2>1, <2>2, FS_Subset
<1>2. PICK k \in bad : \A j \in bad : k <= j
  BY <1>1, LeastAndGreatest
<1>3. k \in 0..n /\ k \notin good /\ k # 0
  BY <1>2
<1>4. k - 1 \in 0..(n - 1) /\ k - 1 \in 0..n /\ ~(k <= k - 1) /\ (k - 1) + 1 = k
  BY <1>3
<1>5. k - 1 \in good
  BY <1>2, <1>4
<1> QED  BY <1>3, <1>4, <1>5

\* The sequences of s joined up to each place.
IsJoin(s, g, n) == \A i \in 1..n : g[i] = IF i = 1 THEN s[i] ELSE g[i - 1] \o s[i]

\* Joined(s) joins all of them.
LEMMA JoinedUpTo ==
    ASSUME NEW T, NEW s \in Seq(T), Len(s) # 0
    PROVE  \E g : IsJoin(s, g, Len(s)) /\ Joined(s) = g[Len(s)]
<1> DEFINE n == Len(s)
           Step(g, i) == IF i = 1 THEN s[i] ELSE g[i - 1] \o s[i]
           good == {m \in Nat : \E g : g = [i \in 1..m |-> Step(g, i)]}
<1>1. n \in Nat /\ n # 0
  BY LenProperties
<1>2. 0 \in good
  <2> DEFINE g == [i \in 1..0 |-> s[i]]
  <2>1. g = [i \in 1..0 |-> Step(g, i)]
    OBVIOUS
  <2> QED  BY <2>1
<1>3. ASSUME NEW m \in 0..(n - 1), m \in good  PROVE m + 1 \in good
  <2>1. PICK h : h = [i \in 1..m |-> Step(h, i)]
    BY <1>3
  <2> DEFINE g == [i \in 1..(m + 1) |-> IF i <= m THEN h[i] ELSE Step(h, i)]
  <2>2. ASSUME NEW i \in 1..(m + 1)  PROVE g[i] = Step(g, i)
    <3>1. CASE i = 1
      <4>1. h[i] = s[i] \/ ~(i <= m)
        BY <2>1, <3>1
      <4> QED  BY <3>1, <4>1
    <3>2. CASE i # 1
      <4>1. i - 1 \in 1..(m + 1) /\ i - 1 <= m
        BY <3>2
      <4>2. g[i - 1] = h[i - 1]
        BY <4>1
      <4>3. i <= m => h[i] = Step(h, i)
        <5>1. i <= m => i \in 1..m
          OBVIOUS
        <5> HIDE DEF Step
        <5> QED  BY <2>1, <5>1
      <4>4. g[i] = Step(h, i)
        <5>1. g[i] = IF i <= m THEN h[i] ELSE Step(h, i)
          OBVIOUS
        <5> HIDE DEF g, Step
        <5> QED  BY <4>3, <5>1
      <4> QED  BY <3>2, <4>2, <4>4
    <3> QED  BY <3>1, <3>2
  <2>3. g = [i \in 1..(m + 1) |-> g[i]]
    OBVIOUS
  <2> HIDE DEF g
  <2>4. g = [i \in 1..(m + 1) |-> Step(g, i)]
    BY <2>2, <2>3
  <2>5. m + 1 \in Nat
    OBVIOUS
  <2> QED  BY <2>4, <2>5
<1>4. n \in good
  <2> HIDE DEF good
  <2>1. \A k \in 0..n : k \in good
    BY <1>1, <1>2, <1>3, UpTo
  <2> QED  BY <1>1, <2>1
<1> DEFINE g == CHOOSE g : g = [i \in 1..n |-> Step(g, i)]
<1>5. g = [i \in 1..n |-> Step(g, i)]
  BY <1>4
<1>6. Joined(s) = g[n]
  BY DEF Joined
<1> HIDE DEF g
<1>7. \A i \in 1..n : g[i] = Step(g, i)
  BY <1>5
<1> QED  BY <1>6, <1>7 DEF IsJoin

\* What joining one more sequence does to the elements.
LEMMA JoinOne ==
    ASSUME NEW T, NEW s \in Seq(T), NEW t \in Seq(T)
    PROVE  /\ s \o t \in Seq(T) /\ Len(s \o t) = Len(s) + Len(t)
           /\ Range(s \o t) = Range(s) \cup Range(t)
           /\ IsInjective(s) /\ IsInjective(t) /\ Range(s) \cap Range(t) = {} => IsInjective(s \o t)
           /\ s # <<>> => (s \o t)[1] = s[1]
<1> DEFINE j == s \o t
           m == Len(s)
           n == Len(t)
<1>1. m \in Nat /\ DOMAIN s = 1..m /\ n \in Nat /\ DOMAIN t = 1..n
  BY LenProperties
<1>2. /\ j \in Seq(T) /\ Len(j) = m + n
      /\ \A i \in 1..(m + n) : j[i] = IF i <= m THEN s[i] ELSE t[i - m]
  BY ConcatProperties
<1>3. DOMAIN j = 1..(m + n)
  BY <1>2, LenProperties
<1>4. s # <<>> => m # 0
  BY EmptySeq
<1> HIDE DEF j, m, n
<1>5. \A i \in 1..m : i \in 1..(m + n) /\ j[i] = s[i]
  BY <1>1, <1>2
<1>6. \A i \in 1..n : m + i \in 1..(m + n) /\ j[m + i] = t[i]
  <2> SUFFICES ASSUME NEW i \in 1..n  PROVE m + i \in 1..(m + n) /\ j[m + i] = t[i]
    OBVIOUS
  <2>1. m + i \in 1..(m + n) /\ ~(m + i <= m) /\ (m + i) - m = i
    BY <1>1
  <2> QED  BY <1>2, <2>1
<1>7. \A i \in 1..(m + n) : i \in 1..m \/ \E k \in 1..n : i = m + k
  <2> SUFFICES ASSUME NEW i \in 1..(m + n), i \notin 1..m  PROVE \E k \in 1..n : i = m + k
    OBVIOUS
  <2>1. i - m \in 1..n /\ i = m + (i - m)
    BY <1>1
  <2> QED  BY <2>1
<1>8. Range(j) = Range(s) \cup Range(t)
  <2>1. ASSUME NEW x \in Range(j)  PROVE x \in Range(s) \cup Range(t)
    <3>1. PICK i \in 1..(m + n) : x = j[i]
      BY <1>3 DEF Range
    <3>2. CASE i \in 1..m
      BY <1>1, <1>5, <3>1, <3>2 DEF Range
    <3>3. CASE i \notin 1..m
      <4>1. PICK k \in 1..n : i = m + k
        BY <1>7, <3>3
      <4>2. x = t[k]
        BY <1>6, <3>1, <4>1
      <4> QED  BY <1>1, <4>2 DEF Range
    <3> QED  BY <3>2, <3>3
  <2>2. \A x \in Range(s) \cup Range(t) : x \in Range(j)
    BY <1>1, <1>3, <1>5, <1>6 DEF Range
  <2> QED  BY <2>1, <2>2
<1>9. ASSUME IsInjective(s), IsInjective(t), Range(s) \cap Range(t) = {},
             NEW a \in 1..(m + n), NEW b \in 1..(m + n), j[a] = j[b]
      PROVE  a = b
  <2>1. CASE a \in 1..m /\ b \in 1..m
    BY <1>1, <1>5, <1>9, <2>1 DEF IsInjective
  <2>2. CASE a \in 1..m /\ b \notin 1..m
    <3>1. PICK k \in 1..n : b = m + k
      BY <1>7, <2>2
    <3>2. s[a] = t[k]
      BY <1>5, <1>6, <1>9, <2>2, <3>1
    <3>3. s[a] \in Range(s) /\ t[k] \in Range(t)
      BY <1>1, <2>2 DEF Range
    <3> QED  BY <1>9, <3>2, <3>3
  <2>3. CASE a \notin 1..m /\ b \in 1..m
    <3>1. PICK k \in 1..n : a = m + k
      BY <1>7, <2>3
    <3>2. s[b] = t[k]
      BY <1>5, <1>6, <1>9, <2>3, <3>1
    <3>3. s[b] \in Range(s) /\ t[k] \in Range(t)
      BY <1>1, <2>3 DEF Range
    <3> QED  BY <1>9, <3>2, <3>3
  <2>4. CASE a \notin 1..m /\ b \notin 1..m
    <3>1. PICK k \in 1..n : a = m + k
      BY <1>7, <2>4
    <3>2. PICK l \in 1..n : b = m + l
      BY <1>7, <2>4
    <3>3. t[k] = t[l]
      BY <1>6, <1>9, <3>1, <3>2
    <3>4. k = l
      BY <1>1, <1>9, <3>3 DEF IsInjective
    <3> QED  BY <3>1, <3>2, <3>4
  <2> QED  BY <2>1, <2>2, <2>3, <2>4
<1>10. s # <<>> => j[1] = s[1]
  BY <1>1, <1>4, <1>5
<1>11. IsInjective(s) /\ IsInjective(t) /\ Range(s) \cap Range(t) = {} => IsInjective(j)
  BY <1>3, <1>9 DEF IsInjective
<1> QED  BY <1>2, <1>8, <1>10, <1>11 DEF j, m, n

\* Joining keeps all elements, and each once if they are apart.
LEMMA JoinedRows ==
    ASSUME NEW T, NEW s \in Seq(Seq(T))
    PROVE  LET apart == /\ \A i \in DOMAIN s : IsInjective(s[i])
                        /\ \A i, j \in DOMAIN s : i # j => Range(s[i]) \cap Range(s[j]) = {}
           IN  /\ Joined(s) \in Seq(T)
               /\ \A x : x \in Range(Joined(s)) <=> \E i \in DOMAIN s : x \in Range(s[i])
               /\ apart => IsInjective(Joined(s))
               /\ s # <<>> /\ s[1] # <<>> => Joined(s) # <<>> /\ Joined(s)[1] = s[1][1]
<1> DEFINE apart == /\ \A i \in DOMAIN s : IsInjective(s[i])
                    /\ \A i, j \in DOMAIN s : i # j => Range(s[i]) \cap Range(s[j]) = {}
           n == Len(s)
<1>1. n \in Nat /\ DOMAIN s = 1..n /\ \A i \in 1..n : s[i] \in Seq(T)
  BY LenProperties
<1>2. CASE n = 0
  <2>1. s = <<>>
    BY <1>2, EmptySeq
  <2>2. Joined(s) = <<>>
    BY <1>2, <2>1 DEF Joined
  <2>3. DOMAIN s = {}
    BY <1>1, <1>2
  <2>4. <<>> \in Seq(T)
    BY EmptySeq
  <2>5. Range(s) = {}
    BY <2>3 DEF Range
  <2> QED  BY <2>1, <2>2, <2>3, <2>4, <2>5 DEF IsInjective
<1>3. CASE n # 0
  <2>1. PICK g : IsJoin(s, g, n) /\ Joined(s) = g[n]
    BY <1>3, JoinedUpTo
  <2> DEFINE Good(m) ==
               /\ g[m] \in Seq(T)
               /\ \A x : x \in Range(g[m]) <=> \E i \in 1..m : x \in Range(s[i])
               /\ apart => IsInjective(g[m])
               /\ s[1] # <<>> => g[m] # <<>> /\ g[m][1] = s[1][1]
             good == {m \in Nat : m = 0 \/ Good(m)}
  <2> HIDE DEF n
  <2>2. 1 \in 1..n /\ g[1] = s[1]
    BY <1>1, <1>3, <2>1 DEF IsJoin
  <2>3. Good(1)
    <3>1. \A x : x \in Range(g[1]) <=> \E i \in 1..1 : x \in Range(s[i])
      BY <2>2
    <3> QED  BY <1>1, <2>2, <3>1
  <2>4. ASSUME NEW m \in 1..(n - 1), Good(m)  PROVE Good(m + 1)
    <3>1. m + 1 \in 1..n /\ m + 1 # 1 /\ (m + 1) - 1 = m /\ m \in 1..n /\ m # m + 1
      BY <1>1
    <3>2. g[m + 1] = g[m] \o s[m + 1]
      BY <2>1, <3>1 DEF IsJoin
    <3>3. g[m] \in Seq(T) /\ s[m + 1] \in Seq(T)
      BY <1>1, <2>4, <3>1
    <3> DEFINE j == g[m + 1]
               t == s[m + 1]
    <3>4. /\ j \in Seq(T) /\ Len(j) = Len(g[m]) + Len(t)
          /\ Range(j) = Range(g[m]) \cup Range(t)
          /\ IsInjective(g[m]) /\ IsInjective(t) /\ Range(g[m]) \cap Range(t) = {} => IsInjective(j)
          /\ g[m] # <<>> => j[1] = g[m][1]
      <4> DEFINE u == g[m]
      <4>1. j = u \o t /\ u \in Seq(T) /\ t \in Seq(T)
        BY <3>2, <3>3
      <4> HIDE DEF u, t, j
      <4>2. /\ u \o t \in Seq(T) /\ Len(u \o t) = Len(u) + Len(t)
            /\ Range(u \o t) = Range(u) \cup Range(t)
            /\ IsInjective(u) /\ IsInjective(t) /\ Range(u) \cap Range(t) = {} => IsInjective(u \o t)
            /\ u # <<>> => (u \o t)[1] = u[1]
        BY <4>1, JoinOne
      <4>3. /\ j \in Seq(T) /\ Len(j) = Len(u) + Len(t)
            /\ Range(j) = Range(u) \cup Range(t)
            /\ IsInjective(u) /\ IsInjective(t) /\ Range(u) \cap Range(t) = {} => IsInjective(j)
            /\ u # <<>> => j[1] = u[1]
        BY <4>1, <4>2
      <4> QED  BY <4>3 DEF u
    <3>5. \A i \in 1..(m + 1) : i \in 1..m \/ i = m + 1
      BY <3>1
    <3>6. \A i \in 1..m : i \in 1..(m + 1) /\ i \in 1..n /\ i # m + 1
      BY <1>1, <3>1
    <3>7. ASSUME NEW x  PROVE x \in Range(j) <=> \E i \in 1..(m + 1) : x \in Range(s[i])
      <4>1. x \in Range(j) <=> x \in Range(g[m]) \/ x \in Range(t)
        BY <3>4
      <4>2. x \in Range(g[m]) <=> \E i \in 1..m : x \in Range(s[i])
        BY <2>4
      <4>3. m + 1 \in 1..(m + 1)
        BY <3>1
      <4> QED  BY <3>5, <3>6, <4>1, <4>2, <4>3
    <3>8. ASSUME apart  PROVE IsInjective(j)
      <4>1. IsInjective(g[m]) /\ IsInjective(t)
        BY <1>1, <2>4, <3>1, <3>8
      <4>2. ASSUME NEW x \in Range(g[m]), x \in Range(t)  PROVE FALSE
        <5>1. PICK i \in 1..m : x \in Range(s[i])
          BY <2>4
        <5>2. Range(s[i]) \cap Range(t) = {}
          BY <1>1, <3>1, <3>6, <3>8
        <5> QED  BY <4>2, <5>1, <5>2
      <4> QED  BY <3>4, <4>1, <4>2
    <3>9. ASSUME s[1] # <<>>  PROVE j # <<>> /\ j[1] = s[1][1]
      <4>1. g[m] # <<>> /\ g[m][1] = s[1][1]
        BY <2>4, <3>9
      <4>2. Len(g[m]) # 0 /\ Len(g[m]) \in Nat /\ Len(t) \in Nat
        BY <3>3, <4>1, EmptySeq, LenProperties
      <4>3. Len(j) # 0
        <5> DEFINE p == Len(g[m])
                   q == Len(t)
                   l == Len(j)
        <5>1. l = p + q /\ p \in Nat /\ p # 0 /\ q \in Nat
          BY <3>4, <4>2
        <5> HIDE DEF l, p, q
        <5>2. l # 0
          BY <5>1
        <5> QED  BY <5>2 DEF l
      <4>4. j # <<>>
        <5>1. j \in Seq(T)
          BY <3>4
        <5> HIDE DEF j
        <5>2. j = <<>> => Len(j) = 0
          BY <5>1, EmptySeq
        <5> QED  BY <4>3, <5>2
      <4> QED  BY <3>4, <4>1, <4>4
    <3> HIDE DEF apart
    <3> QED  BY <3>4, <3>7, <3>8, <3>9
  <2>5. ASSUME NEW m \in 0..(n - 1), m \in good  PROVE m + 1 \in good
    <3>1. CASE m = 0
      <4> HIDE DEF Good
      <4> QED  BY <2>3, <3>1
    <3>2. CASE m # 0
      <4> HIDE DEF Good
      <4>1. m \in 1..(n - 1) /\ m + 1 \in Nat
        BY <1>1, <3>2
      <4> QED  BY <2>4, <2>5, <3>2, <4>1
    <3> QED  BY <3>1, <3>2
  <2>6. n \in good
    <3>1. 0 \in good
      OBVIOUS
    <3> HIDE DEF good
    <3>2. \A k \in 0..n : k \in good
      BY <1>1, <2>5, <3>1, UpTo
    <3> QED  BY <1>1, <3>2
  <2>7. Good(n)
    <3> HIDE DEF Good
    <3> QED  BY <1>3, <2>6
  <2> HIDE DEF apart
  <2> QED  BY <1>1, <2>1, <2>7 DEF apart
<1> QED  BY <1>2, <1>3
-----------------------------------------------------------------------------
\* No byte is twice in two sets of rows, among rows of one key.
RowsApart(R, Q) == \A r \in R, q \in Q : r.pk = q.pk => Range(r.val) \cap Range(q.val) = {}

\* No byte is twice in a list of rows, among rows of one key.
Apart(rows) ==
    /\ \A i \in DOMAIN rows : IsInjective(rows[i].val)
    /\ \A i, j \in DOMAIN rows : i # j => RowsApart({rows[i]}, {rows[j]})

ApartFiles(files) ==
    /\ \A i \in DOMAIN files : Apart(files[i].rows)
    /\ \A i, j \in DOMAIN files : i # j => RowsApart(Range(files[i].rows), Range(files[j].rows))

\* The files of a table: the rows are inside their files' ranges; in mode Overwrite a
\* value is the one written with its sequence; in mode Append no byte is twice in
\* the table.
FilesOk(m, files) ==
    /\ files \in Seq(File)
    /\ \A i \in DOMAIN files : \A r \in Range(files[i].rows) :
          files[i].start <= r.pk /\ r.pk < files[i].end /\ r.val # <<>>
    /\ m = "Overwrite" => \A r \in RowSet(files) : r.val = <<r.seq>>
    /\ m = "Append" => ApartFiles(files)
-----------------------------------------------------------------------------
\* new has elements of old, from each place at most one.
IsPick(new, old, f) ==
    /\ f \in [DOMAIN new -> DOMAIN old]
    /\ \A i \in DOMAIN new : new[i] = old[f[i]]
    /\ \A i, j \in DOMAIN new : i # j => f[i] # f[j]

\* The elements at some places are such a choice.
LEMMA AtIsPick ==
    ASSUME NEW R, NEW s \in Seq(R), NEW places \in SUBSET (DOMAIN s)
    PROVE  /\ At(s, places) \in Seq(R)
           /\ \E f : /\ IsPick(At(s, places), s, f)
                     /\ \A p \in DOMAIN s : p \in places <=> \E i \in DOMAIN At(s, places) : f[i] = p
<1> DEFINE new == At(s, places)
<1>1. new \in Seq(R)
  BY AtPlaces
<1>2. PICK f \in [DOMAIN new -> places] :
         /\ \A i \in DOMAIN new : new[i] = s[f[i]]
         /\ \A p \in places : \E i \in DOMAIN new : f[i] = p
         /\ \A i, j \in DOMAIN new : i < j => f[i] < f[j]
  BY AtPlaces
<1> HIDE DEF new
<1>3. DOMAIN new = 1..Len(new) /\ Len(new) \in Nat /\ DOMAIN s = 1..Len(s) /\ Len(s) \in Nat
  BY <1>1, LenProperties
<1>4. f \in [DOMAIN new -> DOMAIN s]
  BY <1>2
<1>5. ASSUME NEW i \in DOMAIN new, NEW j \in DOMAIN new, i # j  PROVE f[i] # f[j]
  <2>1. f[i] \in Int /\ f[j] \in Int /\ i \in Int /\ j \in Int
    BY <1>3, <1>4
  <2>2. i < j \/ j < i
    BY <1>5, <2>1
  <2>3. f[i] < f[j] \/ f[j] < f[i]
    BY <1>2, <2>2
  <2> QED  BY <2>1, <2>3
<1>6. IsPick(new, s, f)
  BY <1>2, <1>4, <1>5 DEF IsPick
<1>7. \A p \in DOMAIN s : p \in places <=> \E i \in DOMAIN new : f[i] = p
  BY <1>2
<1> QED  BY <1>1, <1>6, <1>7 DEF new

\* piece has the elements from a to b.
IsPiece(piece, s, a, b) ==
    /\ Len(piece) = b - a + 1 /\ piece # <<>> /\ piece[1] = s[a]
    /\ \E f : /\ IsPick(piece, s, f)
              /\ \A p \in DOMAIN s : p \in a..b <=> \E i \in DOMAIN piece : f[i] = p

\* So is a piece.
LEMMA PieceIsPick ==
    ASSUME NEW R, NEW s \in Seq(R), NEW a \in 1..Len(s), NEW b \in 1..Len(s), a <= b
    PROVE  SubSeq(s, a, b) \in Seq(R) /\ IsPiece(SubSeq(s, a, b), s, a, b)
<1> DEFINE piece == SubSeq(s, a, b)
           l == b - a + 1
           f == [i \in 1..l |-> a + i - 1]
<1>1. Len(s) \in Nat /\ DOMAIN s = 1..Len(s) /\ \A i \in DOMAIN s : s[i] \in R
  BY LenProperties
<1>2. a \in Int /\ b \in Int /\ l \in Nat /\ 1 \in 1..l
  BY <1>1
<1>3. \A i \in a..b : s[i] \in R
  BY <1>1
<1>4. piece \in Seq(R) /\ Len(piece) = l /\ \A i \in 1..l : piece[i] = s[a + i - 1]
  BY <1>2, <1>3, SubSeqProperties
<1>5. DOMAIN piece = 1..l
  BY <1>4, LenProperties
<1> HIDE DEF piece
<1>6. piece # <<>> /\ piece[1] = s[a]
  <2>1. piece # <<>>
    BY <1>2, <1>5
  <2>2. a + 1 - 1 = a
    BY <1>2
  <2> QED  BY <1>2, <1>4, <2>1, <2>2
<1>7. \A i \in 1..l : f[i] = a + i - 1 /\ f[i] \in DOMAIN s /\ f[i] \in a..b
  BY <1>1, <1>2
<1>8. f = [i \in 1..l |-> f[i]]
  OBVIOUS
<1>9. ASSUME NEW p \in a..b  PROVE \E i \in 1..l : f[i] = p
  <2>1. p - a + 1 \in 1..l /\ a + (p - a + 1) - 1 = p
    BY <1>2
  <2> QED  BY <1>7, <2>1
<1>10. IsPick(piece, s, f)
  <2>1. \A i, j \in 1..l : i # j => f[i] # f[j]
    BY <1>2, <1>7
  <2>2. f \in [1..l -> DOMAIN s]
    BY <1>7, <1>8
  <2> HIDE DEF f, l
  <2> QED  BY <1>4, <1>5, <1>7, <2>1, <2>2 DEF IsPick
<1>11. \A p \in DOMAIN s : p \in a..b <=> \E i \in DOMAIN piece : f[i] = p
  <2> HIDE DEF f, l
  <2> QED  BY <1>5, <1>7, <1>9
<1>12. \E g : /\ IsPick(piece, s, g)
              /\ \A p \in DOMAIN s : p \in a..b <=> \E i \in DOMAIN piece : g[i] = p
  <2> HIDE DEF f
  <2> QED  BY <1>10, <1>11
<1> QED  BY <1>4, <1>5, <1>6, <1>12 DEF piece, IsPiece

\* A choice of rows that are apart are apart.
LEMMA PickedApart ==
    ASSUME NEW rows, NEW new, NEW f, IsPick(new, rows, f), Apart(rows)
    PROVE  Apart(new)
<1>1. \A i \in DOMAIN new : f[i] \in DOMAIN rows
  BY DEF IsPick
<1> QED  BY <1>1 DEF IsPick, Apart

\* The bytes of rows are those of their values, and each once if the rows are apart.
LEMMA JoinedBytes ==
    ASSUME NEW rows \in Seq(Row)
    PROVE  /\ Bytes(rows) \in Seq(Int)
           /\ \A x : x \in Range(Bytes(rows)) <=> \E i \in DOMAIN rows : x \in Range(rows[i].val)
           /\ Apart(rows) /\ (\A i, j \in DOMAIN rows : rows[i].pk = rows[j].pk) => IsInjective(Bytes(rows))
           /\ rows # <<>> /\ rows[1].val # <<>> => Bytes(rows) # <<>> /\ Bytes(rows)[1] = rows[1].val[1]
<1> DEFINE n == Len(rows)
           s == [i \in DOMAIN rows |-> rows[i].val]
<1>1. n \in Nat /\ DOMAIN rows = 1..n /\ \A i \in 1..n : rows[i] \in Row
  BY LenProperties
<1>2. \A i \in 1..n : rows[i].val \in Seq(Int)
  BY <1>1 DEF Row
<1>3. s \in [1..n -> Seq(Int)] /\ \A i \in 1..n : s[i] = rows[i].val
  BY <1>1, <1>2
<1>4. Bytes(rows) = Joined(s)
  BY DEF Bytes
<1> HIDE DEF s
<1>5. s \in Seq(Seq(Int)) /\ DOMAIN s = 1..n
  BY <1>1, <1>3, FunctionIsSeq
<1> DEFINE apart == /\ \A i \in DOMAIN s : IsInjective(s[i])
                    /\ \A i, j \in DOMAIN s : i # j => Range(s[i]) \cap Range(s[j]) = {}
<1>6. /\ Joined(s) \in Seq(Int)
      /\ \A x : x \in Range(Joined(s)) <=> \E i \in DOMAIN s : x \in Range(s[i])
      /\ apart => IsInjective(Joined(s))
      /\ s # <<>> /\ s[1] # <<>> => Joined(s) # <<>> /\ Joined(s)[1] = s[1][1]
  BY <1>5, JoinedRows
<1>7. ASSUME Apart(rows), \A i, j \in DOMAIN rows : rows[i].pk = rows[j].pk  PROVE apart
  <2>1. \A i \in 1..n : IsInjective(rows[i].val)
    BY <1>1, <1>7 DEF Apart
  <2>2. ASSUME NEW i \in 1..n, NEW j \in 1..n, i # j  PROVE Range(rows[i].val) \cap Range(rows[j].val) = {}
    BY <1>1, <1>7, <2>2 DEF Apart, RowsApart
  <2> QED  BY <1>3, <1>5, <2>1, <2>2
<1>8. ASSUME rows # <<>>  PROVE s # <<>> /\ s[1] = rows[1].val
  <2>1. n # 0
    BY <1>8, EmptySeq
  <2>2. 1 \in 1..n
    BY <1>1, <2>1
  <2>3. s # <<>>
    BY <1>5, <2>2
  <2> QED  BY <1>3, <2>2, <2>3
<1>9. \A x : x \in Range(Bytes(rows)) <=> \E i \in DOMAIN rows : x \in Range(rows[i].val)
  BY <1>1, <1>3, <1>4, <1>5, <1>6
<1> HIDE DEF apart
<1> QED  BY <1>4, <1>6, <1>7, <1>8, <1>9

\* The bytes of a key among some rows.
BytesAt(R, k) == UNION {Range(r.val) : r \in {q \in R : q.pk = k}}

\* What BytesAt has.
LEMMA BytesAtKey ==
    ASSUME NEW R, NEW k, NEW x
    PROVE  x \in BytesAt(R, k) <=> \E r \in R : r.pk = k /\ x \in Range(r.val)
BY DEF BytesAt

\* In rows that are apart, the bytes of a key are counted once each.
LEMMA BytesCounted ==
    ASSUME NEW rows \in Seq(Row), Apart(rows), NEW k
    PROVE  BytesIn(rows, k) = [number |-> Cardinality(BytesAt(Range(rows), k)), all |-> BytesAt(Range(rows), k)]
<1> DEFINE places == {i \in DOMAIN rows : rows[i].pk = k}
           of == At(rows, places)
           bytes == Bytes(of)
<1>1. places \in SUBSET (DOMAIN rows) /\ \A p \in DOMAIN rows : p \in places <=> rows[p].pk = k
  OBVIOUS
<1>2. BytesIn(rows, k) = [number |-> Len(bytes), all |-> Range(bytes)]
  BY DEF BytesIn, BytesOf
<1> HIDE DEF places
<1>3. of \in Seq(Row)
  BY <1>1, AtIsPick
<1>4. PICK f : /\ IsPick(of, rows, f)
               /\ \A p \in DOMAIN rows : p \in places <=> \E i \in DOMAIN of : f[i] = p
  BY <1>1, AtIsPick
<1> HIDE DEF of
<1>5. \A p \in DOMAIN rows : rows[p].pk = k <=> \E i \in DOMAIN of : f[i] = p
  BY <1>1, <1>4
<1>6. \A i \in DOMAIN of : f[i] \in DOMAIN rows /\ of[i] = rows[f[i]] /\ of[i].pk = k
  BY <1>4, <1>5 DEF IsPick
<1>7. Apart(of)
  BY <1>4, PickedApart
<1>8. /\ bytes \in Seq(Int) /\ IsInjective(bytes)
      /\ \A x : x \in Range(bytes) <=> \E i \in DOMAIN of : x \in Range(of[i].val)
  BY <1>3, <1>6, <1>7, JoinedBytes
<1> HIDE DEF bytes
<1>9. Range(bytes) = BytesAt(Range(rows), k)
  <2>1. ASSUME NEW x \in Range(bytes)  PROVE x \in BytesAt(Range(rows), k)
    <3>1. PICK i \in DOMAIN of : x \in Range(of[i].val)
      BY <1>8
    <3>2. of[i] \in Range(rows)
      BY <1>6 DEF Range
    <3> QED  BY <1>6, <3>1, <3>2, BytesAtKey
  <2>2. ASSUME NEW x \in BytesAt(Range(rows), k)  PROVE x \in Range(bytes)
    <3>1. PICK r \in Range(rows) : r.pk = k /\ x \in Range(r.val)
      BY <2>2, BytesAtKey
    <3>2. PICK p \in DOMAIN rows : r = rows[p]
      BY <3>1 DEF Range
    <3>3. PICK i \in DOMAIN of : f[i] = p
      BY <1>5, <3>1, <3>2
    <3>4. of[i] = r
      BY <1>6, <3>2, <3>3
    <3> QED  BY <1>8, <3>1, <3>4
  <2> QED  BY <2>1, <2>2
<1>10. Cardinality(Range(bytes)) = Len(bytes)
  <2> DEFINE n == Len(bytes)
  <2>1. n \in Nat /\ DOMAIN bytes = 1..n /\ bytes = [i \in 1..n |-> bytes[i]]
    BY <1>8, LenProperties
  <2> HIDE DEF n
  <2>2. IsFiniteSet(1..n) /\ Cardinality(1..n) = n
    <3>1. Cardinality(1..n) = IF 1 > n THEN 0 ELSE n - 1 + 1
      BY <2>1, FS_Interval
    <3>2. IsFiniteSet(1..n)
      BY <2>1, FS_Interval
    <3> QED  BY <2>1, <3>1, <3>2
  <2>3. bytes \in Bijection(1..n, Range(bytes))
    <3>1. bytes \in [1..n -> Range(bytes)]
      <4>1. \A i \in 1..n : bytes[i] \in Range(bytes)
        BY <2>1 DEF Range
      <4> QED  BY <2>1, <4>1
    <3>2. \A x \in Range(bytes) : \E i \in 1..n : bytes[i] = x
      BY <2>1 DEF Range
    <3> QED  BY <1>8, <3>1, <3>2 DEF Bijection, Injection, Surjection
  <2>4. Cardinality(1..n) = Cardinality(Range(bytes))
    BY <2>2, <2>3, FS_Bijection DEF ExistsBijection
  <2> QED  BY <2>2, <2>4 DEF n
<1> QED  BY <1>2, <1>9, <1>10

\* In Append mode, merging keeps the bytes of each key and keeps the rows apart.  A
\* merged row begins as a row of its key does.
LEMMA MergedBytes ==
    ASSUME NEW rows \in Seq(Row), mode = "Append", Apart(rows), \A i \in DOMAIN rows : rows[i].val # <<>>
    PROVE  LET merged == MergedByKey(rows)
           IN  /\ merged \in Seq(Row) /\ Apart(merged)
               /\ \A k : BytesAt(Range(merged), k) = BytesAt(Range(rows), k)
               /\ \A r \in Range(merged) :
                     r.val # <<>> /\ \E q \in Range(rows) : q.pk = r.pk /\ q.val[1] = r.val[1]
<1> DEFINE key == [i \in DOMAIN rows |-> rows[i].pk]
           merged == MergedByKey(rows)
<1>1. \A i \in DOMAIN rows : key[i] = rows[i].pk
  OBVIOUS
<1>2. merged = [k \in DOMAIN Runs(rows, key) |-> BytesMerge(Runs(rows, key)[k])]
  BY DEF MergedByKey, Merge
<1> HIDE DEF key
<1>3. PICK m \in Nat : \E a, b \in [1..m -> 1..Len(rows)] : IsCut(rows, key, m, a, b)
  BY RunsCut
<1>4. PICK a \in [1..m -> 1..Len(rows)], b \in [1..m -> 1..Len(rows)] : IsCut(rows, key, m, a, b)
  BY <1>3
<1>5. Len(rows) \in Nat /\ DOMAIN rows = 1..Len(rows) /\ \A i \in DOMAIN rows : rows[i] \in Row
  BY LenProperties
<1> DEFINE run(k) == SubSeq(rows, a[k], b[k])
<1>6. merged = [k \in 1..m |-> BytesMerge(run(k))]
  BY <1>2, <1>4 DEF IsCut
<1> HIDE DEF merged
<1>7. ASSUME NEW k \in 1..m
      PROVE  /\ a[k] \in DOMAIN rows /\ b[k] \in DOMAIN rows /\ a[k] <= b[k] /\ a[k] \in a[k]..b[k]
             /\ \A i \in a[k]..b[k] : i \in DOMAIN rows /\ rows[i].pk = rows[a[k]].pk
             /\ merged[k] \in Row /\ merged[k].pk = rows[a[k]].pk
             /\ IsInjective(merged[k].val) /\ merged[k].val # <<>> /\ merged[k].val[1] = rows[a[k]].val[1]
             /\ \A x : x \in Range(merged[k].val) <=> \E i \in a[k]..b[k] : x \in Range(rows[i].val)
  <2> DEFINE piece == run(k)
  <2>1. a[k] \in 1..Len(rows) /\ b[k] \in 1..Len(rows) /\ a[k] <= b[k]
    BY <1>4 DEF IsCut
  <2>2. a[k] \in a[k]..b[k] /\ \A i \in a[k]..b[k] : i \in DOMAIN rows
    BY <1>5, <2>1
  <2>3. \A i \in a[k]..b[k] : rows[i].pk = rows[a[k]].pk
    <3>1. \A i \in a[k]..b[k] : key[i] = key[a[k]]
      BY <1>4 DEF IsCut
    <3> QED  BY <1>1, <2>2, <3>1
  <2>4. /\ piece \in Seq(Row) /\ piece # <<>> /\ piece[1] = rows[a[k]]
        /\ \E f : /\ IsPick(piece, rows, f)
                  /\ \A p \in DOMAIN rows : p \in a[k]..b[k] <=> \E i \in DOMAIN piece : f[i] = p
    <3>1. piece \in Seq(Row) /\ IsPiece(piece, rows, a[k], b[k])
      BY <2>1, PieceIsPick
    <3> HIDE DEF piece
    <3> QED  BY <3>1 DEF IsPiece
  <2>5. PICK f : /\ IsPick(piece, rows, f)
                 /\ \A p \in DOMAIN rows : p \in a[k]..b[k] <=> \E i \in DOMAIN piece : f[i] = p
    BY <2>4
  <2>6. merged[k] = [pk |-> piece[1].pk, seq |-> piece[1].seq, val |-> Bytes(piece)]
    BY <1>6 DEF BytesMerge
  <2> HIDE DEF piece
  <2>7. \A i \in DOMAIN piece : f[i] \in DOMAIN rows /\ f[i] \in a[k]..b[k] /\ piece[i] = rows[f[i]]
    BY <2>5 DEF IsPick
  <2>8. \A i, j \in DOMAIN piece : piece[i].pk = piece[j].pk
    BY <2>3, <2>7
  <2>9. Apart(piece)
    BY <2>5, PickedApart
  <2>10. piece[1].val # <<>>
    BY <2>2, <2>4
  <2>11. /\ Bytes(piece) \in Seq(Int) /\ IsInjective(Bytes(piece))
         /\ Bytes(piece) # <<>> /\ Bytes(piece)[1] = rows[a[k]].val[1]
    BY <2>4, <2>8, <2>9, <2>10, JoinedBytes
  <2>12. \A x : x \in Range(Bytes(piece)) <=> \E i \in DOMAIN piece : x \in Range(piece[i].val)
    BY <2>4, JoinedBytes
  <2>13. merged[k].val = Bytes(piece) /\ merged[k].pk = rows[a[k]].pk
    BY <2>4, <2>6
  <2>14. merged[k] \in Row
    <3>1. piece[1].pk \in Int /\ piece[1].seq \in Int
      BY <1>5, <2>2, <2>4 DEF Row
    <3> DEFINE p == piece[1].pk
               q == piece[1].seq
               v == Bytes(piece)
    <3>2. p \in Int /\ q \in Int /\ v \in Seq(Int) /\ merged[k] = [pk |-> p, seq |-> q, val |-> v]
      BY <2>6, <2>11, <3>1
    <3> HIDE DEF p, q, v
    <3> QED  BY <3>2 DEF Row
  <2>15. ASSUME NEW x  PROVE x \in Range(merged[k].val) <=> \E i \in a[k]..b[k] : x \in Range(rows[i].val)
    <3>1. ASSUME x \in Range(merged[k].val)  PROVE \E i \in a[k]..b[k] : x \in Range(rows[i].val)
      <4>1. PICK i \in DOMAIN piece : x \in Range(piece[i].val)
        BY <2>12, <2>13, <3>1
      <4> QED  BY <2>7, <4>1
    <3>2. ASSUME NEW p \in a[k]..b[k], x \in Range(rows[p].val)  PROVE x \in Range(merged[k].val)
      <4>1. PICK i \in DOMAIN piece : f[i] = p
        BY <2>2, <2>5
      <4>2. piece[i] = rows[p]
        BY <2>7, <4>1
      <4> QED  BY <2>12, <2>13, <3>2, <4>2
    <3> QED  BY <3>1, <3>2
  <2> QED  BY <1>5, <2>1, <2>2, <2>3, <2>11, <2>13, <2>14, <2>15
<1>8. merged \in [1..m -> Row]
  BY <1>6, <1>7
<1>9. merged \in Seq(Row) /\ DOMAIN merged = 1..m
  BY <1>8, FunctionIsSeq
<1>10. Apart(merged)
  <2>1. ASSUME NEW k \in 1..m, NEW l \in 1..m, k < l, merged[k].pk = merged[l].pk,
               NEW x, x \in Range(merged[k].val), x \in Range(merged[l].val)
        PROVE  FALSE
    <3>1. PICK i \in a[k]..b[k] : x \in Range(rows[i].val)
      BY <1>7, <2>1
    <3>2. PICK j \in a[l]..b[l] : x \in Range(rows[j].val)
      BY <1>7, <2>1
    <3>3. i \in DOMAIN rows /\ j \in DOMAIN rows /\ rows[i].pk = rows[j].pk
      BY <1>7, <2>1
    <3>4. i # j
      <4>1. b[k] < a[l]
        BY <1>4, <2>1 DEF IsCut
      <4>2. a[k] \in Int /\ b[k] \in Int /\ a[l] \in Int /\ b[l] \in Int
        BY <1>4
      <4> QED  BY <4>1, <4>2
    <3> QED  BY <3>1, <3>2, <3>3, <3>4 DEF Apart, RowsApart
  <2>2. \A k, l \in 1..m : k # l => k < l \/ l < k
    OBVIOUS
  <2>3. \A k, l \in 1..m : k # l => RowsApart({merged[k]}, {merged[l]})
    <3> SUFFICES ASSUME NEW k \in 1..m, NEW l \in 1..m, k # l, merged[k].pk = merged[l].pk,
                        NEW x, x \in Range(merged[k].val), x \in Range(merged[l].val)
                 PROVE  FALSE
      BY DEF RowsApart
    <3> QED  BY <2>1, <2>2
  <2> QED  BY <1>7, <1>9, <2>3 DEF Apart
<1>11. ASSUME NEW k  PROVE BytesAt(Range(merged), k) = BytesAt(Range(rows), k)
  <2>1. ASSUME NEW x \in BytesAt(Range(merged), k)  PROVE x \in BytesAt(Range(rows), k)
    <3>1. PICK r \in Range(merged) : r.pk = k /\ x \in Range(r.val)
      BY <2>1, BytesAtKey
    <3>2. PICK l \in 1..m : r = merged[l]
      BY <1>9 DEF Range
    <3>3. PICK i \in a[l]..b[l] : x \in Range(rows[i].val)
      <4>1. x \in Range(merged[l].val)
        BY <3>1, <3>2
      <4> QED  BY <1>7, <4>1
    <3>4. rows[i] \in Range(rows) /\ rows[i].pk = k
      BY <1>7, <3>1, <3>2 DEF Range
    <3> QED  BY <3>3, <3>4, BytesAtKey
  <2>2. ASSUME NEW x \in BytesAt(Range(rows), k)  PROVE x \in BytesAt(Range(merged), k)
    <3>1. PICK r \in Range(rows) : r.pk = k /\ x \in Range(r.val)
      BY <2>2, BytesAtKey
    <3>2. PICK i \in 1..Len(rows) : r = rows[i]
      BY <1>5 DEF Range
    <3>3. PICK l \in 1..m : a[l] <= i /\ i <= b[l]
      BY <1>4 DEF IsCut
    <3>4. i \in a[l]..b[l]
      <4>1. a[l] \in Int /\ b[l] \in Int /\ i \in Int
        BY <1>4
      <4> QED  BY <3>3, <4>1
    <3>5. x \in Range(merged[l].val) /\ merged[l].pk = k
      BY <1>7, <3>1, <3>2, <3>4
    <3>6. merged[l] \in Range(merged)
      BY <1>9 DEF Range
    <3> QED  BY <3>5, <3>6, BytesAtKey
  <2> QED  BY <2>1, <2>2
<1>12. ASSUME NEW r \in Range(merged)
       PROVE  r.val # <<>> /\ \E q \in Range(rows) : q.pk = r.pk /\ q.val[1] = r.val[1]
  <2>1. PICK k \in 1..m : r = merged[k]
    BY <1>9 DEF Range
  <2>2. rows[a[k]] \in Range(rows)
    BY <1>7 DEF Range
  <2> QED  BY <1>7, <2>1, <2>2
<1> QED  BY <1>9, <1>10, <1>11, <1>12 DEF merged

\* The rows that satisfy the predicate are apart if all are.
LEMMA FilteredApart ==
    ASSUME NEW rows \in Seq(Row), Apart(rows)
    PROVE  Apart(Satisfying(rows))
<1> DEFINE places == {i \in DOMAIN rows : Satisfies(rows[i])}
<1>1. Satisfying(rows) = At(rows, places) /\ places \in SUBSET (DOMAIN rows)
  BY DEF Satisfying
<1> HIDE DEF places
<1>2. PICK f : IsPick(At(rows, places), rows, f)
  BY <1>1, AtIsPick
<1> QED  BY <1>1, <1>2, PickedApart
-----------------------------------------------------------------------------
\* The rows of files.
LEMMA RowsOfFiles ==
    ASSUME NEW files \in Seq(File)
    PROVE  /\ \A i \in DOMAIN files : files[i] \in File /\ files[i].rows \in Seq(Row)
           /\ \A i \in DOMAIN files : Range(files[i].rows) \subseteq Row
           /\ \A r : r \in RowSet(files) <=> \E i \in DOMAIN files : r \in Range(files[i].rows)
           /\ RowSet(files) \subseteq Row
<1>1. \A i \in DOMAIN files : files[i] \in File
  BY LenProperties
<1>2. \A i \in DOMAIN files : files[i].rows \in Seq(Row)
  BY <1>1 DEF File
<1>3. ASSUME NEW i \in DOMAIN files  PROVE Range(files[i].rows) \subseteq Row
  <2>1. files[i].rows \in [1..Len(files[i].rows) -> Row]
    BY <1>2, LenProperties
  <2> QED  BY <2>1 DEF Range
<1>4. \A r : r \in RowSet(files) <=> \E i \in DOMAIN files : r \in Range(files[i].rows)
  BY DEF RowSet
<1> QED  BY <1>1, <1>2, <1>3, <1>4

\* The sorted rows of files are apart if the files' are.
LEMMA AllRowsApart ==
    ASSUME NEW files \in Seq(File), ApartFiles(files)
    PROVE  Apart(AllRows(files))
<1> DEFINE places == Places(files)
           before == [p \in places |-> {q \in places : SortsBefore(files, q, p)}]
           f == InOrder(before)
           n == Cardinality(places)
           all == AllRows(files)
<1>1. DOMAIN before = places
  OBVIOUS
<1>2. IsOrder(before)
  BY SortIsOrder
<1>3. all = [k \in DOMAIN f |-> RowAt(files, f[k])]
  BY DEF AllRows
<1> HIDE DEF before
<1>4. /\ n \in Nat /\ f \in [1..n -> places]
      /\ \A i, j \in 1..n : i < j => f[i] \in before[f[j]]
  BY <1>1, <1>2, Ordered
<1> HIDE DEF f, n, all
<1>5. \A p \in places : p = <<p[1], p[2]>> /\ p[1] \in DOMAIN files /\ p[2] \in DOMAIN files[p[1]].rows
  BY PlacesOfRows
<1> HIDE DEF places
<1>6. DOMAIN all = 1..n /\ \A k \in 1..n : f[k] \in places /\ all[k] = RowAt(files, f[k])
  BY <1>3, <1>4
<1>7. ASSUME NEW i \in 1..n, NEW j \in 1..n, i # j  PROVE f[i] # f[j]
  <2>1. i < j \/ j < i
    BY <1>7
  <2>2. f[i] \in before[f[j]] \/ f[j] \in before[f[i]]
    BY <1>4, <2>1
  <2> QED  BY <1>1, <1>2, <1>6, <2>2 DEF IsOrder
<1>8. ASSUME NEW i \in 1..n  PROVE IsInjective(all[i].val)
  <2>1. f[i][1] \in DOMAIN files /\ f[i][2] \in DOMAIN files[f[i][1]].rows
    BY <1>5, <1>6
  <2> QED  BY <1>6, <2>1 DEF RowAt, ApartFiles, Apart
<1>9. ASSUME NEW i \in 1..n, NEW j \in 1..n, i # j  PROVE RowsApart({all[i]}, {all[j]})
  <2> DEFINE g == f[i][1]
             h == f[j][1]
             x == f[i][2]
             y == f[j][2]
  <2>1. g \in DOMAIN files /\ x \in DOMAIN files[g].rows /\ h \in DOMAIN files /\ y \in DOMAIN files[h].rows
    BY <1>5, <1>6
  <2>2. g # h \/ x # y
    BY <1>5, <1>6, <1>7, <1>9
  <2>3. all[i] = files[g].rows[x] /\ all[j] = files[h].rows[y]
    BY <1>6 DEF RowAt
  <2> HIDE DEF g, h, x, y
  <2>4. CASE g = h
    BY <2>1, <2>2, <2>3, <2>4 DEF ApartFiles, Apart
  <2>5. CASE g # h
    <3>1. RowsApart(Range(files[g].rows), Range(files[h].rows))
      BY <2>1, <2>5 DEF ApartFiles
    <3>2. all[i] \in Range(files[g].rows) /\ all[j] \in Range(files[h].rows)
      BY <2>1, <2>3 DEF Range
    <3> QED  BY <3>1, <3>2 DEF RowsApart
  <2> QED  BY <2>4, <2>5
<1>10. Apart(all)
  BY <1>6, <1>8, <1>9 DEF Apart
<1> QED  BY <1>10 DEF all

\* A choice of files of a table is as good.
LEMMA PickedFiles ==
    ASSUME NEW m, NEW files, NEW new \in Seq(File), NEW f, IsPick(new, files, f), FilesOk(m, files)
    PROVE  FilesOk(m, new) /\ RowSet(new) \subseteq RowSet(files)
<1>1. \A i \in DOMAIN new : f[i] \in DOMAIN files /\ new[i] = files[f[i]]
  BY DEF IsPick
<1>2. \A i, j \in DOMAIN new : i # j => f[i] # f[j]
  BY DEF IsPick
<1>3. files \in Seq(File)
  BY DEF FilesOk
<1>4. ASSUME NEW r \in RowSet(new)  PROVE r \in RowSet(files)
  BY <1>1, <1>3, RowsOfFiles
<1>5. ASSUME NEW i \in DOMAIN new, NEW r \in Range(new[i].rows)
      PROVE  new[i].start <= r.pk /\ r.pk < new[i].end /\ r.val # <<>>
  BY <1>1 DEF FilesOk
<1>6. ASSUME m = "Append"  PROVE ApartFiles(new)
  <2>1. ApartFiles(files)
    BY <1>6 DEF FilesOk
  <2> QED  BY <1>1, <1>2, <2>1 DEF ApartFiles
<1>7. m = "Overwrite" => \A r \in RowSet(new) : r.val = <<r.seq>>
  BY <1>4 DEF FilesOk
<1> QED  BY <1>4, <1>5, <1>6, <1>7 DEF FilesOk

\* Two choices of files that have no place in common have rows that are apart.
LEMMA PickedApartFiles ==
    ASSUME NEW files \in Seq(File), ApartFiles(files),
           NEW s \in Seq(File), NEW f, IsPick(s, files, f), NEW t \in Seq(File), NEW g, IsPick(t, files, g),
           \A i \in DOMAIN s, j \in DOMAIN t : f[i] # g[j]
    PROVE  RowsApart(RowSet(s), RowSet(t))
<1> SUFFICES ASSUME NEW r \in RowSet(s), NEW q \in RowSet(t), r.pk = q.pk
             PROVE  Range(r.val) \cap Range(q.val) = {}
  BY DEF RowsApart
<1>1. PICK i \in DOMAIN s : r \in Range(s[i].rows)
  BY RowsOfFiles
<1>2. PICK j \in DOMAIN t : q \in Range(t[j].rows)
  BY RowsOfFiles
<1>3. s[i] = files[f[i]] /\ t[j] = files[g[j]] /\ f[i] # g[j] /\ f[i] \in DOMAIN files /\ g[j] \in DOMAIN files
  BY DEF IsPick
<1>4. RowsApart(Range(s[i].rows), Range(t[j].rows))
  BY <1>3 DEF ApartFiles
<1> QED  BY <1>1, <1>2, <1>4 DEF RowsApart

\* The files at some places of a table and those at others.
LEMMA SplitFiles ==
    ASSUME NEW m, NEW files, FilesOk(m, files),
           NEW places \in SUBSET (DOMAIN files), NEW rest \in SUBSET (DOMAIN files \ places)
    PROVE  LET in == At(files, places) out == At(files, rest)
           IN  /\ FilesOk(m, in) /\ FilesOk(m, out)
               /\ RowSet(in) \subseteq RowSet(files) /\ RowSet(out) \subseteq RowSet(files)
               /\ \A p \in places : Range(files[p].rows) \subseteq RowSet(in)
               /\ \A p \in rest : Range(files[p].rows) \subseteq RowSet(out)
               /\ m = "Append" => RowsApart(RowSet(out), RowSet(in))
<1> DEFINE in == At(files, places)
           out == At(files, rest)
<1>1. files \in Seq(File) /\ rest \in SUBSET (DOMAIN files)
  BY DEF FilesOk
<1>2. in \in Seq(File) /\ out \in Seq(File)
  BY <1>1, AtIsPick
<1>3. PICK f : /\ IsPick(in, files, f)
               /\ \A p \in DOMAIN files : p \in places <=> \E i \in DOMAIN in : f[i] = p
  BY <1>1, AtIsPick
<1>4. PICK g : /\ IsPick(out, files, g)
               /\ \A p \in DOMAIN files : p \in rest <=> \E i \in DOMAIN out : g[i] = p
  BY <1>1, AtIsPick
<1> HIDE DEF in, out
<1>5. FilesOk(m, in) /\ RowSet(in) \subseteq RowSet(files)
  BY <1>2, <1>3, PickedFiles
<1>6. FilesOk(m, out) /\ RowSet(out) \subseteq RowSet(files)
  BY <1>2, <1>4, PickedFiles
<1>7. ASSUME NEW p \in places, NEW r \in Range(files[p].rows)  PROVE r \in RowSet(in)
  <2>1. PICK i \in DOMAIN in : f[i] = p
    BY <1>3
  <2>2. in[i] = files[p]
    BY <1>3, <2>1 DEF IsPick
  <2> QED  BY <1>2, <2>2, RowsOfFiles
<1>8. ASSUME NEW p \in rest, NEW r \in Range(files[p].rows)  PROVE r \in RowSet(out)
  <2>1. PICK i \in DOMAIN out : g[i] = p
    BY <1>1, <1>4
  <2>2. out[i] = files[p]
    BY <1>4, <2>1 DEF IsPick
  <2> QED  BY <1>2, <2>2, RowsOfFiles
<1>9. ASSUME m = "Append"  PROVE RowsApart(RowSet(out), RowSet(in))
  <2>1. ApartFiles(files)
    BY <1>9 DEF FilesOk
  <2>2. \A i \in DOMAIN out, j \in DOMAIN in : g[i] # f[j]
    <3>1. \A i \in DOMAIN out : g[i] \in DOMAIN files /\ g[i] \in rest
      BY <1>4 DEF IsPick
    <3>2. \A j \in DOMAIN in : f[j] \in DOMAIN files /\ f[j] \in places
      BY <1>3 DEF IsPick
    <3> QED  BY <3>1, <3>2
  <2> QED  BY <1>1, <1>2, <1>3, <1>4, <2>1, <2>2, PickedApartFiles
<1> QED  BY <1>5, <1>6, <1>7, <1>8, <1>9 DEF in, out

\* Segments are numbers.
LEMMA SegmentIsInt ==
    ASSUME NEW file \in File
    PROVE  SegmentOf(file) \in Int
<1>1. file.start \in Int /\ SegmentDuration \in Nat \ {0}
  BY ScanAssumption DEF File
<1> QED  BY <1>1 DEF SegmentOf

\* The groups of files that the plans of a scan read part them: they have all the
\* files, and no file is in two of them.
LEMMA GroupsPartFiles ==
    ASSUME NEW m, NEW files, FilesOk(m, files)
    PROVE  LET groups == GroupBySegment(files)
           IN  /\ groups \in Seq(Seq(File))
               /\ \A k \in DOMAIN groups : FilesOk(m, groups[k]) /\ RowSet(groups[k]) \subseteq RowSet(files)
               /\ \A r \in RowSet(files) : \E k \in DOMAIN groups : r \in RowSet(groups[k])
               /\ m = "Append" =>
                     \A k, l \in DOMAIN groups : k # l => RowsApart(RowSet(groups[k]), RowSet(groups[l]))
<1> DEFINE key == [i \in DOMAIN files |-> SegmentOf(files[i])]
           runs == Runs(files, key)
           segment == [k \in DOMAIN runs |-> SegmentOf(runs[k][1])]
           before == [k \in DOMAIN runs |-> {h \in DOMAIN runs : \/ segment[h] < segment[k]
                                                                 \/ segment[h] = segment[k] /\ h < k}]
           order == InOrder(before)
           groups == GroupBySegment(files)
<1>1. files \in Seq(File)
  BY DEF FilesOk
<1>2. groups = [k \in DOMAIN order |-> runs[order[k]]]
  BY DEF GroupBySegment
<1> HIDE DEF groups, key
<1>3. PICK n \in Nat : \E a, b \in [1..n -> 1..Len(files)] : IsCut(files, key, n, a, b)
  BY <1>1, RunsCut
<1>4. PICK a \in [1..n -> 1..Len(files)], b \in [1..n -> 1..Len(files)] : IsCut(files, key, n, a, b)
  BY <1>3
<1>5. runs = [k \in 1..n |-> SubSeq(files, a[k], b[k])]
  BY <1>4 DEF IsCut
<1>6. \A k \in 1..n : a[k] \in 1..Len(files) /\ b[k] \in 1..Len(files) /\ a[k] <= b[k]
  BY <1>4 DEF IsCut
<1> HIDE DEF runs
<1>7. ASSUME NEW k \in 1..n
      PROVE  runs[k] \in Seq(File) /\ IsPiece(runs[k], files, a[k], b[k])
  <2>1. runs[k] = SubSeq(files, a[k], b[k])
    BY <1>5
  <2>2. SubSeq(files, a[k], b[k]) \in Seq(File) /\ IsPiece(SubSeq(files, a[k], b[k]), files, a[k], b[k])
    BY <1>1, <1>6, PieceIsPick
  <2> QED  BY <2>1, <2>2
<1>8. DOMAIN runs = 1..n
  BY <1>5
<1>9. IsOrder(before)
  <2>1. \A k \in 1..n : segment[k] \in Int
    <3> SUFFICES ASSUME NEW k \in 1..n  PROVE SegmentOf(runs[k][1]) \in Int
      BY <1>8
    <3>1. runs[k][1] = files[a[k]]
      BY <1>7 DEF IsPiece
    <3>2. files[a[k]] \in File
      BY <1>1, <1>6, LenProperties
    <3> QED  BY <3>1, <3>2, SegmentIsInt
  <2> HIDE DEF segment
  <2>2. DOMAIN before = 1..n /\ \A k \in 1..n : before[k] \subseteq 1..n
    BY <1>8
  <2>3. ASSUME NEW h \in 1..n, NEW k \in 1..n
        PROVE  h \in before[k] <=> (segment[h] < segment[k] \/ (segment[h] = segment[k] /\ h < k))
    <3>1. before[k] = {x \in DOMAIN runs : segment[x] < segment[k] \/ (segment[x] = segment[k] /\ x < k)}
      BY <1>8
    <3> HIDE DEF before
    <3> QED  BY <1>8, <3>1
  <2>4. IsFiniteSet(1..n)
    BY FS_Interval
  <2> HIDE DEF before
  <2>5. \A k \in 1..n : k \notin before[k]
    BY <2>1, <2>3
  <2>6. ASSUME NEW h \in 1..n, NEW k \in 1..n, h # k  PROVE h \in before[k] \/ k \in before[h]
    <3>1. segment[h] \in Int /\ segment[k] \in Int
      BY <2>1
    <3>2. \/ segment[h] < segment[k] \/ (segment[h] = segment[k] /\ h < k)
          \/ segment[k] < segment[h] \/ (segment[k] = segment[h] /\ k < h)
      BY <2>6, <3>1
    <3> QED  BY <2>3, <3>2
  <2>7. ASSUME NEW h \in 1..n, NEW k \in 1..n, NEW l \in 1..n, h \in before[k], k \in before[l]
        PROVE  h \in before[l]
    <3>1. segment[h] \in Int /\ segment[k] \in Int /\ segment[l] \in Int
      BY <2>1
    <3>2. /\ segment[h] < segment[k] \/ (segment[h] = segment[k] /\ h < k)
          /\ segment[k] < segment[l] \/ (segment[k] = segment[l] /\ k < l)
      BY <2>3, <2>7
    <3>3. segment[h] < segment[l] \/ (segment[h] = segment[l] /\ h < l)
      <4> DEFINE p == segment[h]
                 q == segment[k]
                 r == segment[l]
      <4>1. h \in Int /\ k \in Int /\ l \in Int /\ p \in Int /\ q \in Int /\ r \in Int
        BY <3>1
      <4>2. (p < q \/ (p = q /\ h < k)) /\ (q < r \/ (q = r /\ k < l))
        BY <3>2
      <4> HIDE DEF p, q, r
      <4>3. p < r \/ (p = r /\ h < l)
        BY <4>1, <4>2
      <4> QED  BY <4>3 DEF p, r
    <3> QED  BY <2>3, <3>3
  <2> QED  BY <2>2, <2>4, <2>5, <2>6, <2>7 DEF IsOrder
<1>10. DOMAIN before = 1..n
  BY <1>8
<1> HIDE DEF before
<1> DEFINE c == Cardinality(1..n)
<1>11. /\ c \in Nat /\ order \in [1..c -> 1..n]
       /\ \A x \in 1..n : \E i \in 1..c : order[i] = x
       /\ \A i, j \in 1..c : i < j => order[i] \in before[order[j]]
  BY <1>9, <1>10, Ordered
<1> HIDE DEF order, c
<1>12. groups \in [1..c -> Seq(File)] /\ \A k \in 1..c : groups[k] = runs[order[k]] /\ order[k] \in 1..n
  BY <1>2, <1>7, <1>11
<1>13. groups \in Seq(Seq(File)) /\ DOMAIN groups = 1..c
  BY <1>11, <1>12, FunctionIsSeq
<1>14. ASSUME NEW k \in 1..n  PROVE FilesOk(m, runs[k]) /\ RowSet(runs[k]) \subseteq RowSet(files)
  <2>1. PICK f : IsPick(runs[k], files, f)
    BY <1>7 DEF IsPiece
  <2> QED  BY <1>7, <2>1, PickedFiles
<1>15. ASSUME NEW r \in RowSet(files)  PROVE \E k \in 1..c : r \in RowSet(groups[k])
  <2>1. PICK p \in DOMAIN files : r \in Range(files[p].rows)
    BY <1>1, RowsOfFiles
  <2>2. p \in 1..Len(files) /\ Len(files) \in Nat
    BY <1>1, LenProperties
  <2>3. PICK k \in 1..n : a[k] <= p /\ p <= b[k]
    BY <1>4, <2>2 DEF IsCut
  <2>4. p \in a[k]..b[k]
    BY <1>6, <2>2, <2>3
  <2>5. PICK f : /\ IsPick(runs[k], files, f)
                 /\ \A q \in DOMAIN files : q \in a[k]..b[k] <=> \E i \in DOMAIN runs[k] : f[i] = q
    BY <1>7 DEF IsPiece
  <2>6. PICK i \in DOMAIN runs[k] : f[i] = p
    BY <2>4, <2>5
  <2>7. runs[k][i] = files[p]
    BY <2>5, <2>6 DEF IsPick
  <2>8. r \in RowSet(runs[k])
    BY <1>7, <2>1, <2>7, RowsOfFiles
  <2>9. PICK l \in 1..c : order[l] = k
    BY <1>11
  <2> QED  BY <1>12, <2>8, <2>9
<1>16. ASSUME m = "Append", NEW k \in 1..n, NEW l \in 1..n, k # l
       PROVE  RowsApart(RowSet(runs[k]), RowSet(runs[l]))
  <2>1. PICK f : /\ IsPick(runs[k], files, f)
                 /\ \A q \in DOMAIN files : q \in a[k]..b[k] <=> \E i \in DOMAIN runs[k] : f[i] = q
    BY <1>7 DEF IsPiece
  <2>2. PICK g : /\ IsPick(runs[l], files, g)
                 /\ \A q \in DOMAIN files : q \in a[l]..b[l] <=> \E i \in DOMAIN runs[l] : g[i] = q
    BY <1>7 DEF IsPiece
  <2>3. ApartFiles(files)
    BY <1>16 DEF FilesOk
  <2>4. ASSUME NEW i \in DOMAIN runs[k], NEW j \in DOMAIN runs[l], f[i] = g[j]  PROVE FALSE
    <3>1. f[i] \in DOMAIN files
      BY <2>1 DEF IsPick
    <3>2. f[i] \in a[k]..b[k] /\ f[i] \in a[l]..b[l]
      BY <2>1, <2>2, <2>4, <3>1
    <3>3. b[k] < a[l] \/ b[l] < a[k]
      <4>1. k < l \/ l < k
        BY <1>16
      <4> QED  BY <1>4, <4>1 DEF IsCut
    <3>4. a[k] \in Int /\ b[k] \in Int /\ a[l] \in Int /\ b[l] \in Int /\ f[i] \in Int
      BY <1>6, <3>2
    <3> QED  BY <3>2, <3>3, <3>4
  <2>5. IsPick(runs[k], files, f) /\ IsPick(runs[l], files, g)
    BY <2>1, <2>2
  <2>6. runs[k] \in Seq(File) /\ runs[l] \in Seq(File)
    BY <1>7
  <2>7. \A i \in DOMAIN runs[k], j \in DOMAIN runs[l] : f[i] # g[j]
    BY <2>4
  <2> QED  BY <1>1, <2>3, <2>5, <2>6, <2>7, PickedApartFiles
<1>17. ASSUME NEW k \in 1..c, NEW l \in 1..c, k # l  PROVE order[k] # order[l]
  <2>1. k < l \/ l < k
    BY <1>11, <1>17
  <2>2. order[k] \in before[order[l]] \/ order[l] \in before[order[k]]
    BY <1>11, <2>1
  <2> QED  BY <1>9, <1>10, <1>12, <2>2 DEF IsOrder
<1>18. \A k \in 1..c : FilesOk(m, groups[k]) /\ RowSet(groups[k]) \subseteq RowSet(files)
  BY <1>12, <1>14
<1>19. m = "Append" => \A k, l \in 1..c : k # l => RowsApart(RowSet(groups[k]), RowSet(groups[l]))
  BY <1>12, <1>16, <1>17
<1>20. LET g == groups
       IN  /\ g \in Seq(Seq(File))
           /\ \A k \in DOMAIN g : FilesOk(m, g[k]) /\ RowSet(g[k]) \subseteq RowSet(files)
           /\ \A r \in RowSet(files) : \E k \in DOMAIN g : r \in RowSet(g[k])
           /\ m = "Append" => \A k, l \in DOMAIN g : k # l => RowsApart(RowSet(g[k]), RowSet(g[l]))
  BY <1>13, <1>15, <1>18, <1>19
<1> QED  BY <1>20 DEF groups

\* A file added to a table.
LEMMA AddedFile ==
    ASSUME NEW m, NEW files, FilesOk(m, files), NEW file \in File,
           \A r \in Range(file.rows) : file.start <= r.pk /\ r.pk < file.end /\ r.val # <<>>,
           m = "Overwrite" => \A r \in Range(file.rows) : r.val = <<r.seq>>,
           m = "Append" => Apart(file.rows) /\ RowsApart(RowSet(files), Range(file.rows))
    PROVE  /\ FilesOk(m, Append(files, file))
           /\ RowSet(Append(files, file)) = RowSet(files) \cup Range(file.rows)
<1> DEFINE new == Append(files, file)
           n == Len(files)
<1>1. files \in Seq(File)
  BY DEF FilesOk
<1>2. n \in Nat /\ DOMAIN files = 1..n
  BY <1>1, LenProperties
<1>3. new \in Seq(File) /\ Len(new) = n + 1 /\ \A i \in 1..n : new[i] = files[i]
  BY <1>1, AppendProperties
<1>4. new[n + 1] = file
  BY <1>1, AppendProperties
<1>5. DOMAIN new = 1..(n + 1)
  BY <1>3, LenProperties
<1> HIDE DEF new, n
<1>6. n + 1 \in 1..(n + 1) /\ \A i \in 1..(n + 1) : i \in 1..n \/ i = n + 1
  BY <1>2
<1>7. \A i \in 1..n : i \in 1..(n + 1)
  BY <1>2
<1>8. RowSet(new) = RowSet(files) \cup Range(file.rows)
  <2>1. ASSUME NEW r \in RowSet(new)  PROVE r \in RowSet(files) \cup Range(file.rows)
    <3>1. PICK i \in 1..(n + 1) : r \in Range(new[i].rows)
      BY <1>3, <1>5, RowsOfFiles
    <3> QED  BY <1>1, <1>2, <1>3, <1>4, <1>6, <3>1, RowsOfFiles
  <2>2. ASSUME NEW r \in RowSet(files)  PROVE r \in RowSet(new)
    <3>1. PICK i \in 1..n : r \in Range(files[i].rows)
      BY <1>1, <1>2, RowsOfFiles
    <3> QED  BY <1>3, <1>5, <1>7, <3>1, RowsOfFiles
  <2>3. ASSUME NEW r \in Range(file.rows)  PROVE r \in RowSet(new)
    BY <1>3, <1>4, <1>5, <1>6, RowsOfFiles
  <2> QED  BY <2>1, <2>2, <2>3
<1>9. ASSUME NEW i \in DOMAIN new, NEW r \in Range(new[i].rows)
      PROVE  new[i].start <= r.pk /\ r.pk < new[i].end /\ r.val # <<>>
  <2>1. CASE i \in 1..n
    BY <1>2, <1>3, <2>1 DEF FilesOk
  <2>2. CASE i = n + 1
    BY <1>4, <2>2
  <2> QED  BY <1>5, <1>6, <2>1, <2>2
<1>10. m = "Overwrite" => \A r \in RowSet(new) : r.val = <<r.seq>>
  BY <1>8 DEF FilesOk
<1>11. ASSUME m = "Append"  PROVE ApartFiles(new)
  <2>1. ApartFiles(files)
    BY <1>11 DEF FilesOk
  <2>2. \A i \in 1..n : Range(files[i].rows) \subseteq RowSet(files)
    BY <1>1, <1>2, RowsOfFiles
  <2>3. \A i \in 1..n : RowsApart(Range(new[i].rows), Range(file.rows)) /\ RowsApart(Range(file.rows), Range(new[i].rows))
    BY <1>3, <1>11, <2>2 DEF RowsApart
  <2>4. \A i \in 1..(n + 1) : Apart(new[i].rows)
    BY <1>2, <1>3, <1>4, <1>6, <1>11, <2>1 DEF ApartFiles
  <2>5. ASSUME NEW i \in 1..(n + 1), NEW j \in 1..(n + 1), i # j
        PROVE  RowsApart(Range(new[i].rows), Range(new[j].rows))
    <3>1. CASE i \in 1..n /\ j \in 1..n
      BY <1>2, <1>3, <2>1, <2>5, <3>1 DEF ApartFiles
    <3>2. CASE i \in 1..n /\ j = n + 1
      BY <1>4, <2>3, <3>2
    <3>3. CASE i = n + 1 /\ j \in 1..n
      BY <1>4, <2>3, <3>3
    <3> QED  BY <1>6, <2>5, <3>1, <3>2, <3>3
  <2> QED  BY <1>5, <2>4, <2>5 DEF ApartFiles
<1>12. FilesOk(m, new)
  BY <1>3, <1>9, <1>10, <1>11 DEF FilesOk
<1> QED  BY <1>8, <1>12 DEF new

\* The rows of files, merged: of an Overwrite table rows of theirs, of each key one
\* with no smaller sequence; of an Append table their bytes.
LEMMA MergedFiles ==
    ASSUME NEW files, FilesOk(mode, files), mode \in Modes
    PROVE  LET rows == MergedByKey(AllRows(files))
           IN  /\ rows \in Seq(Row)
               /\ \A r \in Range(rows) : r.val # <<>> /\ \E q \in RowSet(files) : q.pk = r.pk
               /\ mode = "Overwrite" =>
                     /\ Range(rows) \subseteq RowSet(files)
                     /\ \A r \in RowSet(files) : \E q \in Range(rows) : q.pk = r.pk /\ r.seq <= q.seq
               /\ mode = "Append" =>
                     Apart(rows) /\ \A k : BytesAt(Range(rows), k) = BytesAt(RowSet(files), k)
<1> DEFINE all == AllRows(files)
           rows == MergedByKey(all)
<1>1. files \in Seq(File)
  BY DEF FilesOk
<1>2. all \in Seq(Row) /\ Sorted(all) /\ Range(all) = RowSet(files)
  BY <1>1, AllRowsSorted
<1>3. \A r \in RowSet(files) : r.val # <<>>
  BY <1>1, RowsOfFiles DEF FilesOk
<1>4. CASE mode = "Overwrite"
  <2> HIDE DEF all
  <2>1. /\ rows \in Seq(Row) /\ Range(rows) \subseteq Range(all)
        /\ \A r \in Range(all) : \E q \in Range(rows) : q.pk = r.pk /\ r.seq <= q.seq
    BY <1>2, <1>4, MergedRows
  <2>2. mode # "Append"
    BY <1>4
  <2> HIDE DEF rows
  <2>3. LET w == rows
        IN  /\ w \in Seq(Row)
            /\ \A r \in Range(w) : r.val # <<>> /\ \E q \in RowSet(files) : q.pk = r.pk
            /\ Range(w) \subseteq RowSet(files)
            /\ \A r \in RowSet(files) : \E q \in Range(w) : q.pk = r.pk /\ r.seq <= q.seq
    BY <1>2, <1>3, <2>1
  <2> QED  BY <2>2, <2>3 DEF rows, all
<1>5. CASE mode = "Append"
  <2>1. Apart(all)
    <3>1. ApartFiles(files)
      BY <1>5 DEF FilesOk
    <3> QED  BY <1>1, <3>1, AllRowsApart
  <2> HIDE DEF all
  <2>2. \A i \in DOMAIN all : all[i].val # <<>>
    BY <1>2, <1>3 DEF Range
  <2>3. /\ rows \in Seq(Row) /\ Apart(rows)
        /\ \A k : BytesAt(Range(rows), k) = BytesAt(Range(all), k)
        /\ \A r \in Range(rows) : r.val # <<>> /\ \E q \in Range(all) : q.pk = r.pk /\ q.val[1] = r.val[1]
    BY <1>2, <1>5, <2>1, <2>2, MergedBytes
  <2>4. mode # "Overwrite"
    BY <1>5
  <2> HIDE DEF rows
  <2>5. LET w == rows
        IN  /\ w \in Seq(Row)
            /\ \A r \in Range(w) : r.val # <<>> /\ \E q \in RowSet(files) : q.pk = r.pk
            /\ Apart(w) /\ \A k : BytesAt(Range(w), k) = BytesAt(RowSet(files), k)
    BY <1>2, <2>3
  <2> QED  BY <2>4, <2>5 DEF rows, all
<1> QED  BY <1>4, <1>5 DEF Modes

\* What a plan returns: of an Overwrite table rows that satisfy the predicate, of each
\* key one with no smaller sequence; of an Append table their bytes.
LEMMA Planned ==
    ASSUME NEW files, FilesOk(mode, files), mode \in Modes
    PROVE  LET rows == PlanRows(files)
           IN  /\ rows \in Seq(Row) /\ \A r \in Range(rows) : Satisfies(r)
               /\ mode = "Overwrite" =>
                     /\ Range(rows) \subseteq RowSet(files)
                     /\ \A r \in RowSet(files) :
                           Satisfies(r) => \E q \in Range(rows) : q.pk = r.pk /\ r.seq <= q.seq
               /\ mode = "Append" =>
                     /\ Apart(rows)
                     /\ \A k : BytesAt(Range(rows), k) = BytesAt({r \in RowSet(files) : Satisfies(r)}, k)
<1> DEFINE all == AllRows(files)
           asked == {r \in RowSet(files) : Satisfies(r)}
           left == Satisfying(all)
           rows == MergedByKey(left)
<1>1. files \in Seq(File)
  BY DEF FilesOk
<1>2. all \in Seq(Row) /\ Sorted(all) /\ Range(all) = RowSet(files)
  BY <1>1, AllRowsSorted
<1>3. \A r \in RowSet(files) : r.val # <<>>
  BY <1>1, RowsOfFiles DEF FilesOk
<1>4. PlanRows(files) = rows
  BY DEF PlanRows
<1>5. ASSUME mode = "Append"  PROVE Apart(all)
  <2>1. ApartFiles(files)
    BY <1>5 DEF FilesOk
  <2> QED  BY <1>1, <2>1, AllRowsApart
<1> HIDE DEF all
<1>6. left \in Seq(Row) /\ Sorted(left) /\ Range(left) = {r \in Range(all) : Satisfies(r)}
  BY <1>2, FilteredRows
<1>7. Range(left) = asked
  BY <1>2, <1>6
<1>8. \A r : r \in asked <=> r \in RowSet(files) /\ Satisfies(r)
  OBVIOUS
<1>9. mode = "Append" => Apart(left)
  BY <1>2, <1>5, FilteredApart
<1> HIDE DEF left, asked
<1>10. CASE mode = "Overwrite"
  <2>1. /\ rows \in Seq(Row) /\ Range(rows) \subseteq Range(left)
        /\ \A r \in Range(left) : \E q \in Range(rows) : q.pk = r.pk /\ r.seq <= q.seq
    BY <1>6, <1>10, MergedRows
  <2>2. mode # "Append"
    BY <1>10
  <2> HIDE DEF rows
  <2>3. /\ rows \in Seq(Row) /\ \A r \in Range(rows) : Satisfies(r)
        /\ Range(rows) \subseteq RowSet(files)
        /\ \A r \in RowSet(files) : Satisfies(r) => \E q \in Range(rows) : q.pk = r.pk /\ r.seq <= q.seq
    BY <1>7, <1>8, <2>1
  <2> QED  BY <1>4, <2>2, <2>3
<1>11. CASE mode = "Append"
  <2>1. \A i \in DOMAIN left : left[i].val # <<>>
    BY <1>3, <1>7, <1>8 DEF Range
  <2>2. /\ rows \in Seq(Row) /\ Apart(rows)
        /\ \A k : BytesAt(Range(rows), k) = BytesAt(Range(left), k)
        /\ \A r \in Range(rows) : r.val # <<>> /\ \E q \in Range(left) : q.pk = r.pk /\ q.val[1] = r.val[1]
    BY <1>6, <1>9, <1>11, <2>1, MergedBytes
  <2>3. mode # "Overwrite"
    BY <1>11
  <2> HIDE DEF rows
  <2>4. \A r \in Range(rows) : Satisfies(r)
    BY <1>7, <1>8, <2>2 DEF Satisfies
  <2>5. \A k : BytesAt(Range(rows), k) = BytesAt(asked, k)
    BY <1>7, <2>2
  <2> QED  BY <1>4, <2>2, <2>3, <2>4, <2>5 DEF asked
<1> QED  BY <1>10, <1>11 DEF Modes
=============================================================================
