---------------------------- MODULE PickerProofs ----------------------------
(***************************************************************************)
(* What the picker returns, for any number of files and any configuration. *)
(*                                                                         *)
(* The sizes of files are added with MapThenSumSet, which is recursive, so *)
(* the module begins with sums over finite sets: that the equation of the  *)
(* recursion has a solution, and that elements may be added in any order.  *)
(* Every induction is on a set of sets, from which SetInduction takes a    *)
(* smallest one that is missing.                                           *)
(***************************************************************************)
EXTENDS Picker, FiniteSetTheorems, WellFoundedInduction, TLAPS

\* Most steps are first-order: Zenon is tried first, then SMT, then Zenon for longer.
USE ZenonT(3), SMTT(30), ZenonT(30)

\* The recursion of MapThenSumSet, for weights that are given by a function.
Any(s) == CHOOSE x \in s : TRUE
SumStep(w, sums, s) == IF s = {} THEN 0 ELSE w[Any(s)] + sums[s \ {Any(s)}]
Sums(w, S) == CHOOSE sums : sums = [s \in SUBSET S |-> SumStep(w, sums, s)]
Sum(w, S) == Sums(w, S)[S]

\* A set that is not empty has the element that Any chooses.
LEMMA AnyIn == ASSUME NEW s, s # {} PROVE Any(s) \in s
BY DEF Any

\* A set of subsets that has every subset whose smaller subsets it has, has all.
LEMMA SetInduction ==
    ASSUME NEW U, IsFiniteSet(U), NEW good,
           \A s \in SUBSET U : (\A x \in s : s \ {x} \in good) => s \in good
    PROVE  \A s \in SUBSET U : s \in good
<1> DEFINE bad == {n \in Nat : \E s \in SUBSET U : s \notin good /\ Cardinality(s) = n}
<1>1. \A s \in SUBSET U : IsFiniteSet(s) /\ Cardinality(s) \in Nat
  BY FS_Subset, FS_CardinalityType
<1>2. bad = {}
  <2> SUFFICES ASSUME bad # {}  PROVE FALSE
    OBVIOUS
  <2>1. bad \subseteq Nat
    OBVIOUS
  <2>2. PICK n \in bad : \A k \in bad : ~(<<k, n>> \in OpToRel(<, Nat))
    <3> HIDE DEF bad
    <3> QED  BY <2>1, NatLessThanWellFounded, WFMin
  <2>3. PICK s \in SUBSET U : s \notin good /\ Cardinality(s) = n
    BY <2>2
  <2>4. PICK x \in s : s \ {x} \notin good
    BY <2>3
  <2>5. Cardinality(s \ {x}) = n - 1 /\ n \in Nat /\ n - 1 \in Nat
    <3>1. Cardinality(s \ {x}) = Cardinality(s) - 1
      BY <1>1, <2>4, FS_RemoveElement
    <3>2. s \ {x} \in SUBSET U
      OBVIOUS
    <3>3. Cardinality(s \ {x}) \in Nat
      BY <1>1, <3>2
    <3>4. n \in Nat
      BY <2>1, <2>2
    <3> HIDE DEF bad
    <3> QED  BY <2>3, <3>1, <3>3, <3>4
  <2>6. n - 1 \in bad
    <3>1. s \ {x} \in SUBSET U
      OBVIOUS
    <3> QED  BY <2>4, <2>5, <3>1
  <2>7. <<n - 1, n>> \in OpToRel(<, Nat)
    BY <2>5 DEF OpToRel
  <2> HIDE DEF bad
  <2> QED  BY <2>2, <2>6, <2>7
<1> SUFFICES ASSUME NEW s \in SUBSET U, s \notin good  PROVE FALSE
  OBVIOUS
<1>3. Cardinality(s) \in bad
  BY <1>1
<1> QED  BY <1>2, <1>3

\* A function satisfies the equation of the sum for the sets of up to n elements.
HasSums(w, S, n) ==
    \E g \in [SUBSET S -> Nat] :
        \A s \in SUBSET S : Cardinality(s) <= n => g[s] = SumStep(w, g, s)

\* Such a function exists, for every n.
LEMMA PartialSums ==
    ASSUME NEW S, IsFiniteSet(S), NEW w, \A x \in S : w[x] \in Nat, NEW n \in Nat
    PROVE  HasSums(w, S, n)
<1> DEFINE Upto(g, k) == \A s \in SUBSET S : Cardinality(s) <= k => g[s] = SumStep(w, g, s)
           bad == {k \in Nat : ~\E g \in [SUBSET S -> Nat] : Upto(g, k)}
<1>1. \A s \in SUBSET S : IsFiniteSet(s) /\ Cardinality(s) \in Nat
  BY FS_Subset, FS_CardinalityType
<1>2. \A s \in SUBSET S : s # {} =>
         /\ Any(s) \in S /\ s \ {Any(s)} \in SUBSET S
         /\ Cardinality(s \ {Any(s)}) = Cardinality(s) - 1
  <2> SUFFICES ASSUME NEW s \in SUBSET S, s # {}
               PROVE  /\ Any(s) \in S /\ s \ {Any(s)} \in SUBSET S
                      /\ Cardinality(s \ {Any(s)}) = Cardinality(s) - 1
    OBVIOUS
  <2>1. Any(s) \in s
    BY AnyIn
  <2> QED  BY <1>1, <2>1, FS_RemoveElement
<1>3. bad = {}
  <2> SUFFICES ASSUME bad # {}  PROVE FALSE
    OBVIOUS
  <2>1. bad \subseteq Nat
    OBVIOUS
  <2>2. PICK k \in bad : \A j \in bad : ~(<<j, k>> \in OpToRel(<, Nat))
    <3> HIDE DEF bad
    <3> QED  BY <2>1, NatLessThanWellFounded, WFMin
  <2>3. k \in Nat /\ ~\E g \in [SUBSET S -> Nat] : Upto(g, k)
    OBVIOUS
  <2>4. CASE k = 0
    <3> DEFINE g == [s \in SUBSET S |-> 0]
    <3>1. g \in [SUBSET S -> Nat]
      OBVIOUS
    <3>2. ASSUME NEW s \in SUBSET S, Cardinality(s) <= 0  PROVE g[s] = SumStep(w, g, s)
      <4>1. s = {}
        BY <1>1, <3>2, FS_EmptySet
      <4> QED  BY <4>1 DEF SumStep
    <3> HIDE DEF g
    <3> QED  BY <2>3, <2>4, <3>1, <3>2
  <2>5. CASE k # 0
    <3>1. k - 1 \in Nat /\ <<k - 1, k>> \in OpToRel(<, Nat)
      BY <2>3, <2>5 DEF OpToRel
    <3>2. k - 1 \notin bad
      <4> HIDE DEF bad
      <4> QED  BY <2>2, <3>1
    <3>3. PICK h \in [SUBSET S -> Nat] : Upto(h, k - 1)
      BY <3>1, <3>2
    <3> DEFINE g == [s \in SUBSET S |-> SumStep(w, h, s)]
    <3>4. \A s \in SUBSET S : SumStep(w, h, s) \in Nat
      <4> SUFFICES ASSUME NEW s \in SUBSET S, s # {}  PROVE w[Any(s)] + h[s \ {Any(s)}] \in Nat
        BY DEF SumStep
      <4>1. w[Any(s)] \in Nat /\ h[s \ {Any(s)}] \in Nat
        BY <1>2
      <4> QED  BY <4>1
    <3>5. g \in [SUBSET S -> Nat]
      BY <3>4
    <3>6. \A s \in SUBSET S : g[s] = SumStep(w, h, s)
      OBVIOUS
    <3> HIDE DEF g
    <3>7. ASSUME NEW s \in SUBSET S, Cardinality(s) <= k  PROVE g[s] = SumStep(w, g, s)
      <4>1. CASE s = {}
        BY <3>6, <4>1 DEF SumStep
      <4>2. CASE s # {}
        <5> DEFINE r == s \ {Any(s)}
        <5>1. r \in SUBSET S /\ Cardinality(r) <= k - 1
          BY <1>1, <1>2, <2>3, <3>7, <4>2
        <5>2. h[r] = SumStep(w, h, r)
          BY <3>3, <5>1
        <5>3. g[r] = SumStep(w, h, r)
          BY <3>6, <5>1
        <5> QED  BY <3>6, <4>2, <5>2, <5>3 DEF SumStep
      <4> QED  BY <4>1, <4>2
    <3> QED  BY <2>3, <3>5, <3>7
  <2> QED  BY <2>4, <2>5
<1> QED  BY <1>3 DEF HasSums

\* The sums of all subsets satisfy the equation.
LEMMA SumsOK ==
    ASSUME NEW S, IsFiniteSet(S), NEW w, \A x \in S : w[x] \in Nat
    PROVE  /\ Sums(w, S) \in [SUBSET S -> Nat]
           /\ \A s \in SUBSET S : Sums(w, S)[s] = SumStep(w, Sums(w, S), s)
<1>1. \A s \in SUBSET S : Cardinality(s) \in Nat /\ Cardinality(s) <= Cardinality(S)
  BY FS_Subset, FS_CardinalityType
<1>2. Cardinality(S) \in Nat
  BY FS_CardinalityType
<1>3. PICK g \in [SUBSET S -> Nat] :
         \A s \in SUBSET S : Cardinality(s) <= Cardinality(S) => g[s] = SumStep(w, g, s)
  <2>1. HasSums(w, S, Cardinality(S))
    BY <1>2, PartialSums
  <2> QED  BY <2>1 DEF HasSums
<1>4. g = [s \in SUBSET S |-> SumStep(w, g, s)]
  BY <1>1, <1>3
<1> DEFINE it == Sums(w, S)
<1>5. it = [s \in SUBSET S |-> SumStep(w, it, s)]
  BY <1>4 DEF Sums
<1> HIDE DEF it
<1> DEFINE good == {s \in SUBSET S : it[s] \in Nat}
<1>6. ASSUME NEW s \in SUBSET S, \A x \in s : s \ {x} \in good  PROVE s \in good
  <2>1. it[s] = SumStep(w, it, s)
    BY <1>5
  <2>2. CASE s = {}
    BY <2>1, <2>2 DEF SumStep
  <2>3. CASE s # {}
    <3>1. Any(s) \in s /\ w[Any(s)] \in Nat /\ it[s \ {Any(s)}] \in Nat
      BY <1>6, <2>3, AnyIn
    <3> QED  BY <2>1, <2>3, <3>1 DEF SumStep
  <2> QED  BY <2>2, <2>3
<1>7. \A s \in SUBSET S : s \in good
  <2> HIDE DEF good
  <2> QED  BY <1>6, SetInduction
<1>8. \A s \in SUBSET S : it[s] = SumStep(w, it, s) /\ it[s] \in Nat
  BY <1>5, <1>7
<1>9. it \in [SUBSET S -> Nat]
  BY <1>5, <1>8
<1> QED  BY <1>8, <1>9 DEF it

\* What the sum of a set is does not depend on the set it is taken from, nor on
\* the weights of anything else.
LEMMA SumsSame ==
    ASSUME NEW S, IsFiniteSet(S), NEW w, \A x \in S : w[x] \in Nat,
           NEW T \in SUBSET S, NEW v, \A x \in T : v[x] = w[x]
    PROVE  \A s \in SUBSET T : Sums(w, S)[s] = Sums(v, T)[s]
<1> DEFINE g == Sums(w, S)
           h == Sums(v, T)
           good == {s \in SUBSET T : g[s] = h[s]}
<1>1. IsFiniteSet(T)
  BY FS_Subset
<1>2. \A s \in SUBSET S : g[s] = SumStep(w, g, s)
  BY SumsOK
<1>3. \A s \in SUBSET T : h[s] = SumStep(v, h, s)
  <2>1. \A x \in T : v[x] \in Nat
    OBVIOUS
  <2> QED  BY <1>1, <2>1, SumsOK
<1> HIDE DEF g, h
<1>4. ASSUME NEW s \in SUBSET T, \A x \in s : s \ {x} \in good  PROVE s \in good
  <2>1. g[s] = SumStep(w, g, s) /\ h[s] = SumStep(v, h, s)
    BY <1>2, <1>3
  <2>2. CASE s = {}
    BY <2>1, <2>2 DEF SumStep
  <2>3. CASE s # {}
    <3>1. Any(s) \in s /\ v[Any(s)] = w[Any(s)] /\ g[s \ {Any(s)}] = h[s \ {Any(s)}]
      BY <1>4, <2>3, AnyIn
    <3> QED  BY <2>1, <2>3, <3>1 DEF SumStep
  <2> QED  BY <2>2, <2>3
<1>5. \A s \in SUBSET T : s \in good
  <2> HIDE DEF good
  <2> QED  BY <1>1, <1>4, SetInduction
<1> QED  BY <1>5 DEF g, h

\* A sum is a natural number.
LEMMA SumNat ==
    ASSUME NEW S, IsFiniteSet(S), NEW w, \A x \in S : w[x] \in Nat
    PROVE  Sum(w, S) \in Nat
BY SumsOK DEF Sum

\* ... and does not change with other weights.
LEMMA SumCong ==
    ASSUME NEW S, IsFiniteSet(S), NEW w, \A x \in S : w[x] \in Nat,
           NEW v, \A x \in S : v[x] = w[x]
    PROVE  Sum(w, S) = Sum(v, S)
BY SumsSame DEF Sum

\* Nothing adds up to zero.
LEMMA SumEmpty ==
    ASSUME NEW w
    PROVE  Sum(w, {}) = 0
<1>1. IsFiniteSet({})
  BY FS_EmptySet
<1>2. {} \in SUBSET {}
  OBVIOUS
<1>3. Sums(w, {})[{}] = SumStep(w, Sums(w, {}), {})
  BY <1>1, <1>2, SumsOK
<1> QED  BY <1>3 DEF Sum, SumStep

\* The equation of the recursion.
LEMMA SumAny ==
    ASSUME NEW S, IsFiniteSet(S), NEW w, \A x \in S : w[x] \in Nat, S # {}
    PROVE  Sum(w, S) = w[Any(S)] + Sum(w, S \ {Any(S)})
<1> DEFINE T == S \ {Any(S)}
<1>1. Sums(w, S)[S] = SumStep(w, Sums(w, S), S)
  BY SumsOK
<1>2. T \in SUBSET S /\ T \in SUBSET T
  OBVIOUS
<1>3. Sums(w, S)[T] = Sums(w, T)[T]
  <2> HIDE DEF T
  <2> QED  BY <1>2, SumsSame
<1> QED  BY <1>1, <1>3 DEF Sum, SumStep

\* Any element may be added last.
LEMMA SumRemove ==
    ASSUME NEW S, IsFiniteSet(S), NEW w, \A x \in S : w[x] \in Nat, NEW x \in S
    PROVE  Sum(w, S) = w[x] + Sum(w, S \ {x})
<1> DEFINE good == {s \in SUBSET S : \A y \in s : Sum(w, s) = w[y] + Sum(w, s \ {y})}
<1>1. \A s \in SUBSET S : IsFiniteSet(s)
  BY FS_Subset
<1>2. ASSUME NEW s \in SUBSET S, \A y \in s : s \ {y} \in good  PROVE s \in good
  <2> SUFFICES ASSUME NEW y \in s  PROVE Sum(w, s) = w[y] + Sum(w, s \ {y})
    OBVIOUS
  <2> DEFINE a == Any(s)
             r == s \ {y}
             q == (s \ {a}) \ {y}
  <2>1. a \in s
    BY AnyIn
  <2>2. Sum(w, s) = w[a] + Sum(w, s \ {a})
    BY <1>1, SumAny
  <2>3. CASE a = y
    BY <2>2, <2>3
  <2>4. CASE a # y
    <3>1. Sum(w, s \ {a}) = w[y] + Sum(w, q)
      <4>1. s \ {a} \in good /\ y \in s \ {a}
        BY <1>2, <2>1, <2>4
      <4> QED  BY <4>1
    <3>2. Sum(w, r) = w[a] + Sum(w, q)
      <4>1. r \in good /\ a \in r /\ r \ {a} = q
        BY <1>2, <2>1, <2>4
      <4> HIDE DEF q, r, a
      <4>2. Sum(w, r) = w[a] + Sum(w, r \ {a})
        BY <4>1 DEF good
      <4> QED  BY <4>1, <4>2
    <3>3. w[a] \in Nat /\ w[y] \in Nat /\ Sum(w, q) \in Nat
      <4>1. q \in SUBSET S
        OBVIOUS
      <4>2. IsFiniteSet(q) /\ \A z \in q : w[z] \in Nat
        BY <1>1, <4>1
      <4>3. Sum(w, q) \in Nat
        <5> HIDE DEF q
        <5> QED  BY <4>2, SumNat
      <4> QED  BY <2>1, <4>3
    <3> HIDE DEF a, r, q
    <3>4. Sum(w, s) = w[a] + (w[y] + Sum(w, q))
      BY <2>2, <3>1
    <3>5. Sum(w, s) = w[y] + Sum(w, r)
      BY <3>2, <3>3, <3>4
    <3> QED  BY <3>5 DEF r
  <2> QED  BY <2>3, <2>4
<1>3. \A s \in SUBSET S : s \in good
  <2> HIDE DEF good
  <2> QED  BY <1>2, SetInduction
<1>4. S \in SUBSET S
  OBVIOUS
<1>5. S \in good
  BY <1>3, <1>4
<1> QED  BY <1>5

\* The sum of two sets without common elements.
LEMMA SumUnion ==
    ASSUME NEW S, IsFiniteSet(S), NEW w, \A x \in S : w[x] \in Nat,
           NEW A \in SUBSET S, NEW B \in SUBSET S, A \cap B = {}
    PROVE  Sum(w, A \cup B) = Sum(w, A) + Sum(w, B)
<1> DEFINE good == {s \in SUBSET A : Sum(w, s \cup B) = Sum(w, s) + Sum(w, B)}
<1>1. \A s \in SUBSET S : IsFiniteSet(s) /\ (\A x \in s : w[x] \in Nat) /\ Sum(w, s) \in Nat
  <2>1. \A s \in SUBSET S : IsFiniteSet(s) /\ (\A x \in s : w[x] \in Nat)
    BY FS_Subset
  <2> QED  BY <2>1, SumNat
<1>2. Sum(w, B) \in Nat /\ IsFiniteSet(A)
  BY <1>1
<1>3. ASSUME NEW s \in SUBSET A, \A x \in s : s \ {x} \in good  PROVE s \in good
  <2>1. CASE s = {}
    <3> DEFINE t == s \cup B
    <3>1. t = B
      BY <2>1
    <3>2. Sum(w, s) = 0
      BY <2>1, SumEmpty
    <3> HIDE DEF t
    <3>3. Sum(w, t) = Sum(w, s) + Sum(w, B)
      BY <1>2, <3>1, <3>2
    <3> QED  BY <3>3 DEF t
  <2>2. CASE s # {}
    <3>1. PICK x \in s : TRUE
      BY <2>2
    <3> DEFINE r == s \ {x}
               t == s \cup B
    <3>2. r \in SUBSET S /\ t \in SUBSET S /\ s \in SUBSET S /\ t \ {x} = r \cup B /\ x \in t
      OBVIOUS
    <3>3. Sum(w, r \cup B) = Sum(w, r) + Sum(w, B)
      BY <1>3
    <3> HIDE DEF r, t
    <3>4. Sum(w, t) = w[x] + Sum(w, t \ {x})
      BY <1>1, <3>2, SumRemove
    <3>5. Sum(w, s) = w[x] + Sum(w, r)
      BY <1>1, <3>2, SumRemove DEF r
    <3>6. Sum(w, r) \in Nat /\ Sum(w, B) \in Nat /\ w[x] \in Nat
      BY <1>1, <1>2, <3>2
    <3>7. Sum(w, t) = w[x] + (Sum(w, r) + Sum(w, B))
      BY <3>2, <3>3, <3>4
    <3>8. Sum(w, t) = Sum(w, s) + Sum(w, B)
      BY <3>5, <3>6, <3>7
    <3> QED  BY <3>8 DEF t
  <2> QED  BY <2>1, <2>2
<1>4. \A s \in SUBSET A : s \in good
  <2> HIDE DEF good
  <2> QED  BY <1>2, <1>3, SetInduction
<1>5. A \in SUBSET A
  OBVIOUS
<1>6. A \in good
  BY <1>4, <1>5
<1> QED  BY <1>6

\* One more number.
LEMMA SumMore ==
    ASSUME NEW S, IsFiniteSet(S), NEW x, x \notin S, NEW w, NEW v,
           \A y \in S \cup {x} : w[y] \in Nat /\ v[y] = w[y]
    PROVE  Sum(v, S \cup {x}) = Sum(w, S) + w[x]
<1> DEFINE T == S \cup {x}
           R == T \ {x}
<1>1. R = S /\ x \in T /\ IsFiniteSet(T) /\ \A y \in T : v[y] \in Nat
  BY FS_AddElement
<1>2. Sum(v, T) = v[x] + Sum(v, R)
  <2> HIDE DEF T
  <2> QED  BY <1>1, SumRemove
<1>3. Sum(w, S) = Sum(v, S) /\ Sum(w, S) \in Nat
  BY SumCong, SumNat
<1>4. Sum(v, R) = Sum(v, S)
  <2> HIDE DEF R
  <2> QED  BY <1>1
<1> QED  BY <1>2, <1>3, <1>4

\* One number less.
LEMMA SumLess ==
    ASSUME NEW S, IsFiniteSet(S), NEW x \in S, NEW w, NEW v, \A y \in S : w[y] \in Nat,
           \A y \in S \ {x} : v[y] = w[y]
    PROVE  Sum(v, S \ {x}) = Sum(w, S) - w[x]
<1> DEFINE R == S \ {x}
<1>1. IsFiniteSet(R) /\ \A y \in R : w[y] \in Nat /\ v[y] = w[y]
  BY FS_Subset
<1>2. Sum(w, S) = w[x] + Sum(w, R)
  BY SumRemove
<1>3. Sum(w, R) = Sum(v, R) /\ Sum(w, R) \in Nat
  <2> HIDE DEF R
  <2> QED  BY <1>1, SumCong, SumNat
<1> QED  BY <1>2, <1>3

\* A set with more elements, all of them at least as heavy, is heavier by at
\* least one of its elements.
LEMMA MoreAndHeavier ==
    ASSUME NEW S, IsFiniteSet(S), NEW w, \A x \in S : w[x] \in Nat,
           NEW A \in SUBSET S, NEW B \in SUBSET S, Cardinality(A) > Cardinality(B),
           \A a \in A, b \in B : w[b] <= w[a]
    PROVE  \E a \in A : Sum(w, B) + w[a] <= Sum(w, A)
<1> DEFINE Heavier(s, t) == \E a \in s : Sum(w, t) + w[a] <= Sum(w, s)
           good == {t \in SUBSET B :
                      \A s \in SUBSET A : Cardinality(s) > Cardinality(t) => Heavier(s, t)}
<1>1. \A s \in SUBSET S : /\ IsFiniteSet(s) /\ Cardinality(s) \in Nat
                          /\ \A x \in s : w[x] \in Nat
                          /\ Sum(w, s) \in Nat
  <2>1. \A s \in SUBSET S : IsFiniteSet(s) /\ Cardinality(s) \in Nat /\ (\A x \in s : w[x] \in Nat)
    BY FS_Subset, FS_CardinalityType
  <2> QED  BY <2>1, SumNat
<1>2. ASSUME NEW t \in SUBSET B, \A b \in t : t \ {b} \in good  PROVE t \in good
  <2> SUFFICES ASSUME NEW s \in SUBSET A, Cardinality(s) > Cardinality(t)  PROVE Heavier(s, t)
    OBVIOUS
  <2>1. s \in SUBSET S /\ t \in SUBSET S
    OBVIOUS
  <2>2. s # {}
    BY <1>1, <2>1, FS_EmptySet
  <2>3. PICK a \in s : TRUE
    BY <2>2
  <2> DEFINE p == s \ {a}
  <2>4. /\ p \in SUBSET S /\ p \in SUBSET A /\ Sum(w, p) \in Nat /\ w[a] \in Nat
        /\ Sum(w, s) = w[a] + Sum(w, p)
    <3>1. p \in SUBSET S /\ p \in SUBSET A
      OBVIOUS
    <3>2. Sum(w, s) = w[a] + Sum(w, p)
      BY <1>1, <2>1, SumRemove
    <3> HIDE DEF p
    <3> QED  BY <1>1, <2>1, <3>1, <3>2
  <2>5. CASE t = {}
    <3>1. Sum(w, t) = 0
      BY <2>5, SumEmpty
    <3> HIDE DEF p
    <3>2. Sum(w, t) + w[a] <= Sum(w, s)
      BY <2>4, <3>1
    <3> QED  BY <3>2
  <2>6. CASE t # {}
    <3>1. PICK b \in t : TRUE
      BY <2>6
    <3> DEFINE q == t \ {b}
    <3>2. /\ q \in SUBSET S /\ Sum(w, q) \in Nat /\ w[b] \in Nat
          /\ Sum(w, t) = w[b] + Sum(w, q) /\ w[b] <= w[a]
      <4>1. q \in SUBSET S
        OBVIOUS
      <4>2. Sum(w, t) = w[b] + Sum(w, q)
        BY <1>1, <2>1, SumRemove
      <4> HIDE DEF q
      <4> QED  BY <1>1, <2>1, <4>1, <4>2
    <3>3. Cardinality(p) > Cardinality(q)
      <4>1. Cardinality(p) = Cardinality(s) - 1 /\ Cardinality(q) = Cardinality(t) - 1
        BY <1>1, <2>1, FS_RemoveElement
      <4>2. Cardinality(s) \in Nat /\ Cardinality(t) \in Nat
        BY <1>1, <2>1
      <4> HIDE DEF p, q
      <4> QED  BY <4>1, <4>2
    <3>4. Heavier(p, q)
      BY <1>2, <2>4, <3>3
    <3>5. PICK c \in p : Sum(w, q) + w[c] <= Sum(w, p)
      BY <3>4
    <3>6. c \in s /\ w[c] \in Nat
      OBVIOUS
    <3> HIDE DEF p, q
    <3>7. Sum(w, t) + w[c] <= Sum(w, s)
      BY <2>4, <3>2, <3>5, <3>6
    <3> QED  BY <3>6, <3>7
  <2> QED  BY <2>5, <2>6
<1>3. IsFiniteSet(B)
  BY <1>1
<1>4. \A t \in SUBSET B : t \in good
  <2> HIDE DEF good
  <2> QED  BY <1>2, <1>3, SetInduction
<1>5. A \in SUBSET A /\ B \in SUBSET B
  OBVIOUS
<1>6. Heavier(A, B)
  BY <1>4, <1>5
<1> QED  BY <1>6
-----------------------------------------------------------------------------
\* Of numbers that belong to the elements of a finite set, one is the largest.
LEMMA Largest ==
    ASSUME NEW S, IsFiniteSet(S), S # {}, NEW g, \A x \in S : g[x] \in Int
    PROVE  \E x \in S : \A y \in S : g[y] <= g[x]
<1> DEFINE Top(s) == \E x \in s : \A y \in s : g[y] <= g[x]
           good == {s \in SUBSET S : s = {} \/ Top(s)}
<1>1. ASSUME NEW s \in SUBSET S, \A x \in s : s \ {x} \in good  PROVE s \in good
  <2> SUFFICES ASSUME s # {}  PROVE Top(s)
    OBVIOUS
  <2>1. PICK x \in s : TRUE
    OBVIOUS
  <2>2. s \ {x} = {} \/ Top(s \ {x})
    BY <1>1
  <2>3. CASE s \ {x} = {}
    <3>1. \A y \in s : y = x
      BY <2>3
    <3> QED  BY <3>1
  <2>4. CASE Top(s \ {x})
    <3>1. PICK z \in s \ {x} : \A y \in s \ {x} : g[y] <= g[z]
      BY <2>4
    <3>2. g[x] \in Int /\ g[z] \in Int
      OBVIOUS
    <3>3. CASE g[x] <= g[z]
      <4>1. \A y \in s : g[y] <= g[z]
        BY <3>1, <3>3
      <4> QED  BY <4>1
    <3>4. CASE g[z] <= g[x]
      <4>1. \A y \in s : g[y] <= g[x]
        BY <3>1, <3>2, <3>4
      <4> QED  BY <4>1
    <3> QED  BY <3>2, <3>3, <3>4
  <2> QED  BY <2>2, <2>3, <2>4
<1>2. \A s \in SUBSET S : s \in good
  <2> HIDE DEF good
  <2> QED  BY <1>1, SetInduction
<1>3. S \in SUBSET S
  OBVIOUS
<1>4. S \in good
  BY <1>2, <1>3
<1> QED  BY <1>4

\* ... and one is the smallest.
LEMMA Smallest ==
    ASSUME NEW S, IsFiniteSet(S), S # {}, NEW g, \A x \in S : g[x] \in Int
    PROVE  \E x \in S : \A y \in S : g[x] <= g[y]
<1> DEFINE neg == [x \in S |-> -g[x]]
<1>1. \A x \in S : neg[x] = -g[x] /\ neg[x] \in Int
  OBVIOUS
<1> HIDE DEF neg
<1>2. PICK x \in S : \A y \in S : neg[y] <= neg[x]
  BY <1>1, Largest
<1> QED  BY <1>1, <1>2

\* Max and Min of the numbers are among them and bound them.
LEMMA MaxAndMin ==
    ASSUME NEW S, IsFiniteSet(S), S # {}, NEW g, \A x \in S : g[x] \in Int,
           NEW values, \A x \in S : g[x] \in values, \A v \in values : \E x \in S : v = g[x]
    PROVE  /\ Max(values) \in values /\ \A x \in S : g[x] <= Max(values)
           /\ Min(values) \in values /\ \A x \in S : Min(values) <= g[x]
<1>1. PICK f \in S : \A h \in S : g[h] <= g[f]
  BY Largest
<1>2. PICK e \in S : \A h \in S : g[e] <= g[h]
  BY Smallest
<1>3. g[f] \in values /\ \A y \in values : g[f] >= y
  BY <1>1
<1>4. g[e] \in values /\ \A y \in values : g[e] =< y
  BY <1>2
<1>5. Max(values) \in values /\ \A y \in values : Max(values) >= y
  BY <1>3 DEF Max
<1>6. Min(values) \in values /\ \A y \in values : Min(values) =< y
  BY <1>4 DEF Min
<1>7. \A h \in S : g[h] \in values
  OBVIOUS
<1>8. values \subseteq Int
  OBVIOUS
<1> QED  BY <1>5, <1>6, <1>7, <1>8
-----------------------------------------------------------------------------
\* Task::input_size is the sum of the sizes.
LEMMA InputSizeIsSum ==
    ASSUME NEW m, NEW S, NEW w, \A f \in S : w[f] = m[f].size
    PROVE  InputSize(m, S) = Sum(w, S)
<1> DEFINE G(sums) == [s \in SUBSET S |->
                          IF s = {} THEN 0 ELSE m[Any(s)].size + sums[s \ {Any(s)}]]
           H(sums) == [s \in SUBSET S |-> SumStep(w, sums, s)]
<1>1. ASSUME NEW sums  PROVE G(sums) = H(sums)
  BY AnyIn DEF SumStep
<1>2. InputSize(m, S) = (CHOOSE sums : sums = G(sums))[S]
  BY DEF InputSize, MapThenSumSet, MapThenFoldSet, Any
<1>3. Sum(w, S) = (CHOOSE sums : sums = H(sums))[S]
  BY DEF Sum, Sums
<1> HIDE DEF G, H
<1>4. (CHOOSE sums : sums = G(sums)) = (CHOOSE sums : sums = H(sums))
  BY <1>1
<1> QED  BY <1>2, <1>3, <1>4

\* Files that are given with natural sizes.
Sized(m, files) == IsFiniteSet(files) /\ \A f \in files : m[f].size \in Nat

\* A set of files is within the limits of number and size.
Within(m, S) == Cardinality(S) <= InputMaxNum /\ InputSize(m, S) <= MemoryLimit

\* The limit on the size of a task is a number.
LEMMA LimitIsInt == MemoryLimit \in Int /\ MemoryLimit >= 0
<1>1. NewSstMaxSize * 11 \in Nat
  BY PickerAssumption
<1> QED  BY <1>1 DEF MemoryLimit

\* What take and take_while leave.
LEMMA TakenMeans ==
    ASSUME NEW m, NEW files, NEW S
    PROVE  S \in Taken(m, files) <=>
              /\ S \in SmallestFirst(m, files) /\ Within(m, S)
              /\ \/ Cardinality(S) = InputMaxNum
                 \/ \A f \in files \ S : InputSize(m, S) + m[f].size > MemoryLimit
BY DEF Taken, Within

\* The number of elements of two sets without common elements.
LEMMA CardUnion ==
    ASSUME NEW A, IsFiniteSet(A), NEW B, IsFiniteSet(B), A \cap B = {}
    PROVE  Cardinality(A \cup B) = Cardinality(A) + Cardinality(B)
<1> DEFINE I == A \cap B
<1>1. I = {}
  OBVIOUS
<1>2. Cardinality(A \cup B) = Cardinality(A) + Cardinality(B) - Cardinality(I)
  BY FS_Union
<1> HIDE DEF I
<1>3. Cardinality(I) = 0
  BY <1>1, FS_EmptySet
<1>4. Cardinality(A) \in Nat /\ Cardinality(B) \in Nat
  BY FS_CardinalityType
<1> QED  BY <1>2, <1>3, <1>4

\* The greedy choice: no set of the files within the limits has more files.
LEMMA TakenIsLargest ==
    ASSUME NEW m, NEW files, Sized(m, files), NEW T \in Taken(m, files),
           NEW S \in SUBSET files, Within(m, S)
    PROVE  Cardinality(S) <= Cardinality(T)
<1> DEFINE w == [f \in files |-> m[f].size]
           A == S \ T
           B == T \ S
           C == S \cap T
<1>1. /\ T \in SUBSET files /\ \A f \in T, g \in files \ T : m[f].size <= m[g].size
      /\ Within(m, T)
      /\ \/ Cardinality(T) = InputMaxNum
         \/ \A f \in files \ T : InputSize(m, T) + m[f].size > MemoryLimit
  BY TakenMeans DEF SmallestFirst
<1>2. \A f \in files : w[f] = m[f].size /\ w[f] \in Nat
  BY DEF Sized
<1> HIDE DEF w
<1>3. \A s \in SUBSET files : IsFiniteSet(s) /\ Cardinality(s) \in Nat
  BY FS_Subset, FS_CardinalityType DEF Sized
<1>4. \A s \in SUBSET files : InputSize(m, s) = Sum(w, s) /\ Sum(w, s) \in Nat
  BY <1>2, <1>3, InputSizeIsSum, SumNat
<1>5. A \in SUBSET files /\ B \in SUBSET files /\ C \in SUBSET files
  BY <1>1
<1>6. Cardinality(S) = Cardinality(A) + Cardinality(C) /\ Sum(w, S) = Sum(w, A) + Sum(w, C)
  <2>1. S = A \cup C /\ A \cap C = {}
    OBVIOUS
  <2> HIDE DEF A, C
  <2>2. IsFiniteSet(files) /\ \A f \in files : w[f] \in Nat
    BY <1>2 DEF Sized
  <2>3. Sum(w, A \cup C) = Sum(w, A) + Sum(w, C)
    BY <1>5, <2>1, <2>2, SumUnion
  <2>4. Cardinality(A \cup C) = Cardinality(A) + Cardinality(C)
    BY <1>3, <1>5, <2>1, CardUnion
  <2> QED  BY <2>1, <2>3, <2>4
<1>7. Cardinality(T) = Cardinality(B) + Cardinality(C) /\ Sum(w, T) = Sum(w, B) + Sum(w, C)
  <2>1. T = B \cup C /\ B \cap C = {}
    OBVIOUS
  <2> HIDE DEF B, C
  <2>2. IsFiniteSet(files) /\ \A f \in files : w[f] \in Nat
    BY <1>2 DEF Sized
  <2>3. Sum(w, B \cup C) = Sum(w, B) + Sum(w, C)
    BY <1>5, <2>1, <2>2, SumUnion
  <2>4. Cardinality(B \cup C) = Cardinality(B) + Cardinality(C)
    BY <1>3, <1>5, <2>1, CardUnion
  <2> QED  BY <2>1, <2>3, <2>4
<1> SUFFICES ASSUME ~(Cardinality(S) <= Cardinality(T))  PROVE FALSE
  OBVIOUS
<1>8. Cardinality(A) > Cardinality(B)
  BY <1>3, <1>5, <1>6, <1>7
<1>9. PICK a \in A : Sum(w, B) + w[a] <= Sum(w, A)
  <2>1. \A x \in A, y \in B : w[y] <= w[x]
    BY <1>1, <1>2
  <2>2. IsFiniteSet(files) /\ \A f \in files : w[f] \in Nat
    BY <1>2 DEF Sized
  <2> HIDE DEF A, B
  <2> QED  BY <1>5, <1>8, <2>1, <2>2, MoreAndHeavier
<1>10. Cardinality(T) # InputMaxNum
  BY <1>1, <1>3, PickerAssumption DEF Within
<1>11. InputSize(m, T) + m[a].size > MemoryLimit
  BY <1>1, <1>10
<1>12. Sum(w, T) + w[a] > MemoryLimit /\ Sum(w, S) <= MemoryLimit
  BY <1>1, <1>2, <1>4, <1>11 DEF Within
<1> QED
  <2>1. Sum(w, A) \in Nat /\ Sum(w, B) \in Nat /\ Sum(w, C) \in Nat /\ w[a] \in Nat
    BY <1>2, <1>4, <1>5
  <2> HIDE DEF A, B, C
  <2> QED  BY <1>6, <1>7, <1>9, <1>12, <2>1, LimitIsInt

\* Take and take_while leave something for every list of files, if only the
\* empty set: of the sets that the order may begin with and that are within the
\* limits, a largest one.
LEMMA TakenExists ==
    ASSUME NEW m, NEW files, Sized(m, files)
    PROVE  \E S : S \in Taken(m, files)
<1> DEFINE begin == {S \in SmallestFirst(m, files) : Within(m, S)}
           room == {Cardinality(files) - Cardinality(S) : S \in begin}
           w == [f \in files |-> m[f].size]
<1>1. \A f \in files : w[f] = m[f].size /\ w[f] \in Nat
  BY DEF Sized
<1> HIDE DEF w
<1>2. \A s \in SUBSET files : /\ IsFiniteSet(s) /\ Cardinality(s) \in Nat
                              /\ Cardinality(files) - Cardinality(s) \in Nat
  <2>1. \A s \in SUBSET files : IsFiniteSet(s) /\ Cardinality(s) <= Cardinality(files)
    BY FS_Subset DEF Sized
  <2>2. Cardinality(files) \in Nat /\ \A s \in SUBSET files : Cardinality(s) \in Nat
    BY <2>1, FS_CardinalityType DEF Sized
  <2> QED  BY <2>1, <2>2
<1>3. \A s \in SUBSET files : InputSize(m, s) = Sum(w, s) /\ Sum(w, s) \in Nat
  BY <1>1, <1>2, InputSizeIsSum, SumNat
<1>4. begin \subseteq SUBSET files
  BY DEF SmallestFirst
<1>5. {} \in begin
  <2>1. {} \in SUBSET files
    OBVIOUS
  <2>2. Cardinality({}) = 0
    BY FS_EmptySet
  <2>3. InputSize(m, {}) = 0
    BY <1>3, <2>1, SumEmpty
  <2>4. Within(m, {})
    BY <2>2, <2>3, LimitIsInt, PickerAssumption DEF Within
  <2> QED  BY <2>1, <2>4 DEF SmallestFirst
<1> HIDE DEF begin
<1>6. room \subseteq Nat
  BY <1>2, <1>4
<1>7. room # {}
  BY <1>5
<1>8. PICK r \in room : \A q \in room : ~(<<q, r>> \in OpToRel(<, Nat))
  <2> HIDE DEF room
  <2> QED  BY <1>6, <1>7, NatLessThanWellFounded, WFMin
<1>9. PICK S \in begin : r = Cardinality(files) - Cardinality(S)
  OBVIOUS
<1>10. \A U \in begin : ~(Cardinality(files) - Cardinality(U) < r)
  BY <1>6, <1>8 DEF OpToRel
<1>11. S \in SmallestFirst(m, files) /\ Within(m, S) /\ S \in SUBSET files
  BY <1>4 DEF begin
<1> SUFFICES ASSUME Cardinality(S) # InputMaxNum, NEW f \in files \ S,
                    ~(InputSize(m, S) + m[f].size > MemoryLimit)
             PROVE  FALSE
  BY <1>11, TakenMeans
<1>12. PICK g \in files \ S : \A h \in files \ S : w[g] <= w[h]
  <2> DEFINE R == files \ S
  <2>1. R # {} /\ R \in SUBSET files
    OBVIOUS
  <2>2. IsFiniteSet(R) /\ \A h \in R : w[h] \in Int
    BY <1>1, <1>2, <2>1
  <2> HIDE DEF R
  <2>3. \E g \in R : \A h \in R : w[g] <= w[h]
    BY <2>1, <2>2, Smallest
  <2> QED  BY <2>3 DEF R
<1> DEFINE U == S \cup {g}
<1>13. U \in SUBSET files /\ U \ {g} = S /\ g \in U
  BY <1>11
<1>14. Cardinality(U) = Cardinality(S) + 1
  BY <1>2, <1>11, FS_AddElement
<1>15. U \in SmallestFirst(m, files)
  <2>1. \A x \in S, y \in files \ S : m[x].size <= m[y].size
    BY <1>11 DEF SmallestFirst
  <2>2. \A y \in files \ S : m[g].size <= m[y].size
    BY <1>1, <1>12
  <2>3. \A x \in U, y \in files \ U : m[x].size <= m[y].size
    BY <2>1, <2>2
  <2> QED  BY <1>13, <2>3 DEF SmallestFirst
<1>16. Within(m, U)
  <2> HIDE DEF U
  <2>1. Sum(w, U) = w[g] + Sum(w, S)
    <3>1. IsFiniteSet(U) /\ \A x \in U : w[x] \in Nat
      BY <1>1, <1>2, <1>13
    <3>2. Sum(w, U) = w[g] + Sum(w, U \ {g})
      BY <1>13, <3>1, SumRemove
    <3> QED  BY <1>13, <3>2
  <2>2. w[g] <= w[f] /\ w[g] \in Nat /\ w[f] \in Nat /\ Sum(w, S) \in Nat
    BY <1>1, <1>3, <1>11, <1>12
  <2>3. Sum(w, S) + w[f] <= MemoryLimit
    <3>1. InputSize(m, S) = Sum(w, S) /\ m[f].size = w[f]
      BY <1>1, <1>3, <1>11
    <3>2. ~(Sum(w, S) + w[f] > MemoryLimit)
      BY <3>1
    <3> QED  BY <2>2, <3>2, LimitIsInt
  <2>4. Sum(w, U) <= MemoryLimit
    BY <2>1, <2>2, <2>3, LimitIsInt
  <2>5. InputSize(m, U) <= MemoryLimit
    BY <1>3, <1>13, <2>4
  <2>6. Cardinality(U) <= InputMaxNum
    <3>1. Cardinality(S) \in Nat /\ Cardinality(S) <= InputMaxNum
      BY <1>2, <1>11 DEF Within
    <3> QED  BY <1>14, <3>1, PickerAssumption
  <2> QED  BY <2>5, <2>6 DEF Within
<1>17. U \in begin
  BY <1>15, <1>16 DEF begin
<1>18. Cardinality(files) - Cardinality(U) < r
  <2>1. Cardinality(files) \in Nat /\ Cardinality(S) \in Nat
    BY <1>2, <1>11, FS_CardinalityType DEF Sized
  <2> HIDE DEF U
  <2> QED  BY <1>9, <1>14, <2>1
<1> QED  BY <1>10, <1>17, <1>18

\* A segment that has files within the limits, and enough of them, has enough:
\* what is taken from it is enough too.
LEMMA FitHasEnough ==
    ASSUME NEW m, NEW files, Sized(m, files), NEW S \in SUBSET files, Within(m, S),
           Cardinality(S) >= InputMinNum
    PROVE  HasEnough(m, files)
<1>1. Cardinality(S) <= Cardinality(files) /\ Cardinality(files) \in Nat /\ Cardinality(S) \in Nat
  BY FS_Subset, FS_CardinalityType DEF Sized
<1>2. \A T \in Taken(m, files) : Cardinality(S) <= Cardinality(T) /\ Cardinality(T) \in Nat
  <2> SUFFICES ASSUME NEW T \in Taken(m, files)
               PROVE  Cardinality(S) <= Cardinality(T) /\ Cardinality(T) \in Nat
    OBVIOUS
  <2>1. T \in SUBSET files
    BY TakenMeans DEF SmallestFirst
  <2> QED  BY <2>1, TakenIsLargest, FS_Subset, FS_CardinalityType DEF Sized
<1> QED  BY <1>1, <1>2, PickerAssumption DEF HasEnough
-----------------------------------------------------------------------------
\* The files that the picker may take as inputs.
Candidates(m, list, mk, n) == {f \in Uncompacted(list, mk) : ~IsExpired(m[f], n)}

\* Files that are given with a time range.
Dated(m, files) == \A f \in files : m[f].start \in Int

\* The segment of a file is a time.
LEMMA SegmentIsInt ==
    ASSUME NEW r, r.start \in Int
    PROVE  SegmentOf(r) \in Int
<1> DEFINE ts == r.start
<1>1. ts \div SegmentDuration \in Int /\ (-ts) \div SegmentDuration \in Int
      /\ SegmentDuration \in Int
  BY PickerAssumption
<1>2. ts \in Int
  OBVIOUS
<1> HIDE DEF ts
<1>3. TruncateBy(ts) \in Int
  BY <1>1, <1>2 DEF TruncateBy
<1> QED  BY <1>3 DEF SegmentOf, ts

\* Of the segments that have enough files, there is a newest one.
LEMMA NewestSegment ==
    ASSUME NEW m, NEW files, IsFiniteSet(files), Dated(m, files), NEW ready,
           ready \subseteq {SegmentOf(m[f]) : f \in files}, ready # {}
    PROVE  Max(ready) \in ready
<1> DEFINE seg == [f \in files |-> SegmentOf(m[f])]
           T == {f \in files : seg[f] \in ready}
<1>1. T \in SUBSET files
  OBVIOUS
<1>2. T # {} /\ (\A f \in T : seg[f] \in ready) /\ (\A v \in ready : \E f \in T : v = seg[f])
  OBVIOUS
<1>3. \A f \in T : seg[f] \in Int
  BY SegmentIsInt DEF Dated
<1>4. IsFiniteSet(T)
  BY <1>1, FS_Subset
<1> HIDE DEF T, seg
<1> QED  BY <1>2, <1>3, <1>4, MaxAndMin

\* The task that the picker returns takes what take and take_while leave of a
\* segment that has enough files.
LEMMA PickedFromSegment ==
    ASSUME NEW m, NEW list, NEW mk, NEW n, IsFiniteSet(list), Dated(m, list),
           NEW picked \in PickCandidate(m, list, mk, n), NEW files,
           files = Candidates(m, list, mk, n)
    PROVE  \E s : /\ HasEnough(m, FilesOfSegment(m, files, s))
                  /\ picked.inputs \in Taken(m, FilesOfSegment(m, files, s))
<1> DEFINE free == Uncompacted(list, mk)
           expired == {f \in free : IsExpired(m[f], n)}
           ready == {s \in {SegmentOf(m[f]) : f \in files} :
                        HasEnough(m, FilesOfSegment(m, files, s))}
<1>1. files = free \ expired
  BY DEF Candidates
<1>2. PICK S \in PickCompactionFiles(m, files) :
          picked = [inputs |-> S, expireds |-> expired]
  BY <1>1 DEF PickCandidate
<1>3. ready # {} /\ S \in Taken(m, FilesOfSegment(m, files, Max(ready)))
  BY <1>2 DEF PickCompactionFiles
<1>4. IsFiniteSet(files) /\ Dated(m, files)
  <2>1. files \in SUBSET list
    BY <1>1 DEF Uncompacted
  <2> QED  BY <2>1, FS_Subset DEF Dated
<1>5. ready \subseteq {SegmentOf(m[f]) : f \in files}
  OBVIOUS
<1>6. Max(ready) \in ready
  <2> HIDE DEF ready
  <2> QED  BY <1>3, <1>4, <1>5, NewestSegment
<1>7. HasEnough(m, FilesOfSegment(m, files, Max(ready)))
  BY <1>6
<1>8. picked.inputs \in Taken(m, FilesOfSegment(m, files, Max(ready)))
  BY <1>2, <1>3
<1> QED  BY <1>7, <1>8

\* If some segment has enough files, the picker returns a task.
LEMMA PicksIfReady ==
    ASSUME NEW m, NEW list, NEW mk, NEW n, Sized(m, list), Dated(m, list),
           NEW files, files = Candidates(m, list, mk, n), NEW f \in files,
           HasEnough(m, FilesOfSegment(m, files, SegmentOf(m[f]))), InputMinNum > 0
    PROVE  PickCandidate(m, list, mk, n) # {}
<1> DEFINE free == Uncompacted(list, mk)
           expired == {g \in free : IsExpired(m[g], n)}
           ready == {s \in {SegmentOf(m[g]) : g \in files} :
                        HasEnough(m, FilesOfSegment(m, files, s))}
           segment == FilesOfSegment(m, files, Max(ready))
<1>1. files = free \ expired /\ files \in SUBSET list
  BY DEF Candidates, Uncompacted
<1>2. Sized(m, files) /\ Dated(m, files)
  BY <1>1, FS_Subset DEF Dated, Sized
<1>3. ready # {} /\ ready \subseteq {SegmentOf(m[g]) : g \in files}
  OBVIOUS
<1>4. Max(ready) \in ready
  <2> HIDE DEF ready
  <2> QED  BY <1>2, <1>3, NewestSegment DEF Sized
<1>5. HasEnough(m, segment)
  BY <1>4
<1>6. segment \in SUBSET files
  BY DEF FilesOfSegment
<1>7. Sized(m, segment)
  <2> HIDE DEF segment
  <2> QED  BY <1>2, <1>6, FS_Subset DEF Sized
<1>8. PICK S : S \in Taken(m, segment)
  <2> HIDE DEF segment
  <2> QED  BY <1>7, TakenExists
<1>9. S # {}
  <2>1. Cardinality(S) >= InputMinNum
    BY <1>5, <1>8 DEF HasEnough
  <2> QED  BY <2>1, FS_EmptySet, PickerAssumption
<1>10. S \in PickCompactionFiles(m, files)
  BY <1>3, <1>8 DEF PickCompactionFiles
<1>11. [inputs |-> S, expireds |-> expired] \in PickCandidate(m, list, mk, n)
  BY <1>1, <1>9, <1>10 DEF PickCandidate
<1> QED  BY <1>11
=============================================================================
