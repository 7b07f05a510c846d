---------------------------- MODULE GluePath_proof ----------------------------
(***************************************************************************)
(* Proofs about GluePath: whatever outlines an image has, what is          *)
(* extracted from it is a path of as many left as right points, never more *)
(* than are taught, which starts at its entry, ends with its sides in      *)
(* place and crosses nowhere unless the profiles of the outline do         *)
(* (Extracted); and whatever rectangle holds the outlines holds the path,  *)
(* the x of the entry apart (ExtractedInside).                             *)
(*                                                                         *)
(* The outlines are of any number and length, so every fact here is about  *)
(* finite sets and sequences of unknown size.  The library's induction     *)
(* theorems cannot be instantiated; where induction is needed, a smallest  *)
(* counterexample is refuted instead (LeastNat, Minimal).                  *)
(***************************************************************************)
EXTENDS GluePath, SequenceTheorems, FiniteSetTheorems, FunctionTheorems,
        WellFoundedInduction, TLAPS

-----------------------------------------------------------------------------
(* Finite sets and minima.  The library's induction theorems take a predicate; *)
(* the least element of a set says the same of sets.                           *)

LEMMA LeastNat ==
    ASSUME NEW T, T \subseteq Nat, T # {}
    PROVE  \E x \in T : \A y \in T : x <= y
<1> DEFINE R == {p \in Nat \X Nat : p[1] < p[2]}
<1>1. IsWellFoundedOn(R, Nat)
  BY NatLessThanWellFounded DEF OpToRel
<1>2. \A x, y \in Nat : <<x, y>> \in R <=> x < y
  OBVIOUS
<1> HIDE DEF R
<1>3. PICK x \in T : \A y \in T : ~(<<y, x>> \in R)
  BY <1>1, WFMin DEF R
<1>4. \A y \in T : x \in Nat /\ y \in Nat /\ ~(y < x)
  BY <1>2, <1>3
<1>5. \A y \in T : x <= y
  BY <1>4
<1> QED BY <1>5

\* A finite set has a minimal element for every strict order.
LEMMA Minimal ==
    ASSUME NEW S, IsFiniteSet(S), S # {}, NEW R,
           \A a, b, c \in S : <<a, b>> \in R /\ <<b, c>> \in R => <<a, c>> \in R,
           \A a \in S : <<a, a>> \notin R
    PROVE  \E x \in S : \A y \in S : <<y, x>> \notin R
<1> DEFINE Below(a) == {b \in S : <<b, a>> \in R}
           Ranks    == {Cardinality(Below(a)) : a \in S}
<1>1. \A a \in S : Below(a) \in SUBSET S
  OBVIOUS
<1>2. \A a \in S : IsFiniteSet(Below(a))
  BY <1>1, FS_Subset
<1>3. \A a \in S : Cardinality(Below(a)) \in Nat
  BY <1>2, FS_CardinalityType
<1> HIDE DEF Below
<1>4. Ranks \subseteq Nat /\ Ranks # {}
  BY <1>3
<1>5. PICK x \in S : \A y \in S : Cardinality(Below(x)) <= Cardinality(Below(y))
  <2>1. \E r \in Ranks : \A q \in Ranks : r <= q
    <3> HIDE DEF Ranks
    <3> QED BY <1>4, LeastNat
  <2>2. PICK r \in Ranks : \A q \in Ranks : r <= q
    BY <2>1
  <2>3. PICK x \in S : r = Cardinality(Below(x))
    OBVIOUS
  <2>4. \A y \in S : Cardinality(Below(y)) \in Ranks
    OBVIOUS
  <2> QED BY <2>2, <2>3, <2>4
<1>6. ASSUME NEW y \in S, <<y, x>> \in R PROVE FALSE
  <2>1. Below(y) \in SUBSET Below(x) /\ y \in Below(x) /\ y \notin Below(y)
    BY <1>6 DEF Below
  <2>2. Cardinality(Below(y)) <= Cardinality(Below(x))
    BY <1>2, <2>1, FS_Subset
  <2>3. Cardinality(Below(x)) = Cardinality(Below(y))
    BY <1>3, <1>5, <2>2
  <2>4. Below(x) = Below(y)
    <3> HIDE DEF Below
    <3> QED BY <1>2, <2>1, <2>3, FS_Subset
  <2> QED BY <2>1, <2>4
<1> QED BY <1>6

LEMMA MinProperties ==
    ASSUME NEW S, S \subseteq Int, IsFiniteSet(S), S # {}
    PROVE  /\ Min(S) \in S /\ \A a \in S : Min(S) <= a
           /\ Max(S) \in S /\ \A a \in S : Max(S) >= a
<1>1. \E x \in S : \A y \in S : x <= y
  <2> DEFINE R == {p \in Int \X Int : p[1] < p[2]}
  <2>1. \A a, b \in S : a \in Int /\ b \in Int /\ (<<a, b>> \in R <=> a < b)
    OBVIOUS
  <2> HIDE DEF R
  <2>2. /\ \A a, b, c \in S : <<a, b>> \in R /\ <<b, c>> \in R => <<a, c>> \in R
        /\ \A a \in S : <<a, a>> \notin R
    BY <2>1
  <2>3. PICK x \in S : \A y \in S : <<y, x>> \notin R
    BY <2>2, Minimal
  <2>4. ASSUME NEW y \in S PROVE x <= y
    <3>1. ~(y < x)
      BY <2>1, <2>3
    <3> QED BY <3>1
  <2> QED BY <2>4
<1>2. \E x \in S : \A y \in S : x >= y
  <2> DEFINE R == {p \in Int \X Int : p[1] > p[2]}
  <2>1. \A a, b \in S : a \in Int /\ b \in Int /\ (<<a, b>> \in R <=> a > b)
    OBVIOUS
  <2> HIDE DEF R
  <2>2. /\ \A a, b, c \in S : <<a, b>> \in R /\ <<b, c>> \in R => <<a, c>> \in R
        /\ \A a \in S : <<a, a>> \notin R
    BY <2>1
  <2>3. PICK x \in S : \A y \in S : <<y, x>> \notin R
    BY <2>2, Minimal
  <2>4. ASSUME NEW y \in S PROVE x >= y
    <3>1. ~(y > x)
      BY <2>1, <2>3
    <3> QED BY <3>1
  <2> QED BY <2>4
<1> QED BY <1>1, <1>2 DEF Min, Max

-----------------------------------------------------------------------------
(* InOrder, Ascending and Pick. *)

\* What a finite set in ascending order of its keys is: all of it, once, in order.
LEMMA InOrderProperties ==
    ASSUME NEW S, IsFiniteSet(S), NEW key, \A a \in S : key[a] \in Int,
           \A a, b \in S : key[a] = key[b] => a = b
    PROVE  /\ InOrder(S, key) \in [1 .. Cardinality(S) -> S]
           /\ \A i, j \in 1 .. Cardinality(S) :
                 i < j => key[InOrder(S, key)[i]] < key[InOrder(S, key)[j]]
           /\ \A a \in S : \E i \in 1 .. Cardinality(S) : InOrder(S, key)[i] = a
<1> DEFINE n        == Cardinality(S)
           Below(a) == {b \in S : key[b] < key[a]}
           rank     == [a \in S |-> Cardinality(Below(a))]
<1>1. n \in Nat
  BY FS_CardinalityType
<1>2. \A a \in S : Below(a) \in SUBSET (S \ {a}) /\ IsFiniteSet(Below(a))
  BY FS_Subset
<1>3. \A a \in S : rank[a] \in 0 .. n - 1
  <2> TAKE a \in S
  <2>1. IsFiniteSet(S \ {a}) /\ Cardinality(S \ {a}) = n - 1
    BY FS_RemoveElement
  <2>2. Cardinality(Below(a)) <= n - 1 /\ Cardinality(Below(a)) \in Nat
    <3> HIDE DEF Below, n
    <3> QED BY <1>2, <2>1, FS_Subset, FS_CardinalityType
  <2> QED BY <1>1, <2>2
<1>4. \A a, b \in S : key[a] < key[b] => rank[a] < rank[b]
  <2> TAKE a, b \in S
  <2> HAVE key[a] < key[b]
  <2>1. Below(a) \in SUBSET Below(b) /\ a \in Below(b) /\ a \notin Below(a)
    OBVIOUS
  <2>2. Cardinality(Below(a)) <= Cardinality(Below(b))
    <3> HIDE DEF Below
    <3> QED BY <1>2, <2>1, FS_Subset
  <2>3. Cardinality(Below(a)) # Cardinality(Below(b))
    <3> HIDE DEF Below
    <3> QED BY <1>2, <2>1, FS_Subset
  <2>4. Cardinality(Below(a)) \in Int /\ Cardinality(Below(b)) \in Int
    BY <1>2, FS_CardinalityType
  <2> QED BY <2>2, <2>3, <2>4
<1>5. \A k \in 1 .. n : \E a \in S : rank[a] = k - 1
  <2>1. rank \in [S -> 0 .. n - 1]
    <3>1. rank = [a \in S |-> rank[a]]
      OBVIOUS
    <3> HIDE DEF rank
    <3> QED BY <1>3, <3>1
  <2>2. \A a, b \in S : rank[a] = rank[b] => a = b
    <3> TAKE a, b \in S
    <3>1. key[a] < key[b] \/ key[b] < key[a] \/ key[a] = key[b]
      OBVIOUS
    <3> HIDE DEF rank
    <3> QED BY <1>3, <1>4, <3>1
  <2> HIDE DEF rank
  <2>3. rank \in Injection(S, 0 .. n - 1)
    BY <2>1, <2>2, Fun_IsInj
  <2>4. IsFiniteSet(0 .. n - 1) /\ Cardinality(0 .. n - 1) = n
    <3>1. n - 1 \in Int /\ (0 > n - 1 <=> n = 0)
      BY <1>1
    <3> QED BY <1>1, <3>1, FS_Interval
  <2>5. rank \in Surjection(S, 0 .. n - 1)
    BY <2>3, <2>4, FS_Injection
  <2>6. \A r \in 0 .. n - 1 : \E a \in S : rank[a] = r
    BY <2>5, Fun_SurjectionProperties
  <2>7. \A k \in 1 .. n : k - 1 \in 0 .. n - 1
    BY <1>1
  <2> QED BY <2>6, <2>7
<1> DEFINE s == InOrder(S, key)
<1> DEFINE pick(k) == CHOOSE a \in S : Cardinality(Below(a)) = k - 1
<1>6. s = [k \in 1 .. n |-> pick(k)]
  BY Zenon DEF InOrder
<1>7. \A k \in 1 .. n : s[k] \in S /\ rank[s[k]] = k - 1
  <2> TAKE k \in 1 .. n
  <2>1. \E a \in S : Cardinality(Below(a)) = k - 1
    BY <1>5
  <2>2. s[k] = pick(k)
    <3> HIDE DEF pick, s, n
    <3> QED BY <1>6
  <2> HIDE DEF s, Below, n
  <2>3. s[k] \in S /\ Cardinality(Below(s[k])) = k - 1
    BY <2>1, <2>2
  <2> QED BY <2>3
<1> HIDE DEF s, rank, pick
<1>8. s \in [1 .. n -> S]
  BY <1>6, <1>7
<1>9. ASSUME NEW i \in 1 .. n, NEW j \in 1 .. n, i < j PROVE key[s[i]] < key[s[j]]
  <2>1. s[i] \in S /\ s[j] \in S /\ rank[s[i]] < rank[s[j]]
    BY <1>1, <1>7, <1>9
  <2>2. key[s[i]] \in Int /\ key[s[j]] \in Int
    BY <2>1
  <2>3. ~(key[s[j]] < key[s[i]])
    BY <1>1, <1>4, <1>7, <2>1
  <2>4. key[s[i]] # key[s[j]]
    BY <1>1, <1>7, <1>9, <2>1
  <2> QED BY <2>2, <2>3, <2>4
<1>10. ASSUME NEW a \in S PROVE \E i \in 1 .. n : s[i] = a
  <2>1. rank[a] \in 0 .. n - 1 /\ rank[a] + 1 \in 1 .. n
    BY <1>1, <1>3
  <2> DEFINE i == rank[a] + 1
  <2>2. s[i] \in S /\ rank[s[i]] = rank[a]
    BY <1>7, <2>1
  <2>3. key[s[i]] = key[a]
    <3>1. key[s[i]] \in Int /\ key[a] \in Int
      BY <2>2
    <3> QED BY <1>4, <2>1, <2>2, <3>1
  <2> QED BY <2>1, <2>2, <2>3
<1> QED BY <1>8, <1>9, <1>10 DEF s

LEMMA AscendingProperties ==
    ASSUME NEW S, IsFiniteSet(S), S \subseteq Int
    PROVE  /\ Ascending(S) \in [1 .. Cardinality(S) -> S]
           /\ \A i, j \in 1 .. Cardinality(S) : i < j => Ascending(S)[i] < Ascending(S)[j]
           /\ \A a \in S : \E i \in 1 .. Cardinality(S) : Ascending(S)[i] = a
<1> DEFINE key == [v \in S |-> v]
           s   == InOrder(S, key)
<1>1. \A a \in S : key[a] = a
  OBVIOUS
<1>2. \A a \in S : key[a] \in Int
  BY <1>1
<1>3. \A a, b \in S : key[a] = key[b] => a = b
  BY <1>1
<1>4. Ascending(S) = s
  BY DEF Ascending
<1> HIDE DEF key
<1>5. /\ s \in [1 .. Cardinality(S) -> S]
      /\ \A i, j \in 1 .. Cardinality(S) : i < j => key[s[i]] < key[s[j]]
      /\ \A a \in S : \E i \in 1 .. Cardinality(S) : s[i] = a
  <2> HIDE DEF s
  <2>1. s = InOrder(S, key)
    BY DEF s
  <2>2. /\ InOrder(S, key) \in [1 .. Cardinality(S) -> S]
        /\ \A i, j \in 1 .. Cardinality(S) :
                 i < j => key[InOrder(S, key)[i]] < key[InOrder(S, key)[j]]
        /\ \A a \in S : \E i \in 1 .. Cardinality(S) : InOrder(S, key)[i] = a
    <3>1. InOrder(S, key) \in [1 .. Cardinality(S) -> S]
      BY <1>2, <1>3, InOrderProperties
    <3> QED BY <1>2, <1>3, <3>1, InOrderProperties
  <2> QED BY <2>1, <2>2
<1> HIDE DEF s
<1>6. \A i \in 1 .. Cardinality(S) : key[s[i]] = s[i]
  BY <1>1, <1>5
<1> QED BY <1>4, <1>5, <1>6

\* Pick makes a subsequence: what it takes, and in which order.
LEMMA PickProperties ==
    ASSUME NEW T, NEW s \in Seq(T), NEW at, at \subseteq DOMAIN s
    PROVE  /\ Pick(s, at) \in Seq(T)
           /\ Len(Pick(s, at)) = Cardinality(at)
           /\ Cardinality(at) \in 0 .. Len(s)
           /\ Ascending(at) \in [1 .. Cardinality(at) -> at]
           /\ \A i, j \in 1 .. Cardinality(at) : i < j => Ascending(at)[i] < Ascending(at)[j]
           /\ \A a \in at : \E i \in 1 .. Cardinality(at) : Ascending(at)[i] = a
           /\ \A k \in 1 .. Cardinality(at) : Pick(s, at)[k] = s[Ascending(at)[k]]
<1> DEFINE n == Cardinality(at)
           o == Ascending(at)
<1>1. Len(s) \in Nat /\ DOMAIN s = 1 .. Len(s)
  BY LenProperties
<1>2. IsFiniteSet(1 .. Len(s)) /\ Cardinality(1 .. Len(s)) = Len(s)
  <2> DEFINE m == Len(s)
  <2>1. m \in Nat /\ (1 > m <=> m = 0)
    BY <1>1
  <2> HIDE DEF m
  <2>2. IsFiniteSet(1 .. m) /\ Cardinality(1 .. m) = m
    BY <2>1, FS_Interval
  <2> QED BY <2>2 DEF m
<1>3. IsFiniteSet(at) /\ n <= Len(s) /\ n \in Nat
  BY <1>1, <1>2, FS_Subset, FS_CardinalityType
<1>4. /\ o \in [1 .. n -> at]
      /\ \A i, j \in 1 .. n : i < j => o[i] < o[j]
      /\ \A a \in at : \E i \in 1 .. n : o[i] = a
  <2>1. at \subseteq Int
    BY <1>1
  <2> QED BY <1>3, <2>1, AscendingProperties
<1>5. Pick(s, at) = [k \in 1 .. n |-> s[o[k]]]
  <2>1. DOMAIN o = 1 .. n
    BY <1>4
  <2> QED BY <2>1 DEF Pick
<1>6. \A k \in 1 .. n : s[o[k]] \in T
  <2> HIDE DEF o
  <2> QED BY <1>1, <1>4, ElementOfSeq
<1> HIDE DEF o
<1>7. Pick(s, at) \in [1 .. n -> T]
  BY <1>5, <1>6
<1>8. Pick(s, at) \in Seq(T) /\ Len(Pick(s, at)) = n
  <2>1. Pick(s, at) \in Seq(T)
    BY <1>3, <1>7, SeqDef
  <2>2. DOMAIN Pick(s, at) = 1 .. Len(Pick(s, at)) /\ Len(Pick(s, at)) \in Nat
    BY <2>1, LenProperties
  <2> QED BY <1>3, <1>7, <2>1, <2>2
<1> QED BY <1>3, <1>4, <1>5, <1>8 DEF o

LEMMA ImageFinite ==
    ASSUME NEW D, IsFiniteSet(D), NEW f
    PROVE  IsFiniteSet({f[i] : i \in D})
<1> DEFINE g == [i \in D |-> f[i]]
           T == {f[i] : i \in D}
<1>1. g \in [D -> T]
  OBVIOUS
<1>2. \A t \in T : \E i \in D : g[i] = t
  OBVIOUS
<1> HIDE DEF g, T
<1>3. g \in Surjection(D, T)
  BY <1>1, <1>2, Fun_IsSurj
<1>4. IsFiniteSet(T)
  BY <1>3, FS_Surjection
<1> QED BY <1>4 DEF T

-----------------------------------------------------------------------------
(* Sums and flattening: the recursive functions of the library exist, and what *)
(* they yield has its type.                                                    *)

\* The sum of finitely many integers is an integer.
LEMMA SumIsInt ==
    ASSUME NEW D, IsFiniteSet(D), NEW f \in [D -> Int]
    PROVE  FoldFunction(LAMBDA a, b : a + b, 0, f) \in Int
<1> DEFINE c(s)    == CHOOSE x \in s : TRUE
           Upto(n) == {s \in SUBSET D : Cardinality(s) <= n}
           Eq(g, n) == \A s \in Upto(n) : g[s] = IF s = {} THEN 0 ELSE f[c(s)] + g[s \ {c(s)}]
           Sums(n)  == \E g \in [Upto(n) -> Int] : Eq(g, n)
<1>1. \A s \in SUBSET D : IsFiniteSet(s) /\ Cardinality(s) \in Nat
  BY FS_Subset, FS_CardinalityType
<1>2. \A s \in SUBSET D : s # {} => /\ c(s) \in D /\ c(s) \in s
                                    /\ s \ {c(s)} \in SUBSET D
                                    /\ Cardinality(s \ {c(s)}) = Cardinality(s) - 1
  <2> TAKE s \in SUBSET D
  <2> HAVE s # {}
  <2>1. c(s) \in s
    OBVIOUS
  <2> HIDE DEF c
  <2> QED BY <1>1, <2>1, FS_RemoveElement
<1>3. \A s \in SUBSET D : Cardinality(s) = 0 <=> s = {}
  BY <1>1, FS_EmptySet
<1> HIDE DEF c
<1>4. Sums(0)
  <2> DEFINE g == [s \in Upto(0) |-> 0]
  <2>1. g \in [Upto(0) -> Int]
    OBVIOUS
  <2>2. \A s \in Upto(0) : s = {}
    BY <1>1, <1>3
  <2>3. Eq(g, 0)
    BY <2>2
  <2> QED BY <2>1, <2>3
<1>5. ASSUME NEW n \in Nat, Sums(n) PROVE Sums(n + 1)
  <2>1. PICK g \in [Upto(n) -> Int] : Eq(g, n)
    BY <1>5
  <2> DEFINE h == [s \in Upto(n + 1) |-> IF s = {} THEN 0 ELSE f[c(s)] + g[s \ {c(s)}]]
  <2>2. \A s \in Upto(n + 1) : s # {} => s \ {c(s)} \in Upto(n)
    BY <1>1, <1>2
  <2>3. h \in [Upto(n + 1) -> Int]
    <3>1. \A s \in Upto(n + 1) : s # {} => f[c(s)] + g[s \ {c(s)}] \in Int
      BY <1>2, <2>2
    <3> QED BY <3>1
  <2>4. \A s \in Upto(n) : h[s] = g[s]
    <3>1. \A s \in Upto(n) : s \in Upto(n + 1)
      BY <1>1
    <3> QED BY <2>1, <3>1
  <2>5. Eq(h, n + 1)
    BY <2>2, <2>4
  <2> QED BY <2>3, <2>5
<1>6. \A n \in Nat : Sums(n)
  <2> DEFINE T == {n \in Nat : ~Sums(n)}
  <2> SUFFICES ASSUME T # {} PROVE FALSE
    OBVIOUS
  <2>1. PICK n \in T : \A m \in T : n <= m
    <3>1. T \subseteq Nat
      OBVIOUS
    <3> HIDE DEF T
    <3> QED BY <3>1, LeastNat
  <2> HIDE DEF Sums
  <2>2. n \in Nat /\ n # 0
    BY <1>4
  <2>3. n - 1 \in Nat /\ n - 1 \notin T
    BY <2>1, <2>2
  <2>4. Sums((n - 1) + 1)
    BY <1>5, <2>3
  <2> QED BY <2>2, <2>4
<1> DEFINE Rec(g) == g = [s \in SUBSET D |-> IF s = {} THEN 0 ELSE f[c(s)] + g[s \ {c(s)}]]
           iter   == CHOOSE g : Rec(g)
<1>7. \E g : Rec(g)
  <2>1. Cardinality(D) \in Nat /\ \A s \in SUBSET D : Cardinality(s) <= Cardinality(D)
    BY FS_CardinalityType, FS_Subset
  <2>2. Upto(Cardinality(D)) = SUBSET D
    BY <2>1
  <2>3. PICK g \in [SUBSET D -> Int] : Eq(g, Cardinality(D))
    BY <1>6, <2>1, <2>2
  <2>4. Rec(g)
    BY <2>2, <2>3
  <2> QED BY <2>4
<1>8. Rec(iter)
  BY <1>7
<1> HIDE DEF iter
<1>9. \A s \in SUBSET D : iter[s] \in Int
  <2> DEFINE T == {n \in Nat : \E s \in SUBSET D : Cardinality(s) = n /\ iter[s] \notin Int}
  <2> SUFFICES ASSUME T # {} PROVE FALSE
    BY <1>1
  <2>1. PICK n \in T : \A m \in T : n <= m
    <3>1. T \subseteq Nat
      OBVIOUS
    <3> HIDE DEF T
    <3> QED BY <3>1, LeastNat
  <2>2. PICK s \in SUBSET D : Cardinality(s) = n /\ iter[s] \notin Int
    OBVIOUS
  <2>3. s # {} /\ iter[s] = f[c(s)] + iter[s \ {c(s)}]
    <3>1. iter[s] = IF s = {} THEN 0 ELSE f[c(s)] + iter[s \ {c(s)}]
      BY <1>8, <2>2
    <3> QED BY <2>2, <3>1
  <2>4. n \in Nat /\ n - 1 \in Nat /\ Cardinality(s \ {c(s)}) = n - 1 /\ s \ {c(s)} \in SUBSET D
    BY <1>1, <1>2, <1>3, <2>2, <2>3
  <2>5. n - 1 \notin T
    <3> HIDE DEF T
    <3> QED BY <2>1, <2>4
  <2>6. iter[s \ {c(s)}] \in Int
    BY <2>4, <2>5
  <2> QED BY <1>2, <2>2, <2>3, <2>6
<1>10. FoldFunction(LAMBDA a, b : a + b, 0, f) = iter[D]
  <2>1. DOMAIN f = D
    OBVIOUS
  <2>2. FoldFunction(LAMBDA a, b : a + b, 0, f)
          = (CHOOSE g : g = [s \in SUBSET DOMAIN f |->
                                IF s = {} THEN 0
                                ELSE f[CHOOSE x \in s : TRUE] + g[s \ {CHOOSE x \in s : TRUE}]])[DOMAIN f]
    BY Zenon DEF FoldFunction, FoldFunctionOnSet, MapThenFoldSet
  <2> QED BY <2>1, <2>2, Zenon DEF iter, c
<1> QED BY <1>9, <1>10

\* Strings of elements of T, strung together, are a string of elements of T.
LEMMA FlattenIsSeq ==
    ASSUME NEW T, NEW seqs \in Seq(Seq(T))
    PROVE  FlattenSeq(seqs) \in Seq(T)
<1> DEFINE L       == Len(seqs)
           Eq(g, i) == g[i] = IF i = 1 THEN seqs[i] ELSE g[i - 1] \o seqs[i]
           Flat(n) == n <= L => \E g \in [1 .. n -> Seq(T)] : \A i \in 1 .. n : Eq(g, i)
<1>1. L \in Nat /\ \A i \in 1 .. L : seqs[i] \in Seq(T)
  BY LenProperties, ElementOfSeq
<1>2. CASE L = 0
  <2>1. seqs = << >>
    BY <1>2, EmptySeq
  <2>2. FlattenSeq(seqs) = << >>
    BY <1>2, <2>1 DEF FlattenSeq
  <2> QED BY <2>2, EmptySeq
<1>3. CASE L # 0
  <2> HIDE DEF L
  <2>1. Flat(0)
    <3> DEFINE g == [i \in 1 .. 0 |-> << >>]
    <3>1. g \in [1 .. 0 -> Seq(T)] /\ \A i \in 1 .. 0 : Eq(g, i)
      OBVIOUS
    <3> QED BY <3>1
  <2>2. ASSUME NEW n \in Nat, Flat(n) PROVE Flat(n + 1)
    <3> SUFFICES ASSUME n + 1 <= L
                 PROVE  \E h \in [1 .. n + 1 -> Seq(T)] : \A i \in 1 .. n + 1 : Eq(h, i)
      OBVIOUS
    <3>1. PICK g \in [1 .. n -> Seq(T)] : \A i \in 1 .. n : Eq(g, i)
      BY <1>1, <2>2
    <3> DEFINE h == [i \in 1 .. n + 1 |-> IF i <= n THEN g[i]
                                          ELSE IF i = 1 THEN seqs[i] ELSE g[i - 1] \o seqs[i]]
    <3>2. h \in [1 .. n + 1 -> Seq(T)]
      <4> SUFFICES ASSUME NEW i \in 1 .. n + 1 PROVE h[i] \in Seq(T)
        OBVIOUS
      <4>1. CASE i <= n
        BY <4>1
      <4>2. CASE ~(i <= n) /\ i = 1
        BY <1>1, <4>2
      <4>3. CASE ~(i <= n) /\ i # 1
        <5>1. i - 1 \in 1 .. n /\ i \in 1 .. L
          BY <1>1, <4>3
        <5>2. g[i - 1] \in Seq(T) /\ seqs[i] \in Seq(T)
          BY <1>1, <5>1
        <5>3. g[i - 1] \o seqs[i] \in Seq(T)
          BY <5>2, ConcatProperties
        <5> QED BY <4>3, <5>3
      <4> QED BY <4>1, <4>2, <4>3
    <3>3. \A i \in 1 .. n + 1 : Eq(h, i)
      <4> TAKE i \in 1 .. n + 1
      <4>1. i # 1 => i - 1 \in 1 .. n /\ i - 1 <= n /\ i - 1 \in 1 .. n + 1
        OBVIOUS
      <4>2. i # 1 => h[i - 1] = g[i - 1]
        BY <4>1
      <4>3. CASE i <= n
        <5>1. h[i] = g[i] /\ i \in 1 .. n
          BY <4>3
        <5>2. Eq(g, i)
          BY <3>1, <5>1
        <5> HIDE DEF h
        <5> QED BY <4>2, <5>1, <5>2
      <4>4. CASE ~(i <= n)
        BY <4>2, <4>4
      <4> QED BY <4>3, <4>4
    <3> QED BY <3>2, <3>3
  <2>3. \A n \in Nat : Flat(n)
    <3> DEFINE B == {n \in Nat : ~Flat(n)}
    <3> SUFFICES ASSUME B # {} PROVE FALSE
      OBVIOUS
    <3>1. PICK n \in B : \A m \in B : n <= m
      <4>1. B \subseteq Nat
        OBVIOUS
      <4> HIDE DEF B
      <4> QED BY <4>1, LeastNat
    <3> HIDE DEF Flat
    <3>2. n \in Nat /\ n # 0
      BY <2>1
    <3>3. n - 1 \in Nat /\ n - 1 \notin B
      BY <3>1, <3>2
    <3>4. Flat((n - 1) + 1)
      BY <2>2, <3>3
    <3> QED BY <3>2, <3>4
  <2> DEFINE Rec(g)  == g = [i \in 1 .. L |-> IF i = 1 THEN seqs[i] ELSE g[i - 1] \o seqs[i]]
             flatten == CHOOSE g : Rec(g)
  <2>4. \E g : Rec(g)
    <3>0. Flat(L)
      BY <1>1, <2>3
    <3>1. PICK g \in [1 .. L -> Seq(T)] : \A i \in 1 .. L : Eq(g, i)
      <4>1. L <= L
        BY <1>1
      <4> HIDE DEF Eq
      <4> QED BY <3>0, <4>1
    <3>2. Rec(g)
      BY <3>1
    <3> QED BY <3>2
  <2>5. Rec(flatten)
    BY <2>4
  <2> HIDE DEF flatten
  <2>6. \A i \in 1 .. L : Eq(flatten, i)
    BY <2>5
  <2>7. \A i \in 1 .. L : flatten[i] \in Seq(T)
    <3> DEFINE B == {i \in 1 .. L : flatten[i] \notin Seq(T)}
    <3> SUFFICES ASSUME B # {} PROVE FALSE
      OBVIOUS
    <3>1. PICK i \in B : \A j \in B : i <= j
      <4>1. B \subseteq Nat
        BY <1>1
      <4> HIDE DEF B
      <4> QED BY <4>1, LeastNat
    <3>2. i \in 1 .. L /\ flatten[i] \notin Seq(T)
      OBVIOUS
    <3>3. i # 1
      BY <1>1, <2>6, <3>2
    <3>4. i - 1 \in 1 .. L /\ i - 1 \notin B
      BY <1>1, <3>1, <3>2, <3>3
    <3>5. flatten[i - 1] \in Seq(T) /\ seqs[i] \in Seq(T)
      BY <1>1, <3>2, <3>4
    <3>6. flatten[i - 1] \o seqs[i] \in Seq(T)
      BY <3>5, ConcatProperties
    <3> QED BY <2>6, <3>2, <3>3, <3>6
  <2>8. FlattenSeq(seqs) = flatten[L]
    BY <1>3, Zenon DEF FlattenSeq, flatten, L
  <2> QED BY <1>1, <1>3, <2>7, <2>8
<1> QED BY <1>2, <1>3

-----------------------------------------------------------------------------
(* Arithmetic. *)

\* What \div is.
LEMMA DivBounds ==
    ASSUME NEW n \in Int, NEW d \in Nat \ {0}
    PROVE  n \div d \in Int /\ d * (n \div d) <= n /\ n < d * (n \div d) + d
OBVIOUS

LEMMA DivideIsInt ==
    ASSUME NEW a \in Int, NEW b \in Int, b # 0
    PROVE  Divide(a, b) \in Int
<1>1. CASE b > 0
  BY <1>1 DEF Divide
<1>2. CASE ~(b > 0)
  <2>1. -a \in Int /\ -b \in Int /\ -b > 0
    BY <1>2
  <2> QED BY <1>2, <2>1 DEF Divide
<1> QED BY <1>1, <1>2

\* lround leaves at most half a unit of error, whatever the sign.
LEMMA RoundIsNearest ==
    ASSUME NEW a \in Int, NEW b \in Nat \ {0}
    PROVE  Round(a, b) \in Int /\ 2 * (Round(a, b) * b - a) \in -b .. b
<1>1. 2 * b \in Nat \ {0} /\ 2 * a + b \in Int /\ b - 2 * a \in Int
  OBVIOUS
<1>2. CASE a >= 0
  <2> DEFINE q == (2 * a + b) \div (2 * b)
  <2>1. q \in Int /\ (2 * b) * q <= 2 * a + b /\ 2 * a + b < (2 * b) * q + 2 * b
    BY <1>1, DivBounds
  <2>2. Round(a, b) = q
    BY <1>2 DEF Round
  <2> HIDE DEF q
  <2>3. (2 * b) * q = 2 * (q * b)
    BY <2>1
  <2> QED BY <2>1, <2>2, <2>3
<1>3. CASE ~(a >= 0)
  <2> DEFINE q == (b - 2 * a) \div (2 * b)
  <2>1. q \in Int /\ (2 * b) * q <= b - 2 * a /\ b - 2 * a < (2 * b) * q + 2 * b
    BY <1>1, DivBounds
  <2>2. Round(a, b) = -q
    BY <1>3 DEF Round
  <2> HIDE DEF q
  <2>3. (2 * b) * q = -(2 * ((-q) * b))
    BY <2>1
  <2> QED BY <2>1, <2>2, <2>3
<1> QED BY <1>2, <1>3

\* Rounding stays between the whole numbers that enclose the exact value.
LEMMA RoundBetween ==
    ASSUME NEW a \in Nat, NEW b \in Nat \ {0}, NEW k \in Nat, a <= k * b
    PROVE  Round(a, b) \in 0 .. k
<1> DEFINE r == Round(a, b)
<1>1. r \in Int /\ 2 * (r * b - a) \in -b .. b
  BY RoundIsNearest
<1> HIDE DEF r
<1>2. r * b \in Int /\ 2 * (r * b) <= 2 * a + b /\ 2 * (r * b) >= 2 * a - b
  BY <1>1
<1>3. r >= 0
  <2> SUFFICES ASSUME r <= -1 PROVE FALSE
    BY <1>1
  <2>1. r * b <= (-1) * b
    BY <1>1
  <2> QED BY <1>2, <2>1
<1>4. r <= k
  <2> SUFFICES ASSUME r >= k + 1 PROVE FALSE
    BY <1>1
  <2>1. r * b >= (k + 1) * b
    BY <1>1
  <2>2. (k + 1) * b = k * b + b
    OBVIOUS
  <2> QED BY <1>2, <2>1, <2>2
<1> QED BY <1>1, <1>3, <1>4 DEF r

\* Of finitely many indices the first with the least value, or with the least second
\* value among those, exists.
LEMMA FirstLeast ==
    ASSUME NEW D, IsFiniteSet(D), D # {}, NEW f, NEW g,
           \A i \in D : i \in Int /\ f[i] \in Int /\ g[i] \in Int
    PROVE  \E i \in D : \A j \in D :
              \/ f[i] < f[j]
              \/ f[i] = f[j] /\ (g[i] < g[j] \/ (g[i] = g[j] /\ i <= j))
<1> DEFINE Before(i, j) == \/ f[i] < f[j]
                           \/ f[i] = f[j] /\ (g[i] < g[j] \/ (g[i] = g[j] /\ i < j))
           R == {p \in D \X D : Before(p[1], p[2])}
<1>1. \A i, j \in D : <<i, j>> \in R <=> Before(i, j)
  OBVIOUS
<1> HIDE DEF R
<1>2. \A a, b, c \in D : <<a, b>> \in R /\ <<b, c>> \in R => <<a, c>> \in R
  BY <1>1
<1>3. \A a \in D : <<a, a>> \notin R
  BY <1>1
<1>4. PICK i \in D : \A j \in D : <<j, i>> \notin R
  BY <1>2, <1>3, Minimal
<1>5. \A j \in D : ~Before(j, i)
  BY <1>1, <1>4
<1>6. \A j \in D : \/ f[i] < f[j]
                   \/ f[i] = f[j] /\ (g[i] < g[j] \/ (g[i] = g[j] /\ i <= j))
  BY <1>5
<1> QED BY <1>6

-----------------------------------------------------------------------------
(* The two chains of an outline. *)

LEMMA SeqDomain ==
    ASSUME NEW T, NEW s \in Seq(T)
    PROVE  /\ Len(s) \in Nat /\ DOMAIN s = 1 .. Len(s)
           /\ \A i \in DOMAIN s : i \in Int /\ s[i] \in T
           /\ IsFiniteSet(DOMAIN s)
           /\ s # << >> => Len(s) >= 1 /\ DOMAIN s # {}
<1>1. Len(s) \in Nat /\ DOMAIN s = 1 .. Len(s)
  BY LenProperties
<1>2. \A i \in DOMAIN s : i \in Int /\ s[i] \in T
  BY <1>1, ElementOfSeq
<1>3. IsFiniteSet(DOMAIN s)
  BY <1>1, FS_Interval
<1>4. s # << >> => Len(s) >= 1 /\ DOMAIN s # {}
  <2>1. s # << >> => Len(s) \in Nat \ {0}
    BY EmptySeq
  <2>2. Len(s) \in Nat \ {0} => 1 \in 1 .. Len(s)
    OBVIOUS
  <2> QED BY <1>1, <2>1, <2>2
<1> QED BY <1>1, <1>2, <1>3, <1>4

LEMMA TopAndBottom ==
    ASSUME NEW c \in Seq(Point), c # << >>
    PROVE  /\ TopOf(c) \in 1 .. Len(c) /\ BottomOf(c) \in 1 .. Len(c)
           /\ \A i \in DOMAIN c : c[TopOf(c)].y <= c[i].y /\ c[i].y <= c[BottomOf(c)].y
<1>1. /\ IsFiniteSet(DOMAIN c) /\ DOMAIN c # {} /\ DOMAIN c = 1 .. Len(c)
      /\ \A i \in DOMAIN c : i \in Int /\ c[i].x \in Int /\ c[i].y \in Int
  <2>1. \A i \in DOMAIN c : i \in Int /\ c[i] \in Point
    BY SeqDomain
  <2>2. IsFiniteSet(DOMAIN c) /\ DOMAIN c # {} /\ DOMAIN c = 1 .. Len(c)
    BY SeqDomain
  <2> QED BY <2>1, <2>2 DEF Point
<1> DEFINE up   == [i \in DOMAIN c |-> c[i].y]
           down == [i \in DOMAIN c |-> -c[i].y]
           xs   == [i \in DOMAIN c |-> c[i].x]
<1>2. TopOf(c) \in DOMAIN c /\ \A i \in DOMAIN c : c[TopOf(c)].y <= c[i].y
  <2>1. \A i \in DOMAIN c : i \in Int /\ up[i] \in Int /\ xs[i] \in Int
    BY <1>1
  <2>2. \E i \in DOMAIN c : \A j \in DOMAIN c :
           \/ up[i] < up[j]
           \/ up[i] = up[j] /\ (xs[i] < xs[j] \/ (xs[i] = xs[j] /\ i <= j))
    <3> HIDE DEF up, xs
    <3> QED BY <1>1, <2>1, FirstLeast
  <2>3. \E i \in DOMAIN c : \A j \in DOMAIN c :
           \/ c[i].y < c[j].y
           \/ c[i].y = c[j].y /\ (c[i].x < c[j].x \/ (c[i].x = c[j].x /\ i <= j))
    BY <2>2
  <2> DEFINE t == TopOf(c)
  <2>4. t \in DOMAIN c /\ \A j \in DOMAIN c : c[t].y < c[j].y \/ c[t].y = c[j].y
    BY <2>3 DEF TopOf
  <2> HIDE DEF t
  <2>5. \A j \in DOMAIN c : c[t].y <= c[j].y
    BY <1>1, <2>4
  <2> QED BY <2>4, <2>5 DEF t
<1>3. BottomOf(c) \in DOMAIN c /\ \A i \in DOMAIN c : c[i].y <= c[BottomOf(c)].y
  <2>1. \A i \in DOMAIN c : i \in Int /\ down[i] \in Int /\ xs[i] \in Int
    BY <1>1
  <2>2. PICK i \in DOMAIN c : \A j \in DOMAIN c :
           \/ down[i] < down[j]
           \/ down[i] = down[j] /\ (xs[i] < xs[j] \/ (xs[i] = xs[j] /\ i <= j))
    <3> HIDE DEF down, xs
    <3> QED BY <1>1, <2>1, FirstLeast
  <2>3. \A j \in DOMAIN c :
           \/ c[i].y > c[j].y
           \/ c[i].y = c[j].y /\ (c[i].x < c[j].x \/ (c[i].x = c[j].x /\ i <= j))
    <3> TAKE j \in DOMAIN c
    <3>1. down[i] = -c[i].y /\ down[j] = -c[j].y /\ xs[i] = c[i].x /\ xs[j] = c[j].x
      OBVIOUS
    <3>2. c[i].y \in Int /\ c[j].y \in Int
      BY <1>1
    <3>3. \/ down[i] < down[j]
          \/ down[i] = down[j] /\ (xs[i] < xs[j] \/ (xs[i] = xs[j] /\ i <= j))
      BY <2>2
    <3> HIDE DEF down, xs
    <3> QED BY <3>1, <3>2, <3>3
  <2> DEFINE b == BottomOf(c)
  <2>4. b \in DOMAIN c /\ \A j \in DOMAIN c : c[b].y > c[j].y \/ c[b].y = c[j].y
    BY <2>3 DEF BottomOf
  <2> HIDE DEF b
  <2>5. \A j \in DOMAIN c : c[j].y <= c[b].y
    BY <1>1, <2>4
  <2> QED BY <2>4, <2>5 DEF b
<1> QED BY <1>1, <1>2, <1>3

LEMMA ModBounds ==
    ASSUME NEW a \in Int, NEW n \in Nat \ {0}
    PROVE  a % n \in 0 .. n - 1
OBVIOUS

\* A string of elements of a set is one of elements of every larger set.
LEMMA SubSeqOf ==
    ASSUME NEW U, NEW T, T \subseteq U, NEW c \in Seq(T)
    PROVE  c \in Seq(U)
<1>1. Len(c) \in Nat /\ c \in [1 .. Len(c) -> T]
  BY LenProperties, SeqDef
<1>2. c \in [1 .. Len(c) -> U]
  BY <1>1
<1> QED BY <1>1, <1>2, SeqDef

LEMMA ChainsAreSeqs ==
    ASSUME NEW T, T \subseteq Point, NEW c \in Seq(T), c # << >>
    PROVE  /\ Onward(c) \in Seq(T) /\ Onward(c) # << >>
           /\ Backward(c) \in Seq(T) /\ Backward(c) # << >>
<1> DEFINE n == Len(c)
           t == TopOf(c)
           b == BottomOf(c)
<1>1. n \in Nat \ {0} /\ \A i \in 1 .. n : c[i] \in T
  BY SeqDomain
<1>2. t \in 1 .. n /\ b \in 1 .. n
  BY SubSeqOf, TopAndBottom
<1> HIDE DEF n, t, b
<1>3. \A v \in Int : v % n \in 0 .. n - 1 /\ (v % n) + 1 \in 1 .. n
  <2> TAKE v \in Int
  <2> DEFINE r == v % n
  <2>1. r \in 0 .. n - 1
    BY <1>1, ModBounds
  <2> HIDE DEF r
  <2>2. r + 1 \in 1 .. n
    BY <1>1, <2>1
  <2> QED BY <2>1, <2>2 DEF r
<1> DEFINE m1 == ((b - t) % n) + 1
           m2 == ((t - b) % n) + 1
           s1 == [k \in 1 .. m1 |-> c[((t + k - 2) % n) + 1]]
           s2 == [k \in 1 .. m2 |-> c[((t - k) % n) + 1]]
<1>4. m1 \in Nat \ {0} /\ m2 \in Nat \ {0}
  <2>1. b - t \in Int /\ t - b \in Int
    BY <1>1, <1>2
  <2>2. m1 \in 1 .. n /\ m2 \in 1 .. n
    BY <1>3, <2>1
  <2> HIDE DEF m1, m2
  <2> QED BY <1>1, <2>2
<1> HIDE DEF m1, m2
<1>5. s1 \in [1 .. m1 -> T]
  <2>1. \A k \in 1 .. m1 : c[((t + k - 2) % n) + 1] \in T
    <3> TAKE k \in 1 .. m1
    <3>1. t + k - 2 \in Int
      BY <1>2, <1>4
    <3> QED BY <1>1, <1>3, <3>1
  <2> QED BY <2>1
<1>6. s2 \in [1 .. m2 -> T]
  <2>1. \A k \in 1 .. m2 : c[((t - k) % n) + 1] \in T
    <3> TAKE k \in 1 .. m2
    <3>1. t - k \in Int
      BY <1>2, <1>4
    <3> QED BY <1>1, <1>3, <3>1
  <2> QED BY <2>1
<1>7. Onward(c) = s1 /\ Backward(c) = s2
  BY DEF Onward, Backward, n, t, b, m1, m2
<1> HIDE DEF s1, s2
<1>8. ASSUME NEW k \in Nat \ {0}, NEW s \in [1 .. k -> T]
      PROVE  s \in Seq(T) /\ s # << >>
  <2>1. s \in Seq(T)
    BY SeqDef
  <2>2. Len(s) = k
    BY <2>1, LenProperties
  <2> QED BY <2>1, <2>2, EmptySeq
<1> QED BY <1>4, <1>5, <1>6, <1>7, <1>8

LEMMA SplitTyped ==
    ASSUME NEW T, T \subseteq Point, NEW c \in Seq(T), c # << >>
    PROVE  /\ SplitByCenter(c).left \in Seq(T) /\ SplitByCenter(c).right \in Seq(T)
           /\ SplitByCenter(c) \in Sides /\ SplitByCenter(c).right # << >>
<1>1. /\ Onward(c) \in Seq(T) /\ Onward(c) # << >>
      /\ Backward(c) \in Seq(T) /\ Backward(c) # << >>
  BY ChainsAreSeqs
<1>2. << >> \in Seq(T)
  BY EmptySeq
<1> DEFINE l == SplitByCenter(c).left
           r == SplitByCenter(c).right
<1>3. /\ SplitByCenter(c) = [left |-> l, right |-> r]
      /\ l \in Seq(T) /\ r \in Seq(T) /\ r # << >>
  BY <1>1, <1>2 DEF SplitByCenter
<1> HIDE DEF l, r
<1>4. l \in Seq(Point) /\ r \in Seq(Point)
  BY <1>3, SubSeqOf
<1> QED BY <1>3, <1>4 DEF Sides, l, r

LEMMA ModIs ==
    ASSUME NEW n \in Nat \ {0}, NEW r \in 0 .. n - 1
    PROVE  r % n = r /\ (r + n) % n = r /\ (r - n) % n = r
<1>1. \A v \in Int : v % n \in 0 .. n - 1 /\ v = n * (v \div n) + (v % n)
  OBVIOUS
<1>2. ASSUME NEW v \in Int, NEW k \in {-1, 0, 1}, v = r + k * n PROVE v % n = r
  <2> DEFINE m == v % n
             q == v \div n
  <2>1. m \in 0 .. n - 1 /\ q \in Int /\ v = n * q + m
    BY <1>1
  <2> HIDE DEF m, q
  <2>2. n * (q - k) = r - m /\ q - k \in Int
    BY <1>2, <2>1
  <2>3. r - m < n /\ r - m > -n
    BY <2>1
  <2> DEFINE j == q - k
  <2> HIDE DEF j
  <2>4. j \in Int /\ n * j < n /\ n * j > -n
    BY <2>2, <2>3 DEF j
  <2>5. j = 0
    BY <2>4
  <2>6. r - m = 0
    BY <2>2, <2>5 DEF j
  <2> QED BY <2>1, <2>6 DEF m
<1> QED BY <1>2

\* From the top onwards to the bottom, and from the top backwards to it.
LEMMA ChainEnds ==
    ASSUME NEW c \in Seq(Point), c # << >>
    PROVE  \A chain \in {Onward(c), Backward(c)} :
               /\ c[TopOf(c)] \in ToSet(chain)
               /\ c[BottomOf(c)] \in ToSet(chain)
<1> DEFINE n == Len(c)
           t == TopOf(c)
           b == BottomOf(c)
           d1 == (b - t) % n
           d2 == (t - b) % n
           m1 == d1 + 1
           m2 == d2 + 1
<1>1. n \in Nat \ {0} /\ t \in 1 .. n /\ b \in 1 .. n
  BY SeqDomain, TopAndBottom
<1>2. /\ Onward(c) = [k \in 1 .. m1 |-> c[((t + k - 2) % n) + 1]]
      /\ Backward(c) = [k \in 1 .. m2 |-> c[((t - k) % n) + 1]]
  BY DEF Onward, Backward
<1> HIDE DEF n, t, b
<1>3. /\ d1 = IF b >= t THEN b - t ELSE b - t + n
      /\ d2 = IF t >= b THEN t - b ELSE t - b + n
  <2>1. b >= t => d1 = b - t
    BY <1>1, ModIs
  <2>2. b < t => d1 = b - t + n
    <3> DEFINE r == b - t + n
    <3>1. b < t => r \in 0 .. n - 1 /\ b - t = r - n
      BY <1>1
    <3> HIDE DEF r
    <3>2. b < t => (b - t) % n = r
      BY <1>1, <3>1, ModIs
    <3> QED BY <3>2 DEF r
  <2>3. t >= b => d2 = t - b
    BY <1>1, ModIs
  <2>4. t < b => d2 = t - b + n
    <3> DEFINE r == t - b + n
    <3>1. t < b => r \in 0 .. n - 1 /\ t - b = r - n
      BY <1>1
    <3> HIDE DEF r
    <3>2. t < b => (t - b) % n = r
      BY <1>1, <3>1, ModIs
    <3> QED BY <3>2 DEF r
  <2> HIDE DEF d1, d2
  <2> QED BY <1>1, <2>1, <2>2, <2>3, <2>4
<1> HIDE DEF d1, d2
<1>4. m1 \in Nat \ {0} /\ m2 \in Nat \ {0}
  BY <1>1, <1>3
<1>5. /\ ((t + 1 - 2) % n) + 1 = t
      /\ ((t - 1) % n) + 1 = t
  <2>1. t - 1 \in 0 .. n - 1 /\ t + 1 - 2 = t - 1
    BY <1>1
  <2>2. (t - 1) % n = t - 1
    BY <1>1, <2>1, ModIs
  <2> QED BY <1>1, <2>1, <2>2
<1>6. ((t + m1 - 2) % n) + 1 = b
  <2> DEFINE r == b - 1
  <2>1. r \in 0 .. n - 1 /\ (t + m1 - 2 = r \/ t + m1 - 2 = r + n)
    BY <1>1, <1>3
  <2> HIDE DEF r, m1
  <2>2. (t + m1 - 2) % n = r
    BY <1>1, <2>1, ModIs
  <2> QED BY <1>1, <2>2 DEF r
<1>7. ((t - m2) % n) + 1 = b
  <2> DEFINE r == b - 1
  <2>1. r \in 0 .. n - 1 /\ (t - m2 = r \/ t - m2 = r - n)
    BY <1>1, <1>3
  <2> HIDE DEF r, m2
  <2>2. (t - m2) % n = r
    BY <1>1, <2>1, ModIs
  <2> QED BY <1>1, <2>2 DEF r
<1> HIDE DEF m1, m2
<1>8. Onward(c)[1] = c[t] /\ Onward(c)[m1] = c[b] /\ 1 \in DOMAIN Onward(c) /\ m1 \in DOMAIN Onward(c)
  BY <1>2, <1>4, <1>5, <1>6
<1>9. Backward(c)[1] = c[t] /\ Backward(c)[m2] = c[b] /\ 1 \in DOMAIN Backward(c) /\ m2 \in DOMAIN Backward(c)
  BY <1>2, <1>4, <1>5, <1>7
<1> QED BY <1>8, <1>9 DEF ToSet, t, b

\* Where there are two chains, both have the top and the bottom.
LEMMA SplitReaches ==
    ASSUME NEW c \in Seq(Point), c # << >>, SplitByCenter(c).left # << >>
    PROVE  \A chain \in {SplitByCenter(c).left, SplitByCenter(c).right} :
               c[TopOf(c)] \in ToSet(chain) /\ c[BottomOf(c)] \in ToSet(chain)
<1>1. Len(c) # 1
  BY DEF SplitByCenter
<1>2. /\ SplitByCenter(c).left \in {Onward(c), Backward(c)}
      /\ SplitByCenter(c).right \in {Onward(c), Backward(c)}
  BY <1>1 DEF SplitByCenter
<1> QED BY <1>2, ChainEnds

LEMMA SeqFrom ==
    ASSUME NEW U, NEW T, NEW s \in Seq(U), \A i \in DOMAIN s : s[i] \in T
    PROVE  s \in Seq(T)
<1>1. Len(s) \in Nat /\ s \in [1 .. Len(s) -> U]
  BY LenProperties, SeqDef
<1>2. s \in [1 .. Len(s) -> T]
  BY <1>1
<1> QED BY <1>1, <1>2, SeqDef

-----------------------------------------------------------------------------
(* Profiles. *)

\* Points at distinct heights, from top to bottom.
Profiles ==
    {s \in Seq(Point) : s # << >> /\ \A i, j \in DOMAIN s : i < j => s[i].y < s[j].y}

LEMMA PointsOfChain ==
    ASSUME NEW chain \in Seq(Point), chain # << >>
    PROVE  /\ IsFiniteSet(ToSet(chain)) /\ ToSet(chain) # {} /\ ToSet(chain) \subseteq Point
           /\ \A p \in ToSet(chain) : \E i \in DOMAIN chain : p = chain[i]
<1>1. IsFiniteSet(DOMAIN chain) /\ DOMAIN chain # {} /\ \A i \in DOMAIN chain : chain[i] \in Point
  BY SeqDomain
<1>2. ToSet(chain) = {chain[i] : i \in DOMAIN chain}
  BY DEF ToSet
<1>3. IsFiniteSet(ToSet(chain))
  BY <1>1, <1>2, ImageFinite
<1> QED BY <1>1, <1>2, <1>3

LEMMA ByHeightIsProfile ==
    ASSUME NEW S, IsFiniteSet(S), S # {}, S \subseteq Point,
           \A p, q \in S : p.y = q.y => p = q
    PROVE  /\ ByHeight(S) \in Profiles
           /\ \A i \in DOMAIN ByHeight(S) : ByHeight(S)[i] \in S
           /\ \A p \in S : \E i \in DOMAIN ByHeight(S) : ByHeight(S)[i] = p
<1> DEFINE key == [p \in S |-> p.y]
           n   == Cardinality(S)
           s   == InOrder(S, key)
<1>1. \A p \in S : key[p] = p.y /\ key[p] \in Int
  BY DEF Point
<1>2. \A p, q \in S : key[p] = key[q] => p = q
  BY <1>1
<1> HIDE DEF key
<1>3. /\ s \in [1 .. n -> S]
      /\ \A i, j \in 1 .. n : i < j => key[s[i]] < key[s[j]]
      /\ \A p \in S : \E i \in 1 .. n : s[i] = p
  <2>1. InOrder(S, key) \in [1 .. Cardinality(S) -> S]
    BY <1>1, <1>2, InOrderProperties
  <2>2. \A i, j \in 1 .. Cardinality(S) :
           i < j => key[InOrder(S, key)[i]] < key[InOrder(S, key)[j]]
    BY <1>1, <1>2, InOrderProperties
  <2>3. \A p \in S : \E i \in 1 .. Cardinality(S) : InOrder(S, key)[i] = p
    BY <1>1, <1>2, InOrderProperties
  <2> QED BY <2>1, <2>2, <2>3
<1>4. n \in Nat /\ n # 0
  BY FS_CardinalityType, FS_EmptySet
<1> HIDE DEF s, n
<1>5. s \in Seq(Point) /\ DOMAIN s = 1 .. n /\ s # << >>
  <2>1. s \in [1 .. n -> Point]
    BY <1>3
  <2>2. s \in Seq(Point)
    BY <1>4, <2>1, SeqDef
  <2>3. Len(s) = n
    BY <1>4, <2>1, <2>2, LenProperties
  <2> QED BY <1>3, <1>4, <2>2, <2>3, EmptySeq
<1>6. \A i, j \in 1 .. n : i < j => s[i].y < s[j].y
  <2> TAKE i, j \in 1 .. n
  <2> HAVE i < j
  <2>1. s[i] \in S /\ s[j] \in S
    BY <1>3
  <2>2. key[s[i]] < key[s[j]]
    BY <1>3
  <2> QED BY <1>1, <2>1, <2>2
<1>7. s \in Profiles
  BY <1>5, <1>6 DEF Profiles
<1>8. \A i \in DOMAIN s : s[i] \in S
  BY <1>3, <1>5
<1>9. \A p \in S : \E i \in DOMAIN s : s[i] = p
  BY <1>3, <1>5
<1> QED BY <1>7, <1>8, <1>9 DEF ByHeight, s, key

LEMMA ProfilesOfChain ==
    ASSUME NEW chain \in Seq(Point), chain # << >>
    PROVE  \A s \in {RightProfile(chain), LeftProfile(chain)} :
               /\ s \in Profiles
               /\ \A i \in DOMAIN s : s[i] \in ToSet(chain)
               /\ \A p \in ToSet(chain) : \E i \in DOMAIN s : s[i].y = p.y
<1> DEFINE S == ToSet(chain)
           Rs == {p \in S : \A q \in S : p.y = q.y => p.x >= q.x}
           Ls == {p \in S : \A q \in S : p.y = q.y => p.x <= q.x}
<1>1. IsFiniteSet(S) /\ S # {} /\ S \subseteq Point
  BY PointsOfChain
<1>2. RightProfile(chain) = ByHeight(Rs) /\ LeftProfile(chain) = ByHeight(Ls)
  BY DEF RightProfile, LeftProfile, Outermost
<1> HIDE DEF S
<1>3. \A p \in S : p.x \in Int /\ p.y \in Int
  BY <1>1 DEF Point
<1>4. \A p, q \in S : p.x = q.x /\ p.y = q.y => p = q
  BY <1>1 DEF Point
<1>5. IsFiniteSet(Rs) /\ IsFiniteSet(Ls) /\ Rs \subseteq Point /\ Ls \subseteq Point
  <2>1. Rs \in SUBSET S /\ Ls \in SUBSET S
    OBVIOUS
  <2> HIDE DEF Rs, Ls
  <2> QED BY <1>1, <2>1, FS_Subset
<1>6. /\ \A p, q \in Rs : p.y = q.y => p = q
      /\ \A p, q \in Ls : p.y = q.y => p = q
  <2>1. \A p, q \in Rs : p.y = q.y => p.x = q.x
    BY <1>3
  <2>2. \A p, q \in Ls : p.y = q.y => p.x = q.x
    BY <1>3
  <2> QED BY <1>4, <2>1, <2>2
<1>7. \A v \in S : \E p \in Rs : p.y = v.y
  <2> TAKE v \in S
  <2> DEFINE R == {u \in S \X S : u[1].x > u[2].x}
             V == {p \in S : p.y = v.y}
  <2>1. \A a, b \in S : <<a, b>> \in R <=> a.x > b.x
    OBVIOUS
  <2>2. v \in V /\ V \in SUBSET S
    OBVIOUS
  <2> HIDE DEF R, V
  <2>3. IsFiniteSet(V) /\ V # {}
    BY <1>1, <2>2, FS_Subset
  <2>4. \A a, b, c \in V : <<a, b>> \in R /\ <<b, c>> \in R => <<a, c>> \in R
    BY <1>3, <2>1, <2>2
  <2>5. \A a \in V : <<a, a>> \notin R
    BY <1>3, <2>1, <2>2
  <2>6. PICK p \in V : \A q \in V : <<q, p>> \notin R
    BY <2>3, <2>4, <2>5, Minimal
  <2>7. p \in S /\ p.y = v.y
    BY <2>6 DEF V
  <2>8. ASSUME NEW q \in S, p.y = q.y PROVE p.x >= q.x
    <3>1. q \in V
      BY <2>7, <2>8 DEF V
    <3>2. ~(q.x > p.x)
      BY <2>1, <2>2, <2>6, <3>1
    <3> QED BY <1>3, <2>7, <3>2
  <2>9. p \in Rs
    BY <2>7, <2>8
  <2> QED BY <2>7, <2>9
<1>8. \A v \in S : \E p \in Ls : p.y = v.y
  <2> TAKE v \in S
  <2> DEFINE R == {u \in S \X S : u[1].x < u[2].x}
             V == {p \in S : p.y = v.y}
  <2>1. \A a, b \in S : <<a, b>> \in R <=> a.x < b.x
    OBVIOUS
  <2>2. v \in V /\ V \in SUBSET S
    OBVIOUS
  <2> HIDE DEF R, V
  <2>3. IsFiniteSet(V) /\ V # {}
    BY <1>1, <2>2, FS_Subset
  <2>4. \A a, b, c \in V : <<a, b>> \in R /\ <<b, c>> \in R => <<a, c>> \in R
    BY <1>3, <2>1, <2>2
  <2>5. \A a \in V : <<a, a>> \notin R
    BY <1>3, <2>1, <2>2
  <2>6. PICK p \in V : \A q \in V : <<q, p>> \notin R
    BY <2>3, <2>4, <2>5, Minimal
  <2>7. p \in S /\ p.y = v.y
    BY <2>6 DEF V
  <2>8. ASSUME NEW q \in S, p.y = q.y PROVE p.x <= q.x
    <3>1. q \in V
      BY <2>7, <2>8 DEF V
    <3>2. ~(q.x < p.x)
      BY <2>1, <2>2, <2>6, <3>1
    <3> QED BY <1>3, <2>7, <3>2
  <2>9. p \in Ls
    BY <2>7, <2>8
  <2> QED BY <2>7, <2>9
<1>9. Rs \subseteq S /\ Ls \subseteq S /\ Rs # {} /\ Ls # {}
  BY <1>1, <1>7, <1>8
<1> HIDE DEF Rs, Ls
<1>10. ASSUME NEW O, O \in {Rs, Ls}
       PROVE  /\ ByHeight(O) \in Profiles
              /\ \A i \in DOMAIN ByHeight(O) : ByHeight(O)[i] \in S
              /\ \A p \in S : \E i \in DOMAIN ByHeight(O) : ByHeight(O)[i].y = p.y
  <2>1. IsFiniteSet(O) /\ O # {} /\ O \subseteq Point /\ \A p, q \in O : p.y = q.y => p = q
    BY <1>5, <1>6, <1>9, <1>10
  <2>2. ByHeight(O) \in Profiles
    BY <2>1, ByHeightIsProfile
  <2>3. \A i \in DOMAIN ByHeight(O) : ByHeight(O)[i] \in O
    BY <2>1, ByHeightIsProfile
  <2>4. \A p \in O : \E i \in DOMAIN ByHeight(O) : ByHeight(O)[i] = p
    BY <2>1, ByHeightIsProfile
  <2>5. ASSUME NEW p \in S PROVE \E i \in DOMAIN ByHeight(O) : ByHeight(O)[i].y = p.y
    <3>1. PICK o \in O : o.y = p.y
      BY <1>7, <1>8, <1>10
    <3>2. PICK i \in DOMAIN ByHeight(O) : ByHeight(O)[i] = o
      BY <2>4
    <3> QED BY <3>1, <3>2
  <2>6. O \subseteq S
    BY <1>9, <1>10
  <2>7. \A i \in DOMAIN ByHeight(O) : ByHeight(O)[i] \in S
    BY <2>3, <2>6
  <2> QED BY <2>2, <2>5, <2>7
<1>11. ASSUME NEW s \in {RightProfile(chain), LeftProfile(chain)}
       PROVE  /\ s \in Profiles
              /\ \A i \in DOMAIN s : s[i] \in S
              /\ \A p \in S : \E i \in DOMAIN s : s[i].y = p.y
  <2>1. PICK O \in {Rs, Ls} : s = ByHeight(O)
    BY <1>2
  <2> QED BY <1>10, <2>1
<1> QED BY <1>11 DEF S

\* The index that a sum of index and distance makes unique.
LEMMA ClosestExists ==
    ASSUME NEW D, IsFiniteSet(D), D # {}, NEW d, \A i \in D : i \in Int /\ d[i] \in Int
    PROVE  \E i \in D : \A j \in D : d[i] < d[j] \/ (d[i] = d[j] /\ i <= j)
<1> DEFINE g == [i \in D |-> 0]
<1>1. \A i \in D : i \in Int /\ d[i] \in Int /\ g[i] \in Int
  OBVIOUS
<1>2. \E i \in D : \A j \in D :
         \/ d[i] < d[j]
         \/ d[i] = d[j] /\ (g[i] < g[j] \/ (g[i] = g[j] /\ i <= j))
  <2> HIDE DEF g
  <2> QED BY <1>1, FirstLeast
<1> QED BY <1>2

LEMMA AbsIsInt == \A v \in Int : Abs(v) \in Int
BY DEF Abs, Greater

\* Neighbours on both sides of e, the first not at e, do not have the same x.
LEMMA CrossedApart ==
    ASSUME NEW a \in Int, NEW b \in Int, NEW e \in Int, (a - e) * (b - e) <= 0, a # e
    PROVE  b - a # 0 /\ b - a \in Int
<1>1. SUFFICES ASSUME a = b PROVE FALSE
  OBVIOUS
<1>2. a - e \in Int /\ a - e # 0
  OBVIOUS
<1> DEFINE v == a - e
<1>3. v * v <= 0 /\ v \in Int /\ v # 0
  BY <1>1, <1>2
<1> HIDE DEF v
<1>4. v > 0 => v * v > 0
  BY <1>3
<1>5. v < 0 => v * v > 0
  BY <1>3
<1> QED BY <1>3, <1>4, <1>5

LEMMA EntryIsPoint ==
    ASSUME NEW s \in Profiles, NEW e \in Int
    PROVE  Entry(s, e) \in Point
<1> DEFINE d(k) == Abs(s[k].x - e)
           crossed == {i \in 2 .. Len(s) : (s[i - 1].x - e) * (s[i].x - e) <= 0}
           closest == CHOOSE i \in DOMAIN s : \A j \in DOMAIN s :
                         d(i) < d(j) \/ (d(i) = d(j) /\ i <= j)
           i == Min(crossed)
           p == s[i - 1]
           q == s[i]
           y == IF crossed = {} THEN s[closest].y
                ELSE IF p.x = e THEN p.y
                ELSE p.y + Divide((e - p.x) * (q.y - p.y), q.x - p.x)
<1>1. /\ IsFiniteSet(DOMAIN s) /\ DOMAIN s # {} /\ DOMAIN s = 1 .. Len(s) /\ Len(s) \in Nat
      /\ \A k \in DOMAIN s : k \in Int /\ s[k].x \in Int /\ s[k].y \in Int
  <2>1. s \in Seq(Point) /\ s # << >>
    BY DEF Profiles
  <2>2. \A k \in DOMAIN s : k \in Int /\ s[k] \in Point
    BY <2>1, SeqDomain
  <2>3. IsFiniteSet(DOMAIN s) /\ DOMAIN s # {} /\ DOMAIN s = 1 .. Len(s) /\ Len(s) \in Nat
    BY <2>1, SeqDomain
  <2> QED BY <2>2, <2>3 DEF Point
<1>2. Entry(s, e) = [x |-> e, y |-> y]
  BY Zenon DEF Entry
<1>3. CASE crossed = {}
  <2> DEFINE f == [k \in DOMAIN s |-> d(k)]
  <2>1. \A k \in DOMAIN s : k \in Int /\ f[k] \in Int
    <3> TAKE k \in DOMAIN s
    <3>1. s[k].x - e \in Int
      BY <1>1
    <3>2. Abs(s[k].x - e) \in Int
      BY <3>1, AbsIsInt
    <3> QED BY <1>1, <3>2
  <2>2. \E k \in DOMAIN s : \A j \in DOMAIN s : f[k] < f[j] \/ (f[k] = f[j] /\ k <= j)
    <3> HIDE DEF f
    <3> QED BY <1>1, <2>1, ClosestExists
  <2>3. \E k \in DOMAIN s : \A j \in DOMAIN s : d(k) < d(j) \/ (d(k) = d(j) /\ k <= j)
    <3> HIDE DEF d
    <3> QED BY <2>2
  <2> HIDE DEF d
  <2>4. closest \in DOMAIN s
    BY <2>3
  <2> HIDE DEF closest, crossed
  <2> QED BY <1>1, <1>2, <1>3, <2>4 DEF Point
<1>4. CASE crossed # {}
  <2>1. crossed \subseteq Int /\ IsFiniteSet(crossed)
    <3>1. crossed \in SUBSET (DOMAIN s)
      BY <1>1
    <3> HIDE DEF crossed
    <3> QED BY <1>1, <3>1, FS_Subset
  <2>2. i \in crossed
    <3> HIDE DEF crossed
    <3> QED BY <1>4, <2>1, MinProperties
  <2>3. i - 1 \in DOMAIN s /\ i \in DOMAIN s /\ (p.x - e) * (q.x - e) <= 0
    <3> HIDE DEF i
    <3> QED BY <1>1, <2>2
  <2>4. p.x \in Int /\ p.y \in Int /\ q.x \in Int /\ q.y \in Int
    <3> HIDE DEF i
    <3> QED BY <1>1, <2>3
  <2> HIDE DEF p, q
  <2>5. p.x # e => Divide((e - p.x) * (q.y - p.y), q.x - p.x) \in Int
    <3> SUFFICES ASSUME p.x # e PROVE Divide((e - p.x) * (q.y - p.y), q.x - p.x) \in Int
      OBVIOUS
    <3>1. q.x - p.x # 0 /\ q.x - p.x \in Int
      BY <2>3, <2>4, CrossedApart
    <3>2. (e - p.x) * (q.y - p.y) \in Int
      BY <2>4
    <3> QED BY <3>1, <3>2, DivideIsInt
  <2>6. y \in Int
    <3> HIDE DEF crossed, closest
    <3> QED BY <1>4, <2>4, <2>5
  <2> HIDE DEF y
  <2> QED BY <1>2, <2>6 DEF Point
<1> QED BY <1>3, <1>4

\* What the profile has from the entry downwards.
LEMMA FromEntryBelow ==
    ASSUME NEW s \in Profiles, NEW entry \in Point
    PROVE  /\ FromEntry(s, entry) \in Seq(Point) /\ FromEntry(s, entry) # << >>
           /\ FromEntry(s, entry)[1] = entry
           /\ \A i \in DOMAIN FromEntry(s, entry) : FromEntry(s, entry)[i].y >= entry.y
<1> DEFINE at   == {i \in DOMAIN s : s[i].y > entry.y}
           rest == Pick(s, at)
           one  == <<entry>>
<1>1. /\ s \in Seq(Point) /\ \A i \in DOMAIN s : s[i] \in Point
      /\ entry.y \in Int
  <2>1. s \in Seq(Point)
    BY DEF Profiles
  <2> QED BY <2>1, SeqDomain DEF Point
<1>2. rest \in Seq(Point) /\ \A k \in DOMAIN rest : rest[k].y > entry.y
  <2>1. at \subseteq DOMAIN s
    OBVIOUS
  <2> HIDE DEF at
  <2>2. Pick(s, at) \in Seq(Point)
    BY <1>1, <2>1, PickProperties
  <2>3. /\ Len(rest) = Cardinality(at)
        /\ Ascending(at) \in [1 .. Cardinality(at) -> at]
        /\ \A k \in 1 .. Cardinality(at) : rest[k] = s[Ascending(at)[k]]
    BY <1>1, <2>1, PickProperties
  <2>4. DOMAIN rest = 1 .. Len(rest)
    BY <2>2, LenProperties
  <2> HIDE DEF rest
  <2>5. ASSUME NEW k \in DOMAIN rest PROVE rest[k].y > entry.y
    <3>1. k \in 1 .. Cardinality(at)
      BY <2>3, <2>4
    <3>2. Ascending(at)[k] \in at /\ rest[k] = s[Ascending(at)[k]]
      BY <2>3, <3>1
    <3> QED BY <3>2 DEF at
  <2> QED BY <2>2, <2>5 DEF rest
<1> HIDE DEF rest
<1>3. one \in Seq(Point) /\ Len(one) = 1 /\ one[1] = entry
  OBVIOUS
<1> HIDE DEF one
<1>4. FromEntry(s, entry) = one \o rest
  BY DEF FromEntry, one, rest
<1> DEFINE w == one \o rest
<1>5. /\ w \in Seq(Point) /\ Len(w) = 1 + Len(rest) /\ Len(rest) \in Nat
      /\ \A i \in 1 .. 1 + Len(rest) : w[i] = IF i <= 1 THEN one[i] ELSE rest[i - 1]
  <2>1. w \in Seq(Point) /\ Len(w) = Len(one) + Len(rest)
    BY <1>2, <1>3, ConcatProperties
  <2>2. \A i \in 1 .. Len(one) + Len(rest) :
           w[i] = IF i <= Len(one) THEN one[i] ELSE rest[i - Len(one)]
    BY <1>2, <1>3, ConcatProperties
  <2>3. Len(rest) \in Nat
    BY <1>2, LenProperties
  <2> HIDE DEF w
  <2> QED BY <1>3, <2>1, <2>2, <2>3
<1> HIDE DEF w
<1>6. DOMAIN w = 1 .. 1 + Len(rest) /\ DOMAIN rest = 1 .. Len(rest)
  BY <1>2, <1>5, LenProperties
<1>7. w[1] = entry
  BY <1>3, <1>5
<1>8. w # << >>
  BY <1>5, EmptySeq
<1>9. ASSUME NEW i \in DOMAIN w PROVE w[i].y >= entry.y
  <2>1. CASE i = 1
    BY <1>1, <1>7, <2>1
  <2>2. CASE i # 1
    <3>1. i - 1 \in DOMAIN rest /\ w[i] = rest[i - 1]
      BY <1>5, <1>6, <2>2
    <3>2. rest[i - 1].y > entry.y /\ rest[i - 1] \in Point
      BY <1>2, <3>1, SeqDomain
    <3>3. rest[i - 1].y \in Int
      BY <3>2 DEF Point
    <3> QED BY <1>1, <3>1, <3>2, <3>3
  <2> QED BY <2>1, <2>2
<1> QED BY <1>4, <1>5, <1>7, <1>8, <1>9 DEF w

\* A sample is no longer than what can be taught, and its first point is the first.
LEMMA SampleProperties ==
    ASSUME NEW s \in Seq(Point), s # << >>
    PROVE  /\ Sample(s) \in Seq(Point) /\ Len(Sample(s)) \in 1 .. MaxPoints
           /\ Sample(s)[1] = s[1]
           /\ \A k \in DOMAIN Sample(s) : \E i \in DOMAIN s : Sample(s)[k] = s[i]
<1>1. /\ Len(s) \in Nat /\ Len(s) >= 1 /\ DOMAIN s = 1 .. Len(s)
      /\ \A i \in DOMAIN s : s[i] \in Point
  BY SeqDomain
<1>2. MaxPoints \in Nat /\ MaxPoints > 1
  BY GlueAssumption
<1>3. CASE Len(s) <= MaxPoints
  BY <1>1, <1>2, <1>3 DEF Sample
<1>4. CASE ~(Len(s) <= MaxPoints)
  <2> DEFINE m == MaxPoints - 1
             l == Len(s) - 1
             at(k) == Round((k - 1) * l, m) + 1
             t == [k \in 1 .. MaxPoints |-> s[at(k)]]
  <2>1. Sample(s) = t
    BY <1>4 DEF Sample
  <2>2. m \in Nat \ {0} /\ l \in Nat
    BY <1>1, <1>2
  <2>3. \A k \in 1 .. MaxPoints : at(k) \in DOMAIN s
    <3> TAKE k \in 1 .. MaxPoints
    <3> DEFINE j == k - 1
    <3>1. j \in Nat /\ j <= m
      BY <1>2
    <3> HIDE DEF j, m, l
    <3>2. j * l \in Nat /\ j * l <= l * m
      BY <2>2, <3>1
    <3>3. Round(j * l, m) \in 0 .. l
      BY <2>2, <3>2, RoundBetween
    <3>4. Round(j * l, m) + 1 \in 1 .. l + 1
      BY <2>2, <3>3
    <3>5. l + 1 = Len(s)
      BY <1>1 DEF l
    <3> QED BY <1>1, <3>4, <3>5 DEF j
  <2>4. at(1) = 1
    <3> HIDE DEF m, l
    <3>1. (1 - 1) * l = 0 /\ 0 <= 0 * m
      BY <2>2
    <3>2. Round(0, m) \in 0 .. 0
      BY <2>2, <3>1, RoundBetween
    <3> QED BY <3>1, <3>2
  <2> HIDE DEF at, m, l
  <2>5. t \in [1 .. MaxPoints -> Point]
    BY <1>1, <2>3
  <2>6. t[1] = s[1]
    BY <1>2, <2>4
  <2>7. \A k \in 1 .. MaxPoints : \E i \in DOMAIN s : t[k] = s[i]
    BY <2>3
  <2> HIDE DEF t
  <2>8. t \in Seq(Point)
    BY <1>2, <2>5, SeqDef
  <2>9. Len(t) = MaxPoints /\ DOMAIN t = 1 .. MaxPoints
    BY <1>2, <2>5, <2>8, LenProperties
  <2> QED BY <1>2, <2>1, <2>6, <2>7, <2>8, <2>9
<1> QED BY <1>3, <1>4

LEMMA ProfileAtIsPoint ==
    ASSUME NEW s \in Profiles, NEW y \in Int
    PROVE  ProfileAt(s, y) \in Point
<1> DEFINE n == Len(s)
           S == {k \in 2 .. n : s[k].y >= y} \cup {n}
           i == Min(S)
<1>1. /\ n \in Nat /\ n >= 1 /\ DOMAIN s = 1 .. n /\ IsFiniteSet(DOMAIN s)
      /\ \A k \in DOMAIN s : s[k].x \in Int /\ s[k].y \in Int
  <2>1. s \in Seq(Point) /\ s # << >>
    BY DEF Profiles
  <2>2. \A k \in DOMAIN s : s[k] \in Point
    BY <2>1, SeqDomain
  <2>3. n \in Nat /\ n >= 1 /\ DOMAIN s = 1 .. n /\ IsFiniteSet(DOMAIN s)
    BY <2>1, SeqDomain
  <2> QED BY <2>2, <2>3 DEF Point
<1>2. ProfileAt(s, y) = [x |-> IF n = 1 THEN s[1].x ELSE XAt(s[i - 1], s[i], y), y |-> y]
  BY DEF ProfileAt
<1>3. CASE n = 1
  BY <1>1, <1>2, <1>3 DEF Point
<1>4. CASE n # 1
  <2> HIDE DEF n
  <2>1. S \in SUBSET (2 .. n) /\ S # {}
    BY <1>1, <1>4
  <2>2. i \in 2 .. n
    <3>1. S \subseteq Int /\ 2 .. n \subseteq DOMAIN s
      BY <1>1, <2>1
    <3> HIDE DEF S
    <3>2. IsFiniteSet(S)
      BY <1>1, <2>1, <3>1, FS_Subset
    <3>3. Min(S) \in S
      BY <2>1, <3>1, <3>2, MinProperties
    <3> QED BY <2>1, <3>3
  <2> HIDE DEF i
  <2>3. i - 1 \in DOMAIN s /\ i \in DOMAIN s /\ i - 1 < i
    BY <1>1, <2>2
  <2>4. s[i - 1].y < s[i].y
    BY <2>3 DEF Profiles
  <2> DEFINE p == s[i - 1]
             q == s[i]
  <2>5. p.x \in Int /\ p.y \in Int /\ q.x \in Int /\ q.y \in Int /\ p.y < q.y
    BY <1>1, <2>3, <2>4
  <2> HIDE DEF p, q
  <2>6. q.y - p.y \in Int /\ q.y - p.y # 0 /\ (y - p.y) * (q.x - p.x) \in Int
    BY <2>5
  <2>7. Divide((y - p.y) * (q.x - p.x), q.y - p.y) \in Int
    BY <2>6, DivideIsInt
  <2>8. XAt(p, q, y) \in Int
    BY <2>5, <2>7 DEF XAt
  <2> QED BY <1>2, <1>4, <2>8 DEF Point, p, q, n
<1> QED BY <1>3, <1>4

-----------------------------------------------------------------------------
(* The bottom row and OptimizePath. *)

LEMMA BottomSideIsPoint ==
    ASSUME NEW T, T \subseteq Point, NEW chain \in Seq(T), chain # << >>
    PROVE  /\ BottomSide(chain, LAMBDA x, z : x > z) \in T
           /\ BottomSide(chain, LAMBDA x, z : x < z) \in T
           /\ \A q \in ToSet(chain) : (\A p \in ToSet(chain) : p.y <= q.y) =>
                 /\ BottomSide(chain, LAMBDA x, z : x < z).x <= q.x
                 /\ q.x <= BottomSide(chain, LAMBDA x, z : x > z).x
<1> DEFINE ys   == {p.y : p \in ToSet(chain)}
           low  == Max(ys)
           near == {i \in DOMAIN chain :
                       \/ chain[i].y >= low - BottomBand * Grain
                       \/ 100 * chain[i].y >= 100 * low - 3 * (low - Min(ys))}
           r == CHOOSE i \in near : \A j \in near :
                   chain[i].x > chain[j].x \/ (chain[i].x = chain[j].x /\ i <= j)
           l == CHOOSE i \in near : \A j \in near :
                   chain[i].x < chain[j].x \/ (chain[i].x = chain[j].x /\ i <= j)
<1>1. /\ IsFiniteSet(DOMAIN chain)
      /\ \A i \in DOMAIN chain :
            i \in Int /\ chain[i] \in T /\ chain[i].x \in Int /\ chain[i].y \in Int
  <2>1. \A i \in DOMAIN chain : i \in Int /\ chain[i] \in T
    BY SeqDomain
  <2>2. IsFiniteSet(DOMAIN chain)
    BY SeqDomain
  <2> QED BY <2>1, <2>2 DEF Point
<1>2. /\ BottomSide(chain, LAMBDA x, z : x > z) = chain[r]
      /\ BottomSide(chain, LAMBDA x, z : x < z) = chain[l]
  BY Zenon DEF BottomSide
<1>3. low \in ys /\ low \in Int
  <2>1. IsFiniteSet(ToSet(chain)) /\ ToSet(chain) # {} /\ ToSet(chain) \subseteq Point
    BY SubSeqOf, PointsOfChain
  <2>2. ys # {} /\ ys \subseteq Int
    BY <2>1 DEF Point
  <2>3. IsFiniteSet(ys)
    <3> DEFINE h == [p \in ToSet(chain) |-> p.y]
    <3>1. ys = {h[p] : p \in ToSet(chain)}
      OBVIOUS
    <3> HIDE DEF h, ys
    <3> QED BY <2>1, <3>1, ImageFinite
  <2> HIDE DEF ys
  <2> QED BY <2>2, <2>3, MinProperties
<1>4. PICK k \in DOMAIN chain : chain[k].y = low
  <2> HIDE DEF low
  <2>1. PICK p \in ToSet(chain) : low = p.y
    BY <1>3
  <2> QED BY <2>1, SubSeqOf, PointsOfChain
<1>5. BottomBand * Grain \in Nat
  BY GlueAssumption
<1>l. ASSUME NEW q \in ToSet(chain), \A p \in ToSet(chain) : p.y <= q.y PROVE low <= q.y
  <2> HIDE DEF low
  <2>1. PICK p \in ToSet(chain) : low = p.y
    BY <1>3
  <2> QED BY <1>l, <2>1
<1> HIDE DEF low, ys
<1>6. k \in near
  <2>1. chain[k].y >= low - BottomBand * Grain
    BY <1>3, <1>4, <1>5
  <2> QED BY <2>1
<1>n. ASSUME NEW q \in ToSet(chain), \A p \in ToSet(chain) : p.y <= q.y
      PROVE  \E m \in near : q = chain[m]
  <2>1. PICK m \in DOMAIN chain : q = chain[m]
    BY SubSeqOf, PointsOfChain
  <2>2. low <= q.y
    BY <1>l, <1>n
  <2>3. chain[m].y \in Int
    BY <1>1
  <2>4. chain[m].y >= low - BottomBand * Grain
    BY <1>3, <1>5, <2>1, <2>2, <2>3
  <2>5. m \in near
    BY <2>4
  <2> QED BY <2>1, <2>5
<1>7. near \in SUBSET DOMAIN chain
  OBVIOUS
<1> HIDE DEF near
<1>8. IsFiniteSet(near) /\ near # {}
  BY <1>1, <1>6, <1>7, FS_Subset
<1>9. /\ l \in near
      /\ \A j \in near : chain[l].x < chain[j].x \/ (chain[l].x = chain[j].x /\ l <= j)
  <2> DEFINE f == [i \in near |-> chain[i].x]
  <2>1. \A i \in near : i \in Int /\ f[i] \in Int
    BY <1>1, <1>7
  <2>2. \E i \in near : \A j \in near : f[i] < f[j] \/ (f[i] = f[j] /\ i <= j)
    <3> HIDE DEF f
    <3> QED BY <1>8, <2>1, ClosestExists
  <2>3. \E i \in near : \A j \in near :
           chain[i].x < chain[j].x \/ (chain[i].x = chain[j].x /\ i <= j)
    BY <2>2
  <2> QED BY <2>3
<1>10. /\ r \in near
       /\ \A j \in near : chain[r].x > chain[j].x \/ (chain[r].x = chain[j].x /\ r <= j)
  <2> DEFINE f == [i \in near |-> -chain[i].x]
  <2>1. \A i \in near : i \in Int /\ f[i] \in Int
    BY <1>1, <1>7
  <2>2. PICK i \in near : \A j \in near : f[i] < f[j] \/ (f[i] = f[j] /\ i <= j)
    <3> HIDE DEF f
    <3> QED BY <1>8, <2>1, ClosestExists
  <2>3. \A j \in near : chain[i].x > chain[j].x \/ (chain[i].x = chain[j].x /\ i <= j)
    <3> TAKE j \in near
    <3>1. chain[i].x \in Int /\ chain[j].x \in Int /\ f[i] = -chain[i].x /\ f[j] = -chain[j].x
      BY <1>1, <1>7
    <3>2. f[i] < f[j] \/ (f[i] = f[j] /\ i <= j)
      BY <2>2
    <3> HIDE DEF f
    <3> QED BY <3>1, <3>2
  <2> QED BY <2>3
<1> HIDE DEF l, r
<1>11. ASSUME NEW q \in ToSet(chain), \A p \in ToSet(chain) : p.y <= q.y
       PROVE  chain[l].x <= q.x /\ q.x <= chain[r].x
  <2>1. PICK m \in near : q = chain[m]
    BY <1>n, <1>11
  <2>2. chain[m].x \in Int /\ chain[l].x \in Int /\ chain[r].x \in Int
    BY <1>1, <1>7, <1>9, <1>10
  <2> QED BY <1>9, <1>10, <2>1, <2>2
<1> QED BY <1>1, <1>2, <1>7, <1>9, <1>10, <1>11

\* A path with as many left as right points, and not more than are taught.
EvenSides == {p \in Sides : Len(p.left) = Len(p.right) /\ Len(p.right) <= MaxPoints}

\* No row but the last starts above the first one.
EntryFirst(p) == \A i \in 1 .. Len(p.right) - 1 : p.right[i].y >= p.right[1].y

\* The sides do not change places, in any row but one at the entry; and in the last row
\* not even there.
NotCrossed(p, e) ==
    \A i \in 1 .. Len(p.right) : p.left[i].x <= p.right[i].x \/ p.right[i].x = e
LowestMeets(p) ==
    Len(p.right) # 0 => p.left[Len(p.right)].x <= p.right[Len(p.right)].x

LEMMA NoPathIsEven == NoPath \in EvenSides /\ EntryFirst(NoPath) /\ LowestMeets(NoPath)
<1>1. << >> \in Seq(Point) /\ Len(<< >>) = 0 /\ MaxPoints \in Nat
  BY EmptySeq, GlueAssumption
<1> QED BY <1>1 DEF NoPath, EvenSides, Sides, EntryFirst, LowestMeets

LEMMA ReplaceLast ==
    ASSUME NEW T, NEW s \in Seq(T), s # << >>, NEW v \in T
    PROVE  /\ [s EXCEPT ![Len(s)] = v] \in Seq(T)
           /\ Len([s EXCEPT ![Len(s)] = v]) = Len(s)
           /\ \A i \in 1 .. Len(s) - 1 : [s EXCEPT ![Len(s)] = v][i] = s[i]
           /\ [s EXCEPT ![Len(s)] = v][Len(s)] = v
<1> DEFINE n == Len(s)
<1>1. n \in Nat /\ n >= 1 /\ s \in [1 .. n -> T]
  <2>1. n \in Nat /\ n >= 1 /\ DOMAIN s = 1 .. n
    BY SeqDomain
  <2>2. \A i \in 1 .. n : s[i] \in T
    BY <2>1, SeqDomain
  <2>3. s = [i \in 1 .. n |-> s[i]]
    BY LenProperties
  <2> QED BY <2>1, <2>2, <2>3
<1> HIDE DEF n
<1> DEFINE t == [s EXCEPT ![n] = v]
<1>2. t \in [1 .. n -> T] /\ t[n] = v /\ \A i \in 1 .. n - 1 : t[i] = s[i]
  BY <1>1
<1> HIDE DEF t
<1>3. t \in Seq(T)
  BY <1>1, <1>2, SeqDef
<1>4. Len(t) = n
  BY <1>1, <1>2, <1>3, LenProperties
<1> QED BY <1>2, <1>3, <1>4 DEF t, n

LEMMA LegacyBottomKeeps ==
    ASSUME NEW p \in EvenSides, p.right # << >>, EntryFirst(p), NEW sides \in Sides
    PROVE  /\ LegacyBottom(p, sides) \in EvenSides
           /\ EntryFirst(LegacyBottom(p, sides))
           /\ Len(LegacyBottom(p, sides).right) = Len(p.right)
<1> DEFINE n  == Len(p.right)
           rb == BottomSide(sides.right, LAMBDA x, z : x > z)
           lb == BottomSide(sides.left, LAMBDA x, z : x < z)
           w  == [x |-> lb.x, y |-> rb.y]
           left  == [p.left EXCEPT ![n] = w]
           right == [p.right EXCEPT ![n] = rb]
<1>1. CASE sides.left = << >> \/ sides.right = << >>
  BY <1>1 DEF LegacyBottom
<1>2. CASE ~(sides.left = << >> \/ sides.right = << >>)
  <2>1. LegacyBottom(p, sides) = [left |-> left, right |-> right]
    BY <1>2, Zenon DEF LegacyBottom
  <2>2. lb \in Point /\ rb \in Point
    <3>1. sides.left \in Seq(Point) /\ sides.left # << >>
      BY <1>2 DEF Sides
    <3>2. sides.right \in Seq(Point) /\ sides.right # << >>
      BY <1>2 DEF Sides
    <3> QED BY <3>1, <3>2, BottomSideIsPoint
  <2> HIDE DEF lb, rb
  <2>3. w \in Point
    BY <2>2 DEF Point
  <2> HIDE DEF w
  <2>4. /\ p.left \in Seq(Point) /\ p.right \in Seq(Point) /\ Len(p.left) = n
        /\ n <= MaxPoints /\ p.left # << >> /\ n \in Nat
    <3>1. p.left \in Seq(Point) /\ p.right \in Seq(Point) /\ Len(p.left) = n /\ n <= MaxPoints
      BY DEF EvenSides, Sides
    <3> QED BY <3>1, EmptySeq, LenProperties
  <2>5. left \in Seq(Point) /\ Len(left) = n
    BY <2>3, <2>4, ReplaceLast
  <2>6. /\ right \in Seq(Point) /\ Len(right) = n
        /\ \A i \in 1 .. n - 1 : right[i] = p.right[i]
    BY <2>2, <2>4, ReplaceLast
  <2> HIDE DEF left, right
  <2>7. \A i \in 1 .. n - 1 : right[i].y >= right[1].y
    <3> TAKE i \in 1 .. n - 1
    <3>1. 1 \in 1 .. n - 1
      BY <2>4
    <3>2. right[i] = p.right[i] /\ right[1] = p.right[1]
      BY <2>6, <3>1
    <3> QED BY <3>2 DEF EntryFirst
  <2> HIDE DEF n
  <2> QED BY <2>1, <2>4, <2>5, <2>6, <2>7 DEF EvenSides, Sides, EntryFirst, n
<1> QED BY <1>1, <1>2

\* Both chains end in the lowest point of the outline, so the outermost points near
\* their lower ends lie on either side of it.
LEMMA BottomSidesMeet ==
    ASSUME NEW c \in Seq(Point), c # << >>, SplitByCenter(c).left # << >>
    PROVE  BottomSide(SplitByCenter(c).left, LAMBDA x, z : x < z).x
              <= BottomSide(SplitByCenter(c).right, LAMBDA x, z : x > z).x
<1> DEFINE l == SplitByCenter(c).left
           r == SplitByCenter(c).right
           q == c[BottomOf(c)]
           T == {p \in Point : p.y <= q.y}
<1>1. c \in Seq(T) /\ T \subseteq Point
  <2>1. \A i \in DOMAIN c : c[i] \in Point /\ c[i].y <= q.y
    BY SeqDomain, TopAndBottom
  <2>2. \A i \in DOMAIN c : c[i] \in T
    BY <2>1
  <2>3. T \subseteq Point
    OBVIOUS
  <2> HIDE DEF T
  <2> QED BY <2>2, <2>3, SeqFrom
<1> HIDE DEF T
<1>2. l \in Seq(T) /\ r \in Seq(T) /\ l \in Seq(Point) /\ r \in Seq(Point) /\ r # << >>
  BY <1>1, SplitTyped DEF Sides
<1>3. q \in ToSet(l) /\ q \in ToSet(r)
  BY SplitReaches
<1>4. q.x \in Int
  <2>1. q \in Point
    BY SeqDomain, TopAndBottom
  <2> QED BY <2>1 DEF Point
<1> HIDE DEF l, r, q
<1>5. l # << >>
  BY DEF l
<1>6. \A chain \in {l, r} : \A p \in ToSet(chain) : p.y <= q.y
  <2> TAKE chain \in {l, r}
  <2> TAKE p \in ToSet(chain)
  <2>1. chain \in Seq(T) /\ chain \in Seq(Point) /\ chain # << >>
    BY <1>2, <1>5
  <2>2. PICK i \in DOMAIN chain : p = chain[i]
    BY <2>1, PointsOfChain
  <2>3. p \in T
    BY <2>1, <2>2, SeqDomain
  <2> QED BY <2>3 DEF T
<1>7. BottomSide(l, LAMBDA x, z : x < z).x <= q.x
  BY <1>2, <1>3, <1>5, <1>6, BottomSideIsPoint
<1>8. q.x <= BottomSide(r, LAMBDA x, z : x > z).x
  BY <1>2, <1>3, <1>6, BottomSideIsPoint
<1>9. BottomSide(l, LAMBDA x, z : x < z) \in Point /\ BottomSide(r, LAMBDA x, z : x > z) \in Point
  BY <1>2, <1>5, BottomSideIsPoint
<1> DEFINE lb == BottomSide(l, LAMBDA x, z : x < z)
           rb == BottomSide(r, LAMBDA x, z : x > z)
<1>10. lb.x \in Int /\ rb.x \in Int
  BY <1>9 DEF Point
<1>11. lb.x <= q.x /\ q.x <= rb.x
  BY <1>7, <1>8
<1> HIDE DEF lb, rb
<1>12. lb.x <= rb.x
  BY <1>4, <1>10, <1>11
<1> QED BY <1>12 DEF lb, rb, l, r

LEMMA LegacyBottomMeets ==
    ASSUME NEW p \in EvenSides, p.right # << >>, NEW c \in Seq(Point), c # << >>, NEW e
    PROVE  LET q == LegacyBottom(p, SplitByCenter(c))
           IN  /\ SplitByCenter(c).left # << >> => LowestMeets(q)
               /\ NotCrossed(p, e) => NotCrossed(q, e)
<1> DEFINE sides == SplitByCenter(c)
           n  == Len(p.right)
           rb == BottomSide(sides.right, LAMBDA x, z : x > z)
           lb == BottomSide(sides.left, LAMBDA x, z : x < z)
           w  == [x |-> lb.x, y |-> rb.y]
           left  == [p.left EXCEPT ![n] = w]
           right == [p.right EXCEPT ![n] = rb]
           q == LegacyBottom(p, sides)
<1> SUFFICES /\ sides.left # << >> => LowestMeets(q)
             /\ NotCrossed(p, e) => NotCrossed(q, e)
  OBVIOUS
<1>0. sides \in Sides /\ sides.right # << >>
  BY SplitTyped
<1>1. CASE sides.left = << >>
  BY <1>1 DEF LegacyBottom
<1>2. CASE sides.left # << >>
  <2>1. q = [left |-> left, right |-> right]
    BY <1>0, <1>2, Zenon DEF LegacyBottom
  <2>2. lb.x <= rb.x
    BY <1>2, BottomSidesMeet
  <2>3. lb \in Point /\ rb \in Point
    <3>1. sides.left \in Seq(Point) /\ sides.right \in Seq(Point)
      BY <1>0 DEF Sides
    <3> QED BY <1>0, <1>2, <3>1, BottomSideIsPoint
  <2> HIDE DEF lb, rb
  <2>4. w \in Point /\ w.x = lb.x
    BY <2>3 DEF Point
  <2> HIDE DEF w
  <2>5. /\ p.left \in Seq(Point) /\ p.right \in Seq(Point) /\ Len(p.left) = n
        /\ p.left # << >> /\ n \in Nat
    <3>1. p.left \in Seq(Point) /\ p.right \in Seq(Point) /\ Len(p.left) = n
      BY DEF EvenSides, Sides
    <3> QED BY <3>1, EmptySeq, LenProperties
  <2>6. left[n] = w /\ \A i \in 1 .. n - 1 : left[i] = p.left[i]
    BY <2>4, <2>5, ReplaceLast
  <2>7. /\ Len(right) = n /\ right[n] = rb
        /\ \A i \in 1 .. n - 1 : right[i] = p.right[i]
    BY <2>3, <2>5, ReplaceLast
  <2> HIDE DEF left, right, q
  <2>8. q.left = left /\ q.right = right /\ Len(q.right) = n
    BY <2>1, <2>7
  <2>9. q.left[n].x <= q.right[n].x
    BY <2>2, <2>4, <2>6, <2>7, <2>8
  <2>10. LowestMeets(q)
    BY <2>8, <2>9 DEF LowestMeets
  <2>11. ASSUME NotCrossed(p, e), NEW i \in 1 .. n
         PROVE  q.left[i].x <= q.right[i].x \/ q.right[i].x = e
    <3>1. CASE i = n
      BY <2>9, <3>1
    <3>2. CASE i # n
      <4>1. i \in 1 .. n - 1
        BY <2>5, <3>2
      <4> QED BY <2>6, <2>7, <2>8, <2>11, <4>1 DEF NotCrossed
    <3> QED BY <3>1, <3>2
  <2> QED BY <2>8, <2>10, <2>11 DEF NotCrossed
<1> QED BY <1>1, <1>2

\* A profile in a set, from an entry in the set on, sampled, stays in the set.
LEMMA SampledFrom ==
    ASSUME NEW T, T \subseteq Point, NEW s \in Profiles, \A k \in DOMAIN s : s[k] \in T,
           NEW entry \in T
    PROVE  /\ Sample(FromEntry(s, entry)) \in Seq(T)
           /\ Sample(FromEntry(s, entry)) # << >>
<1> DEFINE at   == {i \in DOMAIN s : s[i].y > entry.y}
           rest == Pick(s, at)
           w    == FromEntry(s, entry)
<1>1. s \in Seq(T)
  <2>1. s \in Seq(Point)
    BY DEF Profiles
  <2> QED BY <2>1, SeqFrom
<1>2. rest \in Seq(T)
  <2>1. at \subseteq DOMAIN s
    OBVIOUS
  <2> HIDE DEF at
  <2> QED BY <1>1, <2>1, PickProperties
<1>3. <<entry>> \in Seq(T)
  OBVIOUS
<1>4. w = <<entry>> \o rest
  BY DEF FromEntry
<1> HIDE DEF rest
<1>5. w \in Seq(T) /\ w # << >>
  <2>1. w \in Seq(T)
    BY <1>2, <1>3, <1>4, ConcatProperties
  <2>2. w # << >>
    BY FromEntryBelow
  <2> QED BY <2>1, <2>2
<1> HIDE DEF w
<1>6. w \in Seq(Point)
  BY <1>5, SubSeqOf
<1> DEFINE r == Sample(w)
<1>7. /\ r \in Seq(Point) /\ Len(r) \in 1 .. MaxPoints
      /\ \A k \in DOMAIN r : \E i \in DOMAIN w : r[k] = w[i]
  BY <1>5, <1>6, SampleProperties
<1> HIDE DEF r
<1>8. \A i \in DOMAIN w : w[i] \in T
  BY <1>5, SeqDomain
<1>9. \A k \in DOMAIN r : r[k] \in T
  BY <1>7, <1>8
<1>10. MaxPoints \in Nat
  BY GlueAssumption
<1> QED BY <1>7, <1>9, <1>10, SeqFrom, EmptySeq DEF r, w

\* The profiles of an outline do not cross: where the right one has a point, the left one
\* does not pass to the right of it.
ProfilesApart(c) ==
    LET sides == SplitByCenter(FilterByMask(c))
        prof  == RightProfile(sides.right)
        lprof == LeftProfile(sides.left)
    IN  sides.left # << >> =>
            \A k \in DOMAIN prof : ProfileAt(lprof, prof[k].y).x <= prof[k].x

\* What the optimizer yields, whatever it is given; it adds no crossing to those of the profiles.
LEMMA OptimizePathIsEven ==
    ASSUME NEW c \in Seq(Point), NEW e \in Int
    PROVE  /\ OptimizePath(c, e) \in EvenSides /\ EntryFirst(OptimizePath(c, e))
           /\ LowestMeets(OptimizePath(c, e))
           /\ ProfilesApart(c) => NotCrossed(OptimizePath(c, e), e)
<1> DEFINE d     == FilterByMask(c)
           sides == SplitByCenter(d)
           prof  == RightProfile(sides.right)
           entry == Entry(prof, e)
           below == FromEntry(prof, entry)
           right == Sample(below)
           lprof == LeftProfile(sides.left)
           left  == [i \in DOMAIN right |-> ProfileAt(lprof, right[i].y)]
           p     == [left |-> left, right |-> right]
<1>1. CASE d = << >> \/ sides.left = << >> \/ sides.right = << >>
  <2>1. OptimizePath(c, e) = NoPath
    BY <1>1, Zenon DEF OptimizePath
  <2>2. NotCrossed(NoPath, e)
    BY DEF NotCrossed, NoPath
  <2> QED BY <2>1, <2>2, NoPathIsEven
<1>2. CASE ~(d = << >> \/ sides.left = << >> \/ sides.right = << >>)
  <2>1. OptimizePath(c, e) = LegacyBottom(p, sides)
    BY <1>2, Zenon DEF OptimizePath
  <2>2. d \in Seq(Point) /\ d # << >>
    <3>1. {i \in DOMAIN c : InsideRoi(c[i])} \subseteq DOMAIN c
      OBVIOUS
    <3>2. d \in Seq(Point)
      BY <3>1, PickProperties DEF FilterByMask
    <3> QED BY <1>2, <3>2
  <2>a. ProfilesApart(c) => \A k \in DOMAIN prof : ProfileAt(lprof, prof[k].y).x <= prof[k].x
    BY <1>2 DEF ProfilesApart
  <2>b. entry.x = e
    BY DEF Entry
  <2> HIDE DEF d
  <2>3. sides \in Sides /\ sides.left # << >> /\ sides.right # << >>
    BY <1>2, <2>2, SplitTyped
  <2>4. sides.left \in Seq(Point) /\ sides.right \in Seq(Point)
    BY <2>3 DEF Sides
  <2> HIDE DEF sides
  <2>5. prof \in Profiles /\ lprof \in Profiles
    BY <2>3, <2>4, ProfilesOfChain
  <2> HIDE DEF prof, lprof
  <2>6. entry \in Point
    BY <2>5, EntryIsPoint
  <2> HIDE DEF entry
  <2>7. /\ below \in Seq(Point) /\ below # << >> /\ below[1] = entry
        /\ \A i \in DOMAIN below : below[i].y >= entry.y
    BY <2>5, <2>6, FromEntryBelow
  <2> HIDE DEF below
  <2>8. /\ right \in Seq(Point) /\ Len(right) \in 1 .. MaxPoints
        /\ right[1] = below[1]
        /\ \A k \in DOMAIN right : \E i \in DOMAIN below : right[k] = below[i]
    BY <2>7, SampleProperties
  <2>c. \A k \in DOMAIN right : right[k] = entry \/ \E i \in DOMAIN prof : right[k] = prof[i]
    <3> DEFINE T == {entry} \cup {prof[i] : i \in DOMAIN prof}
    <3>1. T \subseteq Point /\ entry \in T /\ \A i \in DOMAIN prof : prof[i] \in T
      BY <2>5, <2>6, SeqDomain DEF Profiles
    <3> HIDE DEF T
    <3>2. right \in Seq(T)
      BY <2>5, <3>1, SampledFrom DEF below
    <3>3. \A k \in DOMAIN right : right[k] \in T
      BY <3>2, SeqDomain
    <3> QED BY <3>3 DEF T
  <2> HIDE DEF right
  <2>9. DOMAIN right = 1 .. Len(right) /\ Len(right) \in Nat /\ right # << >>
    BY <2>8, LenProperties, EmptySeq
  <2>10. left \in [1 .. Len(right) -> Point]
    <3>1. \A i \in DOMAIN right : ProfileAt(lprof, right[i].y) \in Point
      <4> TAKE i \in DOMAIN right
      <4>1. right[i] \in Point
        BY <2>8, <2>9, ElementOfSeq
      <4>2. right[i].y \in Int
        BY <4>1 DEF Point
      <4> QED BY <2>5, <4>2, ProfileAtIsPoint
    <3> QED BY <2>9, <3>1
  <2>d. ASSUME ProfilesApart(c), NEW i \in 1 .. Len(right)
        PROVE  left[i].x <= right[i].x \/ right[i].x = e
    <3>1. left[i] = ProfileAt(lprof, right[i].y)
      BY <2>9
    <3> HIDE DEF left
    <3>2. right[i] = entry \/ \E k \in DOMAIN prof : right[i] = prof[k]
      BY <2>9, <2>c
    <3> QED BY <2>a, <2>b, <2>d, <3>1, <3>2
  <2> HIDE DEF left
  <2>11. left \in Seq(Point)
    BY <2>9, <2>10, SeqDef
  <2>12. Len(left) = Len(right)
    BY <2>9, <2>10, <2>11, LenProperties
  <2>13. p \in EvenSides /\ p.right # << >>
    BY <2>8, <2>9, <2>11, <2>12 DEF EvenSides, Sides
  <2>14. EntryFirst(p)
    <3>1. \A k \in 1 .. Len(right) - 1 : right[k].y >= right[1].y
      <4> TAKE k \in 1 .. Len(right) - 1
      <4>1. k \in DOMAIN right
        BY <2>9
      <4> QED BY <2>7, <2>8, <4>1
    <3> QED BY <3>1 DEF EntryFirst
  <2>e. ProfilesApart(c) => NotCrossed(p, e)
    BY <2>d DEF NotCrossed
  <2> HIDE DEF p
  <2>15. /\ LowestMeets(LegacyBottom(p, sides))
         /\ ProfilesApart(c) => NotCrossed(LegacyBottom(p, sides), e)
    BY <2>2, <2>3, <2>13, <2>e, LegacyBottomMeets DEF sides
  <2> QED BY <2>1, <2>3, <2>13, <2>14, <2>15, LegacyBottomKeeps
<1> QED BY <1>1, <1>2

-----------------------------------------------------------------------------
(* The scan. *)

LEMMA PointsOf ==
    ASSUME NEW c \in Seq(Point)
    PROVE  /\ Len(c) \in Nat /\ DOMAIN c = 1 .. Len(c) /\ IsFiniteSet(DOMAIN c)
           /\ \A i \in DOMAIN c : /\ c[i].x \in Int /\ c[i].y \in Int
                                  /\ (i % Len(c)) + 1 \in DOMAIN c
<1> DEFINE n == Len(c)
<1>1. \A i \in DOMAIN c : i \in Int /\ c[i] \in Point
  BY SeqDomain
<1>2. n \in Nat /\ DOMAIN c = 1 .. n /\ IsFiniteSet(DOMAIN c)
  BY SeqDomain
<1>3. ASSUME NEW i \in DOMAIN c PROVE (i % n) + 1 \in DOMAIN c
  <2> HIDE DEF n
  <2>1. n \in Nat \ {0} /\ i \in Int
    BY <1>2
  <2> DEFINE r == i % n
  <2>2. r \in 0 .. n - 1
    BY <2>1, ModBounds
  <2> HIDE DEF r
  <2>3. r + 1 \in 1 .. n
    BY <2>1, <2>2
  <2> QED BY <1>2, <2>3 DEF r
<1> QED BY <1>1, <1>2, <1>3 DEF Point

\* A horizontal line meets an outline in finitely many places.
LEMMA CrossingsFinite ==
    ASSUME NEW c \in Seq(Point), NEW y \in Int
    PROVE  /\ IsFiniteSet(Crossings(c, y)) /\ Crossings(c, y) \subseteq Int
           /\ IsFiniteSet(SafeCrossings(c, y)) /\ SafeCrossings(c, y) \subseteq Int
<1> DEFINE meet == [i \in DOMAIN c |->
                       LET p == c[i]
                           q == c[(i % Len(c)) + 1]
                       IN  IF y < Lesser(p.y, q.y) \/ y > Greater(p.y, q.y) THEN {}
                           ELSE IF p.y = q.y THEN {p.x, q.x}
                           ELSE {XAt(p, q, y)}]
           U == {meet[i] : i \in DOMAIN c}
<1>1. Crossings(c, y) = UNION U
  BY DEF Crossings
<1>2. \A i \in DOMAIN c : meet[i] \subseteq Int /\ IsFiniteSet(meet[i])
  <2> TAKE i \in DOMAIN c
  <2> DEFINE p == c[i]
             q == c[(i % Len(c)) + 1]
  <2>1. p.x \in Int /\ p.y \in Int /\ q.x \in Int /\ q.y \in Int
    BY PointsOf
  <2>2. meet[i] = IF y < Lesser(p.y, q.y) \/ y > Greater(p.y, q.y) THEN {}
                  ELSE IF p.y = q.y THEN {p.x, q.x}
                  ELSE {XAt(p, q, y)}
    BY Zenon
  <2> HIDE DEF p, q, meet
  <2>3. meet[i] = {} \/ meet[i] = {p.x, q.x} \/ (p.y # q.y /\ meet[i] = {XAt(p, q, y)})
    BY <2>2
  <2>4. p.y # q.y => XAt(p, q, y) \in Int
    <3> SUFFICES ASSUME p.y # q.y PROVE XAt(p, q, y) \in Int
      OBVIOUS
    <3>1. q.y - p.y \in Int /\ q.y - p.y # 0 /\ (y - p.y) * (q.x - p.x) \in Int
      BY <2>1
    <3>2. Divide((y - p.y) * (q.x - p.x), q.y - p.y) \in Int
      BY <3>1, DivideIsInt
    <3> QED BY <2>1, <3>2 DEF XAt
  <2>5. IsFiniteSet({}) /\ IsFiniteSet({p.x} \cup {q.x}) /\ IsFiniteSet({XAt(p, q, y)})
    BY FS_EmptySet, FS_Singleton, FS_Union
  <2>6. {p.x} \cup {q.x} = {p.x, q.x}
    OBVIOUS
  <2> QED BY <2>1, <2>3, <2>4, <2>5, <2>6
<1> HIDE DEF meet
<1>3. IsFiniteSet(U)
  BY PointsOf, ImageFinite
<1>4. \A T \in U : IsFiniteSet(T) /\ T \subseteq Int
  BY <1>2
<1> HIDE DEF U
<1>5. IsFiniteSet(Crossings(c, y)) /\ Crossings(c, y) \subseteq Int
  BY <1>1, <1>3, <1>4, FS_UNION
<1>6. SafeCrossings(c, y) \in SUBSET Crossings(c, y)
  BY DEF SafeCrossings
<1> QED BY <1>5, <1>6, FS_Subset

\* Two sides give two integers.
LEMMA TwoSidesBounds ==
    ASSUME NEW xs, IsFiniteSet(xs), xs \subseteq Int, TwoSides(xs)
    PROVE  Min(xs) \in Int /\ Max(xs) \in Int /\ Min(xs) <= Max(xs)
<1>1. xs # {}
  BY FS_EmptySet DEF TwoSides
<1> QED BY <1>1, MinProperties

LEMMA ScanRowsProperties ==
    ASSUME NEW c \in Seq(Point), c # << >>
    PROVE  /\ ScanRows(c) \in Seq(Int)
           /\ \A i \in DOMAIN ScanRows(c) : TwoSides(SafeCrossings(c, ScanRows(c)[i] * Grain))
<1> DEFINE ys == {p.y \div Grain : p \in ToSet(c)}
           S  == {y \in Min(ys) .. Max(ys) : TwoSides(SafeCrossings(c, y * Grain))}
           n  == Cardinality(S)
           s  == Ascending(S)
<1>1. Min(ys) \in Int /\ Max(ys) \in Int
  <2>1. IsFiniteSet(ToSet(c)) /\ ToSet(c) # {} /\ ToSet(c) \subseteq Point
    BY PointsOfChain
  <2>2. ys # {} /\ ys \subseteq Int
    <3>1. \A p \in ToSet(c) : p.y \div Grain \in Int
      <4> TAKE p \in ToSet(c)
      <4>1. p.y \in Int /\ Grain \in Nat \ {0}
        BY <2>1, GlueAssumption DEF Point
      <4> QED BY <4>1, DivBounds
    <3> QED BY <2>1, <3>1
  <2>3. IsFiniteSet(ys)
    <3> DEFINE h == [p \in ToSet(c) |-> p.y \div Grain]
    <3>1. ys = {h[p] : p \in ToSet(c)}
      OBVIOUS
    <3> HIDE DEF h, ys
    <3> QED BY <2>1, <3>1, ImageFinite
  <2> HIDE DEF ys
  <2> QED BY <2>2, <2>3, MinProperties
<1>2. ScanRows(c) = s
  BY DEF ScanRows
<1> HIDE DEF ys
<1>3. IsFiniteSet(S) /\ S \subseteq Int
  <2>1. S \in SUBSET (Min(ys) .. Max(ys))
    OBVIOUS
  <2>2. IsFiniteSet(Min(ys) .. Max(ys)) /\ Min(ys) .. Max(ys) \subseteq Int
    BY <1>1, FS_Interval
  <2> HIDE DEF S
  <2>3. IsFiniteSet(S)
    BY <2>1, <2>2, FS_Subset
  <2> QED BY <2>1, <2>2, <2>3
<1>4. \A y \in S : TwoSides(SafeCrossings(c, y * Grain))
  OBVIOUS
<1> HIDE DEF S
<1>5. s \in [1 .. n -> S] /\ n \in Nat
  BY <1>3, AscendingProperties, FS_CardinalityType
<1> HIDE DEF s, n
<1>6. s \in [1 .. n -> Int]
  BY <1>3, <1>5
<1>7. s \in Seq(Int)
  BY <1>5, <1>6, SeqDef
<1>8. \A i \in DOMAIN s : TwoSides(SafeCrossings(c, s[i] * Grain))
  BY <1>4, <1>5
<1> QED BY <1>2, <1>7, <1>8

LEMMA ScanEntryIsInt ==
    ASSUME NEW c \in Seq(Point), c # << >>, NEW rows, rows = ScanRows(c), Len(rows) >= 1,
           NEW e \in Int
    PROVE  ScanEntry(c, rows, e).y \in Int
<1> DEFINE rx(i)   == Max(SafeCrossings(c, rows[i] * Grain))
           crossed == {i \in 2 .. Len(rows) : /\ rows[i] = rows[i - 1] + 1
                                              /\ (rx(i - 1) - e) * (rx(i) - e) <= 0}
           closest == CHOOSE i \in DOMAIN rows : \A j \in DOMAIN rows :
                         Abs(rx(i) - e) < Abs(rx(j) - e)
                         \/ (Abs(rx(i) - e) = Abs(rx(j) - e) /\ i <= j)
           i  == Min(crossed)
           dx == rx(i) - rx(i - 1)
           y  == rows[i - 1] * Grain
                    + IF dx = 0 THEN 0 ELSE Divide((e - rx(i - 1)) * Grain, dx)
<1>1. /\ rows \in Seq(Int) /\ Len(rows) \in Nat /\ DOMAIN rows = 1 .. Len(rows)
      /\ IsFiniteSet(DOMAIN rows) /\ DOMAIN rows # {}
      /\ \A k \in DOMAIN rows : k \in Int /\ rows[k] \in Int
  <2>1. rows \in Seq(Int)
    BY ScanRowsProperties
  <2>2. Len(rows) \in Nat /\ DOMAIN rows = 1 .. Len(rows) /\ IsFiniteSet(DOMAIN rows)
    BY <2>1, SeqDomain
  <2>3. \A k \in DOMAIN rows : k \in Int /\ rows[k] \in Int
    BY <2>1, SeqDomain
  <2> QED BY <2>1, <2>2, <2>3
<1>2. \A k \in DOMAIN rows : rows[k] * Grain \in Int /\ rx(k) \in Int
  <2> TAKE k \in DOMAIN rows
  <2>1. rows[k] * Grain \in Int
    BY <1>1, GlueAssumption
  <2>2. TwoSides(SafeCrossings(c, rows[k] * Grain))
    BY ScanRowsProperties
  <2> QED BY <2>1, <2>2, CrossingsFinite, TwoSidesBounds
<1>3. ScanEntry(c, rows, e)
        = IF crossed = {} THEN [found |-> FALSE, y |-> rows[closest] * Grain]
                          ELSE [found |-> TRUE, y |-> y]
  BY Zenon DEF ScanEntry
<1>4. CASE crossed = {}
  <2> DEFINE d(k) == Abs(rx(k) - e)
             f == [k \in DOMAIN rows |-> d(k)]
  <2>1. \A k \in DOMAIN rows : k \in Int /\ f[k] \in Int
    <3> TAKE k \in DOMAIN rows
    <3>1. rx(k) - e \in Int
      BY <1>2
    <3> HIDE DEF rx
    <3>2. Abs(rx(k) - e) \in Int
      BY <3>1, AbsIsInt
    <3> QED BY <1>1, <3>2
  <2> HIDE DEF rx, crossed
  <2>2. \E k \in DOMAIN rows : \A j \in DOMAIN rows : f[k] < f[j] \/ (f[k] = f[j] /\ k <= j)
    <3> HIDE DEF f
    <3> QED BY <1>1, <2>1, ClosestExists
  <2>3. \E k \in DOMAIN rows : \A j \in DOMAIN rows :
           Abs(rx(k) - e) < Abs(rx(j) - e) \/ (Abs(rx(k) - e) = Abs(rx(j) - e) /\ k <= j)
    BY <2>2
  <2>4. closest \in DOMAIN rows
    BY <2>3
  <2> HIDE DEF closest
  <2> QED BY <1>2, <1>3, <1>4, <2>4
<1>5. CASE crossed # {}
  <2>1. crossed \in SUBSET DOMAIN rows /\ crossed \subseteq 2 .. Len(rows)
    BY <1>1
  <2>2. i \in crossed
    <3> HIDE DEF crossed
    <3>1. crossed \subseteq Int /\ IsFiniteSet(crossed)
      BY <1>1, <2>1, FS_Subset
    <3> QED BY <1>5, <3>1, MinProperties
  <2> HIDE DEF crossed, i
  <2>3. i \in DOMAIN rows /\ i - 1 \in DOMAIN rows
    BY <1>1, <2>1, <2>2
  <2>4. rx(i) \in Int /\ rx(i - 1) \in Int /\ rows[i - 1] * Grain \in Int
    BY <1>2, <2>3
  <2> HIDE DEF rx
  <2>5. dx \in Int /\ (e - rx(i - 1)) * Grain \in Int
    BY <2>4, GlueAssumption
  <2> HIDE DEF dx
  <2>6. dx # 0 => Divide((e - rx(i - 1)) * Grain, dx) \in Int
    BY <2>5, DivideIsInt
  <2>7. y \in Int
    BY <2>4, <2>6
  <2> HIDE DEF y
  <2> QED BY <1>3, <1>5, <2>7
<1> QED BY <1>4, <1>5

\* A scan is a path of MaxPoints rows from the entry downwards, or none.
LEMMA SynchronizedIsEven ==
    ASSUME NEW c \in Seq(Point), NEW e \in Int
    PROVE  LET scan == Synchronized(c, e)
           IN  \/ scan = NoPath
               \/ /\ scan \in EvenSides /\ Len(scan.right) = MaxPoints /\ EntryFirst(scan)
                  /\ NotCrossed(scan, e) /\ LowestMeets(scan)
<1> DEFINE rows   == ScanRows(c)
           entry  == ScanEntry(c, rows, e)
           line   == (Roi.y + Roi.height - 1) * Grain
           onLine == TwoSides(Crossings(c, line))
           bottom == IF onLine THEN line ELSE rows[Len(rows)] * Grain
           y(i)   == entry.y + ((bottom - entry.y) * (i - 1)) \div (MaxPoints - 1)
           xs(i)  == IF i = MaxPoints /\ onLine THEN Crossings(c, line)
                                                ELSE SafeCrossings(c, y(i))
           left   == [i \in 1 .. MaxPoints |-> [x |-> Min(xs(i)), y |-> y(i)]]
           right  == [i \in 1 .. MaxPoints |->
                         [x |-> IF i = 1 /\ entry.found THEN e ELSE Max(xs(i)), y |-> y(i)]]
           path   == [left |-> left, right |-> right]
           fails  == \/ Len(c) < 3
                     \/ Len(rows) < MaxPoints
                     \/ Lesser(line, bottom) <= entry.y
                     \/ \E i \in 1 .. MaxPoints : ~TwoSides(xs(i))
<1>1. Synchronized(c, e) = IF fails THEN NoPath ELSE LegacyBottom(path, SplitByCenter(c))
  BY Zenon DEF Synchronized
<1>2. CASE fails
  <2> HIDE DEF fails, path
  <2> QED BY <1>1, <1>2
<1>3. CASE ~fails
  <2>1. /\ ~(Len(c) < 3) /\ ~(Len(rows) < MaxPoints) /\ ~(Lesser(line, bottom) <= entry.y)
        /\ \A i \in 1 .. MaxPoints : TwoSides(xs(i))
    BY <1>3
  <2>2. Synchronized(c, e) = LegacyBottom(path, SplitByCenter(c))
    <3> HIDE DEF fails, path
    <3> QED BY <1>1, <1>3
  <2> HIDE DEF fails
  <2>3. MaxPoints \in Nat /\ MaxPoints > 1 /\ Grain \in Nat \ {0} /\ line \in Int
    BY GlueAssumption
  <2>4. c # << >> /\ Len(rows) \in Nat /\ Len(rows) >= 1
    <3>1. Len(<< >>) = 0
      OBVIOUS
    <3>2. c # << >>
      BY <2>1, <3>1
    <3>3. rows \in Seq(Int)
      BY <3>2, ScanRowsProperties
    <3>4. Len(rows) \in Nat
      BY <3>3, LenProperties
    <3> QED BY <2>1, <2>3, <3>2, <3>4
  <2>5. entry.y \in Int
    BY <2>4, ScanEntryIsInt
  <2>6. bottom \in Int
    <3>1. rows \in Seq(Int)
      BY <2>4, ScanRowsProperties
    <3>2. rows[Len(rows)] \in Int
      BY <2>4, <3>1, ElementOfSeq
    <3>3. rows[Len(rows)] * Grain \in Int
      <4> HIDE DEF rows
      <4> QED BY <2>3, <3>2
    <3> HIDE DEF onLine, rows, line
    <3> QED BY <2>3, <3>3
  <2> HIDE DEF rows, line
  <2>7. bottom > entry.y
    <3> HIDE DEF bottom, entry
    <3> QED BY <2>1, <2>3, <2>5, <2>6 DEF Lesser
  <2> HIDE DEF entry, bottom
  <2>8. \A i \in 1 .. MaxPoints : y(i) \in Int /\ y(i) >= y(1)
    <3> DEFINE h == bottom - entry.y
               d == MaxPoints - 1
    <3>1. h \in Nat /\ d \in Nat \ {0}
      BY <2>3, <2>5, <2>6, <2>7
    <3>2. \A i \in 1 .. MaxPoints : y(i) = entry.y + (h * (i - 1)) \div d
      OBVIOUS
    <3> HIDE DEF h, d
    <3>3. \A k \in Nat : h * k \in Nat
      BY <3>1
    <3>4. \A v \in Nat : v \div d \in Nat
      BY <3>1
    <3>5. \A i \in 1 .. MaxPoints : (h * (i - 1)) \div d \in Nat
      <4> TAKE i \in 1 .. MaxPoints
      <4>1. i - 1 \in Nat
        BY <2>3
      <4>2. h * (i - 1) \in Nat
        BY <3>3, <4>1
      <4> QED BY <3>4, <4>2
    <3>6. (h * (1 - 1)) \div d = 0
      <4>1. h * (1 - 1) = 0
        BY <3>1
      <4>2. 0 \div d = 0
        BY <3>1
      <4> QED BY <4>1, <4>2
    <3>7. 1 \in 1 .. MaxPoints
      BY <2>3
    <3>8. y(1) = entry.y
      BY <2>5, <3>2, <3>6, <3>7
    <3> HIDE DEF y
    <3>9. ASSUME NEW i \in 1 .. MaxPoints PROVE y(i) \in Int /\ y(i) >= y(1)
      <4>1. y(i) = entry.y + (h * (i - 1)) \div d
        BY <3>2
      <4>2. (h * (i - 1)) \div d \in Nat
        BY <3>5
      <4> DEFINE v == (h * (i - 1)) \div d
      <4> HIDE DEF v
      <4>3. v \in Nat /\ y(i) = entry.y + v
        BY <4>1, <4>2 DEF v
      <4> QED BY <2>5, <3>8, <4>3
    <3> QED BY <3>9
  <2> HIDE DEF y
  <2>9. \A i \in 1 .. MaxPoints : /\ Min(xs(i)) \in Int /\ Max(xs(i)) \in Int
                                  /\ Min(xs(i)) <= Max(xs(i))
    <3> TAKE i \in 1 .. MaxPoints
    <3>1. /\ IsFiniteSet(Crossings(c, line)) /\ Crossings(c, line) \subseteq Int
          /\ IsFiniteSet(SafeCrossings(c, y(i))) /\ SafeCrossings(c, y(i)) \subseteq Int
      BY <2>3, <2>8, CrossingsFinite
    <3>2. IsFiniteSet(xs(i)) /\ xs(i) \subseteq Int
      <4> HIDE DEF onLine
      <4> QED BY <3>1
    <3>3. TwoSides(xs(i))
      BY <2>1
    <3> HIDE DEF xs
    <3> QED BY <3>2, <3>3, TwoSidesBounds
  <2> HIDE DEF xs
  <2>10. left \in [1 .. MaxPoints -> Point] /\ right \in [1 .. MaxPoints -> Point]
    <3>1. \A i \in 1 .. MaxPoints : (IF i = 1 /\ entry.found THEN e ELSE Max(xs(i))) \in Int
      BY <2>9
    <3> QED BY <2>8, <2>9, <3>1 DEF Point
  <2>11. \A i \in 1 .. MaxPoints : right[i].y = y(i)
    OBVIOUS
  <2>u. \A i \in 1 .. MaxPoints : left[i].x <= right[i].x \/ right[i].x = e
    BY <2>9
  <2> HIDE DEF left, right
  <2>12. left \in Seq(Point) /\ right \in Seq(Point)
    BY <2>3, <2>10, SeqDef
  <2>13. Len(left) = MaxPoints /\ Len(right) = MaxPoints
    BY <2>3, <2>10, <2>12, LenProperties
  <2>14. path \in EvenSides /\ path.right # << >> /\ Len(path.right) = MaxPoints
    <3>1. right # << >>
      BY <2>3, <2>13
    <3> QED BY <2>3, <2>12, <2>13, <3>1 DEF EvenSides, Sides
  <2>15. EntryFirst(path)
    <3>1. \A i \in 1 .. MaxPoints - 1 : right[i].y >= right[1].y
      <4> TAKE i \in 1 .. MaxPoints - 1
      <4>1. i \in 1 .. MaxPoints /\ 1 \in 1 .. MaxPoints
        BY <2>3
      <4> QED BY <2>8, <2>11, <4>1
    <3> QED BY <2>13, <3>1 DEF EntryFirst
  <2>16. SplitByCenter(c) \in Sides
    BY <2>4, SplitTyped
  <2>17. NotCrossed(path, e)
    BY <2>13, <2>u DEF NotCrossed
  <2>18. SplitByCenter(c).left # << >>
    <3>1. Len(c) \in Nat
      BY <2>4, LenProperties
    <3>2. Len(c) # 1 /\ c # << >>
      <4> HIDE DEF path, onLine
      <4>1. ~(Len(c) < 3)
        BY <2>1
      <4>2. \A n \in Nat : ~(n < 3) => n # 1
        OBVIOUS
      <4>3. Len(c) # 1
        BY <3>1, <4>1, <4>2, Zenon
      <4> QED BY <2>4, <4>3
    <3>3. Point \subseteq Point
      OBVIOUS
    <3>4. Onward(c) # << >> /\ Backward(c) # << >>
      BY <2>4, <3>2, <3>3, ChainsAreSeqs
    <3> QED BY <3>2, <3>4 DEF SplitByCenter
  <2> HIDE DEF path
  <2>19. NotCrossed(LegacyBottom(path, SplitByCenter(c)), e)
    BY <2>4, <2>14, <2>17, LegacyBottomMeets
  <2>20. LowestMeets(LegacyBottom(path, SplitByCenter(c)))
    BY <2>4, <2>14, <2>18, LegacyBottomMeets
  <2> QED BY <2>2, <2>14, <2>15, <2>16, <2>19, <2>20, LegacyBottomKeeps
<1> QED BY <1>2, <1>3

-----------------------------------------------------------------------------
(* From an image to the two sides. *)

LEMMA AreaIsInt ==
    ASSUME NEW c \in Seq(Point)
    PROVE  Area(c) \in Int
<1> DEFINE f == [i \in DOMAIN c |-> LET q == c[(i % Len(c)) + 1]
                                    IN  c[i].x * q.y - q.x * c[i].y]
           sum == FoldFunction(LAMBDA a, b : a + b, 0, f)
<1>1. f \in [DOMAIN c -> Int]
  <2>1. \A i \in DOMAIN c : c[i].x * c[(i % Len(c)) + 1].y - c[(i % Len(c)) + 1].x * c[i].y \in Int
    <3> TAKE i \in DOMAIN c
    <3> DEFINE q == c[(i % Len(c)) + 1]
    <3>1. c[i].x \in Int /\ c[i].y \in Int /\ q.x \in Int /\ q.y \in Int
      BY PointsOf
    <3> HIDE DEF q
    <3>2. c[i].x * q.y - q.x * c[i].y \in Int
      BY <3>1
    <3> QED BY <3>2 DEF q
  <2> QED BY <2>1
<1>2. IsFiniteSet(DOMAIN c)
  BY PointsOf
<1>3. Area(c) = Abs(sum)
  BY Zenon DEF Area
<1> HIDE DEF f
<1>4. sum \in Int
  BY <1>1, <1>2, SumIsInt
<1> HIDE DEF sum
<1> QED BY <1>3, <1>4, AbsIsInt

\* The largest outline is one of them.
LEMMA LargestIsOne ==
    ASSUME NEW T, T \subseteq Point, NEW outlines \in Seq(Seq(T)), outlines # << >>
    PROVE  Largest(outlines) \in Seq(T)
<1> DEFINE D == DOMAIN outlines
           f == [i \in D |-> -Area(outlines[i])]
           at == CHOOSE i \in D : \A j \in D :
                    \/ Area(outlines[i]) > Area(outlines[j])
                    \/ Area(outlines[i]) = Area(outlines[j]) /\ i <= j
<1>1. /\ IsFiniteSet(D) /\ D # {}
      /\ \A i \in D : i \in Int /\ outlines[i] \in Seq(T)
  <2>1. IsFiniteSet(D) /\ D # {}
    BY SeqDomain
  <2>2. \A i \in D : i \in Int /\ outlines[i] \in Seq(T)
    BY SeqDomain
  <2> QED BY <2>1, <2>2
<1>2. \A i \in D : i \in Int /\ Area(outlines[i]) \in Int /\ f[i] = -Area(outlines[i])
  BY <1>1, SubSeqOf, AreaIsInt
<1>3. \A i \in D : i \in Int /\ f[i] \in Int
  BY <1>2
<1> HIDE DEF f
<1>4. PICK i \in D : \A j \in D : f[i] < f[j] \/ (f[i] = f[j] /\ i <= j)
  <2> HIDE DEF D
  <2> QED BY <1>1, <1>3, ClosestExists
<1>5. \A j \in D : \/ Area(outlines[i]) > Area(outlines[j])
                   \/ Area(outlines[i]) = Area(outlines[j]) /\ i <= j
  BY <1>2, <1>4
<1>6. at \in D
  BY <1>5
<1>7. Largest(outlines) = outlines[at]
  BY Zenon DEF Largest
<1> HIDE DEF at
<1> QED BY <1>1, <1>6, <1>7

LEMMA ScanIsEven ==
    ASSUME NEW outlines \in Seq(Seq(Point)), NEW type, NEW e \in Int
    PROVE  LET scan == Scan(outlines, type, e)
           IN  \/ scan = NoPath
               \/ /\ scan \in EvenSides /\ Len(scan.right) = MaxPoints /\ EntryFirst(scan)
                  /\ NotCrossed(scan, e) /\ LowestMeets(scan)
                  /\ type = 1
<1>1. CASE type = 1 /\ outlines # << >>
  <2>1. Largest(outlines) \in Seq(Point)
    BY <1>1, LargestIsOne
  <2>2. Scan(outlines, type, e) = Synchronized(Largest(outlines), e)
    BY <1>1 DEF Scan
  <2> QED BY <1>1, <2>1, <2>2, SynchronizedIsEven
<1>2. CASE ~(type = 1 /\ outlines # << >>)
  BY <1>2 DEF Scan
<1> QED BY <1>1, <1>2

LEMMA ReverseIsSeq ==
    ASSUME NEW T, NEW s \in Seq(T)
    PROVE  /\ Reverse(s) \in Seq(T) /\ Len(Reverse(s)) = Len(s)
           /\ \A i \in 1 .. Len(s) : Reverse(s)[i] = s[(Len(s) - i) + 1]
<1> DEFINE n == Len(s)
           r == [i \in 1 .. n |-> s[(n - i) + 1]]
<1>1. n \in Nat /\ \A i \in 1 .. n : s[i] \in T
  BY SeqDomain
<1>2. Reverse(s) = r
  BY DEF Reverse
<1> HIDE DEF n
<1>3. \A i \in 1 .. n : (n - i) + 1 \in 1 .. n
  BY <1>1
<1>4. r \in [1 .. n -> T] /\ \A i \in 1 .. n : r[i] = s[(n - i) + 1]
  BY <1>1, <1>3
<1> HIDE DEF r
<1>5. r \in Seq(T)
  BY <1>1, <1>4, SeqDef
<1>6. Len(r) = n
  BY <1>1, <1>4, <1>5, LenProperties
<1> QED BY <1>2, <1>4, <1>5, <1>6 DEF n

LEMMA PartOfSeq ==
    ASSUME NEW T, NEW s \in Seq(T), NEW m \in Nat \ {0}, NEW n \in Nat, m <= n + 1, n <= Len(s)
    PROVE  /\ SubSeq(s, m, n) \in Seq(T) /\ Len(SubSeq(s, m, n)) = n - m + 1
           /\ \A i \in 1 .. n - m + 1 : SubSeq(s, m, n)[i] = s[m + i - 1]
<1>1. Len(s) \in Nat /\ \A i \in 1 .. Len(s) : s[i] \in T
  BY SeqDomain
<1>2. \A i \in m .. n : s[i] \in T
  BY <1>1
<1>3. CASE m = n + 1
  BY <1>2, <1>3, SubSeqProperties
<1>4. CASE m # n + 1
  BY <1>2, <1>4, SubSeqProperties
<1> QED BY <1>3, <1>4

\* What Tool Path takes over from an image: as many left as right points, never more
\* than are taught, and, unless an outline is taken for a scan, no row but the last
\* starts above the entry; and sides that do not cross, in the bottom row at all, in any
\* other row but the entry for a scan, and for an outline unless its profiles cross.
THEOREM Extracted ==
    ASSUME NEW outlines \in Seq(Seq(Point)), NEW type, NEW e \in Int
    PROVE  LET scan  == Scan(outlines, type, e)
               trace == Trace(outlines, scan)
               raw   == Extract(trace, type, e)
           IN  /\ raw \in EvenSides
               /\ \/ EntryFirst(raw) /\ LowestMeets(raw)
                  \/ LooksScanned(trace, type) /\ scan = NoPath
               /\ \/ NotCrossed(raw, e)
                  \/ scan = NoPath /\ (LooksScanned(trace, type) \/ ~ProfilesApart(trace))
<1> DEFINE scan  == Scan(outlines, type, e)
           trace == Trace(outlines, scan)
           raw   == Extract(trace, type, e)
           back  == Reverse(scan.left)
<1> SUFFICES /\ raw \in EvenSides
             /\ \/ EntryFirst(raw) /\ LowestMeets(raw)
                \/ LooksScanned(trace, type) /\ scan = NoPath
             /\ \/ NotCrossed(raw, e)
                \/ scan = NoPath /\ (LooksScanned(trace, type) \/ ~ProfilesApart(trace))
  OBVIOUS
<1>1. \/ scan = NoPath
      \/ /\ scan \in EvenSides /\ Len(scan.right) = MaxPoints /\ EntryFirst(scan)
         /\ NotCrossed(scan, e) /\ LowestMeets(scan)
         /\ type = 1
  BY ScanIsEven
<1> HIDE DEF scan
<1>2. MaxPoints \in Nat /\ MaxPoints > 1
  BY GlueAssumption
<1>3. CASE scan = NoPath
  <2> DEFINE long == Pick(outlines, {i \in DOMAIN outlines : Len(outlines[i]) > 2})
  <2>1. trace = FlattenSeq(long)
    BY <1>3 DEF Trace
  <2>2. long \in Seq(Seq(Point))
    <3>1. {i \in DOMAIN outlines : Len(outlines[i]) > 2} \subseteq DOMAIN outlines
      OBVIOUS
    <3> QED BY <3>1, PickProperties
  <2> HIDE DEF long
  <2>3. trace \in Seq(Point)
    BY <2>1, <2>2, FlattenIsSeq
  <2> HIDE DEF trace
  <2>4. CASE trace = << >>
    <3>1. raw = NoPath
      BY <2>4 DEF Extract
    <3>2. NotCrossed(NoPath, e)
      BY DEF NotCrossed, NoPath
    <3> QED BY <3>1, <3>2, NoPathIsEven
  <2>5. CASE trace # << >> /\ LooksScanned(trace, type)
    <3> DEFINE l == SubSeq(trace, MaxPoints + 1, 2 * MaxPoints)
               r == SubSeq(trace, 1, MaxPoints)
    <3>1. raw = [left |-> Reverse(l), right |-> r]
      BY <2>5 DEF Extract
    <3>2. Len(trace) = 2 * MaxPoints
      BY <2>5 DEF LooksScanned
    <3>3. l \in Seq(Point) /\ Len(l) = 2 * MaxPoints - (MaxPoints + 1) + 1
      <4>1. MaxPoints + 1 \in Nat \ {0} /\ 2 * MaxPoints \in Nat /\ MaxPoints + 1 <= 2 * MaxPoints + 1
        BY <1>2
      <4>2. 2 * MaxPoints <= Len(trace)
        BY <1>2, <2>3, <3>2
      <4> QED BY <2>3, <3>2, <4>1, <4>2, PartOfSeq
    <3>4. r \in Seq(Point) /\ Len(r) = MaxPoints - 1 + 1
      <4>1. 1 \in Nat \ {0} /\ MaxPoints \in Nat /\ 1 <= MaxPoints + 1
        BY <1>2
      <4>2. MaxPoints <= Len(trace)
        BY <1>2, <2>3, <3>2
      <4> QED BY <2>3, <3>2, <4>1, <4>2, PartOfSeq
    <3> HIDE DEF l, r
    <3>5. Reverse(l) \in Seq(Point) /\ Len(Reverse(l)) = Len(l)
      BY <3>3, ReverseIsSeq
    <3>6. raw \in EvenSides
      BY <1>2, <3>1, <3>3, <3>4, <3>5 DEF EvenSides, Sides
    <3> QED BY <1>3, <2>5, <3>6
  <2>6. CASE trace # << >> /\ ~LooksScanned(trace, type)
    <3>1. raw = OptimizePath(trace, e)
      BY <2>6 DEF Extract
    <3> QED BY <1>3, <2>3, <3>1, OptimizePathIsEven
  <2> QED BY <2>4, <2>5, <2>6
<1>4. CASE scan # NoPath
  <2>1. /\ scan.left \in Seq(Point) /\ scan.right \in Seq(Point)
        /\ Len(scan.left) = MaxPoints /\ Len(scan.right) = MaxPoints
        /\ EntryFirst(scan) /\ NotCrossed(scan, e) /\ LowestMeets(scan) /\ type = 1
    BY <1>1, <1>4 DEF EvenSides, Sides
  <2>2. /\ back \in Seq(Point) /\ Len(back) = MaxPoints
        /\ \A i \in 1 .. MaxPoints : back[i] = scan.left[(MaxPoints - i) + 1]
    BY <2>1, ReverseIsSeq
  <2>3. trace = scan.right \o back
    BY <1>4 DEF Trace
  <2> HIDE DEF back, trace
  <2>4. trace \in Seq(Point) /\ Len(trace) = MaxPoints + MaxPoints
    <3>1. scan.right \o back \in Seq(Point)
      BY <2>1, <2>2, ConcatProperties
    <3>2. Len(scan.right \o back) = Len(scan.right) + Len(back)
      BY <2>1, <2>2, ConcatProperties
    <3> QED BY <2>1, <2>2, <2>3, <3>1, <3>2
  <2>5. \A i \in 1 .. MaxPoints : trace[i] = scan.right[i] /\ trace[MaxPoints + i] = back[i]
    <3>1. \A i \in 1 .. Len(scan.right) + Len(back) :
             trace[i] = IF i <= Len(scan.right) THEN scan.right[i]
                                                ELSE back[i - Len(scan.right)]
      BY <2>1, <2>2, <2>3, ConcatProperties
    <3> QED BY <1>2, <2>1, <2>2, <3>1
  <2> DEFINE l == SubSeq(trace, MaxPoints + 1, 2 * MaxPoints)
             r == SubSeq(trace, 1, MaxPoints)
  <2>6. raw = [left |-> Reverse(l), right |-> r]
    <3>1. trace # << >>
      BY <1>2, <2>4
    <3>2. LooksScanned(trace, type)
      BY <1>2, <2>1, <2>4 DEF LooksScanned
    <3> QED BY <3>1, <3>2 DEF Extract
  <2>7. /\ l \in Seq(Point) /\ Len(l) = 2 * MaxPoints - (MaxPoints + 1) + 1
        /\ \A i \in 1 .. 2 * MaxPoints - (MaxPoints + 1) + 1 :
              l[i] = trace[(MaxPoints + 1) + i - 1]
    <3>1. MaxPoints + 1 \in Nat \ {0} /\ 2 * MaxPoints \in Nat /\ MaxPoints + 1 <= 2 * MaxPoints + 1
      BY <1>2
    <3>2. 2 * MaxPoints <= Len(trace)
      BY <1>2, <2>4
    <3> QED BY <2>4, <3>1, <3>2, PartOfSeq
  <2>8. /\ r \in Seq(Point) /\ Len(r) = MaxPoints - 1 + 1
        /\ \A i \in 1 .. MaxPoints - 1 + 1 : r[i] = trace[1 + i - 1]
    <3>1. 1 \in Nat \ {0} /\ MaxPoints \in Nat /\ 1 <= MaxPoints + 1
      BY <1>2
    <3>2. MaxPoints <= Len(trace)
      BY <1>2, <2>4
    <3> QED BY <2>4, <3>1, <3>2, PartOfSeq
  <2> HIDE DEF l, r
  <2>9. /\ Reverse(l) \in Seq(Point) /\ Len(Reverse(l)) = Len(l)
        /\ \A i \in 1 .. Len(l) : Reverse(l)[i] = l[(Len(l) - i) + 1]
    BY <2>7, ReverseIsSeq
  <2>10. raw \in EvenSides /\ raw.right = r /\ raw.left = Reverse(l)
    BY <1>2, <2>6, <2>7, <2>8, <2>9 DEF EvenSides, Sides
  <2>11. \A i \in 1 .. MaxPoints : r[i] = scan.right[i]
    <3> TAKE i \in 1 .. MaxPoints
    <3>1. i \in 1 .. MaxPoints - 1 + 1 /\ 1 + i - 1 = i
      BY <1>2
    <3>2. r[i] = trace[1 + i - 1]
      BY <2>8, <3>1
    <3> QED BY <2>5, <3>1, <3>2
  <2>12. \A i \in 1 .. MaxPoints - 1 : r[i].y >= r[1].y
    <3> TAKE i \in 1 .. MaxPoints - 1
    <3>1. i \in 1 .. MaxPoints /\ 1 \in 1 .. MaxPoints
      BY <1>2
    <3>2. scan.right[i].y >= scan.right[1].y
      BY <2>1 DEF EntryFirst
    <3> QED BY <2>11, <3>1, <3>2
  <2>13. EntryFirst(raw)
    BY <1>2, <2>8, <2>10, <2>12 DEF EntryFirst
  <2>14. \A i \in 1 .. MaxPoints : raw.left[i] = scan.left[i]
    <3> TAKE i \in 1 .. MaxPoints
    <3> DEFINE k == (MaxPoints - i) + 1
    <3>0. Len(l) = MaxPoints
      <4>1. Len(l) = 2 * MaxPoints - (MaxPoints + 1) + 1
        BY <2>7
      <4> QED BY <1>2, <4>1
    <3>1. k \in 1 .. MaxPoints /\ (MaxPoints - k) + 1 = i /\ Len(l) = MaxPoints
      <4>1. k \in 1 .. MaxPoints /\ (MaxPoints - k) + 1 = i
        BY <1>2
      <4> QED BY <3>0, <4>1
    <3>2. raw.left[i] = l[k]
      BY <2>9, <2>10, <3>1
    <3> HIDE DEF k
    <3>3. k \in 1 .. 2 * MaxPoints - (MaxPoints + 1) + 1 /\ (MaxPoints + 1) + k - 1 = MaxPoints + k
      BY <1>2, <3>1
    <3>4. l[k] = trace[MaxPoints + k]
      BY <2>7, <3>3
    <3>5. trace[MaxPoints + k] = back[k] /\ back[k] = scan.left[(MaxPoints - k) + 1]
      BY <2>2, <2>5, <3>1
    <3> QED BY <3>1, <3>2, <3>4, <3>5
  <2>15. Len(raw.right) = MaxPoints /\ MaxPoints \in 1 .. MaxPoints
    BY <1>2, <2>8, <2>10
  <2>16. NotCrossed(raw, e) /\ LowestMeets(raw)
    BY <1>2, <2>1, <2>10, <2>11, <2>14, <2>15 DEF NotCrossed, LowestMeets
  <2> QED BY <2>10, <2>13, <2>16
<1> QED BY <1>3, <1>4

-----------------------------------------------------------------------------
(* Inside the outlines: whatever is computed from points in a rectangle stays  *)
(* in it, since values are interpolated between points and never prolonged.    *)

Boxes == [x1 : Int, x2 : Int, y1 : Int, y2 : Int]

\* The points in a rectangle, and those that may also be put at the entry.
Inside(b) == {p \in Point : p.x \in b.x1 .. b.x2 /\ p.y \in b.y1 .. b.y2}
InsideOr(b, e) == {p \in Point : p.y \in b.y1 .. b.y2 /\ (p.x = e \/ p.x \in b.x1 .. b.x2)}

\* A part of a stretch is not longer than the stretch.
LEMMA PartOfStretch ==
    ASSUME NEW s \in Nat, NEW h \in Nat \ {0}, s <= h, NEW w \in Int
    PROVE  /\ (s * w) \div h \in Int
           /\ w >= 0 => (s * w) \div h \in 0 .. w
           /\ w <= 0 => (s * w) \div h \in w .. 0
<1> DEFINE v == (s * w) \div h
<1>1. s * w \in Int
  OBVIOUS
<1>2. v \in Int /\ h * v <= s * w /\ s * w < h * v + h
  BY <1>1, DivBounds
<1> HIDE DEF v
<1>3. ASSUME w >= 0 PROVE v \in 0 .. w
  <2>1. 0 <= s * w /\ s * w <= h * w
    BY <1>3
  <2>2. h * v <= h * w /\ 0 < h * (v + 1)
    BY <1>2, <2>1
  <2>3. v <= w
    BY <1>2, <2>2
  <2>4. 0 < v + 1
    BY <1>2, <2>2
  <2> QED BY <1>2, <1>3, <2>3, <2>4
<1>4. ASSUME w <= 0 PROVE v \in w .. 0
  <2>1. s * w <= 0 /\ h * w <= s * w
    BY <1>4
  <2>2. h * v <= 0 /\ h * w < h * (v + 1)
    BY <1>2, <2>1
  <2>3. v <= 0
    BY <1>2, <2>2
  <2>4. w < v + 1
    BY <1>2, <2>2
  <2> QED BY <1>2, <1>4, <2>3, <2>4
<1> QED BY <1>2, <1>3, <1>4 DEF v

\* What is interpolated at t between two places lies between their values, rounding
\* included.
LEMMA Interpolated ==
    ASSUME NEW t \in Int, NEW t1 \in Int, NEW t2 \in Int, t1 # t2,
           (t1 <= t /\ t <= t2) \/ (t2 <= t /\ t <= t1),
           NEW lo \in Int, NEW hi \in Int, NEW v1 \in lo .. hi, NEW v2 \in lo .. hi
    PROVE  v1 + Divide((t - t1) * (v2 - v1), t2 - t1) \in lo .. hi
<1> DEFINE w == v2 - v1
           d == Divide((t - t1) * w, t2 - t1)
<1>1. w \in Int
  OBVIOUS
<1>2. CASE t1 < t2
  <2> DEFINE s == t - t1
             h == t2 - t1
  <2>1. s \in Nat /\ h \in Nat \ {0} /\ s <= h
    BY <1>2
  <2>2. d = (s * w) \div h
    BY <2>1 DEF Divide
  <2> HIDE DEF s, h, d
  <2>3. d \in Int /\ (w >= 0 => d \in 0 .. w) /\ (w <= 0 => d \in w .. 0)
    BY <1>1, <2>1, <2>2, PartOfStretch
  <2> QED BY <2>3 DEF d
<1>3. CASE t2 < t1
  <2> DEFINE s == t1 - t
             h == t1 - t2
  <2>1. s \in Nat /\ h \in Nat \ {0} /\ s <= h
    BY <1>3
  <2>2. d = (s * w) \div h
    <3>1. ~(t2 - t1 > 0) /\ -(t2 - t1) = h /\ -((t - t1) * w) = s * w
      BY <1>1, <1>3
    <3> QED BY <3>1 DEF Divide
  <2> HIDE DEF s, h, d
  <2>3. d \in Int /\ (w >= 0 => d \in 0 .. w) /\ (w <= 0 => d \in w .. 0)
    BY <1>1, <2>1, <2>2, PartOfStretch
  <2> QED BY <2>3 DEF d
<1> QED BY <1>2, <1>3

\* Neighbours on both sides of e have it between them.
LEMMA CrossedBetween ==
    ASSUME NEW a \in Int, NEW b \in Int, NEW e \in Int, (a - e) * (b - e) <= 0
    PROVE  (a <= e /\ e <= b) \/ (b <= e /\ e <= a)
<1> DEFINE u == a - e
           v == b - e
<1>1. u \in Int /\ v \in Int /\ u * v <= 0
  OBVIOUS
<1> HIDE DEF u, v
<1>2. ~(u > 0 /\ v > 0) /\ ~(u < 0 /\ v < 0)
  BY <1>1
<1> QED BY <1>1, <1>2 DEF u, v

LEMMA XAtInside ==
    ASSUME NEW b \in Boxes, NEW p \in Inside(b), NEW q \in Inside(b), p.y # q.y,
           NEW y \in Int, (p.y <= y /\ y <= q.y) \/ (q.y <= y /\ y <= p.y)
    PROVE  XAt(p, q, y) \in b.x1 .. b.x2
<1>1. /\ b.x1 \in Int /\ b.x2 \in Int /\ p.y \in Int /\ q.y \in Int
      /\ p.x \in b.x1 .. b.x2 /\ q.x \in b.x1 .. b.x2
  BY DEF Boxes, Inside, Point
<1>2. p.x + Divide((y - p.y) * (q.x - p.x), q.y - p.y) \in b.x1 .. b.x2
  BY <1>1, Interpolated
<1> QED BY <1>2 DEF XAt

-----------------------------------------------------------------------------
(* Both chains of an outline reach from its top to its bottom. *)

-----------------------------------------------------------------------------
(* OptimizePath. *)

LEMMA EntryInside ==
    ASSUME NEW b \in Boxes, NEW s \in Profiles, \A k \in DOMAIN s : s[k] \in Inside(b), NEW e \in Int
    PROVE  Entry(s, e) \in InsideOr(b, e)
<1> DEFINE d(k) == Abs(s[k].x - e)
           crossed == {i \in 2 .. Len(s) : (s[i - 1].x - e) * (s[i].x - e) <= 0}
           closest == CHOOSE i \in DOMAIN s : \A j \in DOMAIN s :
                         d(i) < d(j) \/ (d(i) = d(j) /\ i <= j)
           i == Min(crossed)
           p == s[i - 1]
           q == s[i]
           y == IF crossed = {} THEN s[closest].y
                ELSE IF p.x = e THEN p.y
                ELSE p.y + Divide((e - p.x) * (q.y - p.y), q.x - p.x)
<1>1. /\ IsFiniteSet(DOMAIN s) /\ DOMAIN s # {} /\ DOMAIN s = 1 .. Len(s) /\ Len(s) \in Nat
      /\ \A k \in DOMAIN s : k \in Int /\ s[k].x \in Int /\ s[k].y \in Int
  <2>1. s \in Seq(Point) /\ s # << >>
    BY DEF Profiles
  <2>2. \A k \in DOMAIN s : k \in Int /\ s[k] \in Point
    BY <2>1, SeqDomain
  <2>3. IsFiniteSet(DOMAIN s) /\ DOMAIN s # {} /\ DOMAIN s = 1 .. Len(s) /\ Len(s) \in Nat
    BY <2>1, SeqDomain
  <2> QED BY <2>2, <2>3 DEF Point
<1>2. Entry(s, e) = [x |-> e, y |-> y]
  BY Zenon DEF Entry
<1>3. b.y1 \in Int /\ b.y2 \in Int /\ \A k \in DOMAIN s : s[k].y \in b.y1 .. b.y2
  BY DEF Boxes, Inside
<1>4. CASE crossed = {}
  <2> DEFINE f == [k \in DOMAIN s |-> d(k)]
  <2>1. \A k \in DOMAIN s : k \in Int /\ f[k] \in Int
    <3> TAKE k \in DOMAIN s
    <3>1. s[k].x - e \in Int
      BY <1>1
    <3>2. Abs(s[k].x - e) \in Int
      BY <3>1, AbsIsInt
    <3> QED BY <1>1, <3>2
  <2>2. \E k \in DOMAIN s : \A j \in DOMAIN s : f[k] < f[j] \/ (f[k] = f[j] /\ k <= j)
    <3> HIDE DEF f
    <3> QED BY <1>1, <2>1, ClosestExists
  <2>3. \E k \in DOMAIN s : \A j \in DOMAIN s : d(k) < d(j) \/ (d(k) = d(j) /\ k <= j)
    <3> HIDE DEF d
    <3> QED BY <2>2
  <2> HIDE DEF d
  <2>4. closest \in DOMAIN s
    BY <2>3
  <2> HIDE DEF closest, crossed
  <2>5. y \in b.y1 .. b.y2
    BY <1>3, <1>4, <2>4
  <2> HIDE DEF y
  <2> QED BY <1>2, <1>3, <2>5 DEF Point, InsideOr
<1>5. CASE crossed # {}
  <2>1. crossed \subseteq Int /\ IsFiniteSet(crossed)
    <3>1. crossed \in SUBSET (DOMAIN s)
      BY <1>1
    <3> HIDE DEF crossed
    <3> QED BY <1>1, <3>1, FS_Subset
  <2>2. i \in crossed
    <3> HIDE DEF crossed
    <3> QED BY <1>5, <2>1, MinProperties
  <2>3. i - 1 \in DOMAIN s /\ i \in DOMAIN s /\ (p.x - e) * (q.x - e) <= 0
    <3> HIDE DEF i
    <3> QED BY <1>1, <2>2
  <2>4. /\ p.x \in Int /\ p.y \in Int /\ q.x \in Int /\ q.y \in Int
        /\ p.y \in b.y1 .. b.y2 /\ q.y \in b.y1 .. b.y2
    <3> HIDE DEF i
    <3> QED BY <1>1, <1>3, <2>3
  <2> HIDE DEF p, q
  <2>5. ASSUME p.x # e
        PROVE  p.y + Divide((e - p.x) * (q.y - p.y), q.x - p.x) \in b.y1 .. b.y2
    <3>1. q.x - p.x # 0
      BY <2>3, <2>4, <2>5, CrossedApart
    <3>2. (p.x <= e /\ e <= q.x) \/ (q.x <= e /\ e <= p.x)
      BY <2>3, <2>4, CrossedBetween
    <3>3. p.x # q.x
      BY <2>4, <3>1
    <3> QED BY <1>3, <2>4, <3>2, <3>3, Interpolated
  <2>6. y \in b.y1 .. b.y2
    <3> HIDE DEF crossed, closest
    <3> QED BY <1>5, <2>4, <2>5
  <2> HIDE DEF y
  <2> QED BY <1>2, <1>3, <2>6 DEF Point, InsideOr
<1> QED BY <1>4, <1>5

\* Between the first and the last height of a profile nothing is prolonged.
LEMMA ProfileAtInside ==
    ASSUME NEW b \in Boxes, NEW s \in Profiles, \A k \in DOMAIN s : s[k] \in Inside(b),
           NEW y \in Int, \E k \in DOMAIN s : s[k].y <= y, \E k \in DOMAIN s : y <= s[k].y
    PROVE  ProfileAt(s, y) \in Inside(b)
<1> DEFINE n == Len(s)
           S == {k \in 2 .. n : s[k].y >= y} \cup {n}
           i == Min(S)
<1>1. /\ n \in Nat /\ n >= 1 /\ DOMAIN s = 1 .. n
      /\ \A k \in DOMAIN s : s[k].x \in Int /\ s[k].y \in Int
      /\ \A j, k \in 1 .. n : j < k => s[j].y < s[k].y
  <2>1. s \in Seq(Point) /\ s # << >>
    BY DEF Profiles
  <2>2. \A k \in DOMAIN s : s[k] \in Point
    BY <2>1, SeqDomain
  <2>3. n \in Nat /\ n >= 1 /\ DOMAIN s = 1 .. n
    BY <2>1, SeqDomain
  <2> QED BY <2>2, <2>3 DEF Point, Profiles
<1>2. ProfileAt(s, y) = [x |-> IF n = 1 THEN s[1].x ELSE XAt(s[i - 1], s[i], y), y |-> y]
  BY DEF ProfileAt
<1>3. /\ b.x1 \in Int /\ b.x2 \in Int /\ b.y1 \in Int /\ b.y2 \in Int
      /\ \A k \in DOMAIN s : s[k].x \in b.x1 .. b.x2 /\ s[k].y \in b.y1 .. b.y2
  BY DEF Boxes, Inside
<1>4. s[1].y <= y /\ y <= s[n].y
  <2>1. PICK j \in DOMAIN s : s[j].y <= y
    OBVIOUS
  <2>2. PICK k \in DOMAIN s : y <= s[k].y
    OBVIOUS
  <2> HIDE DEF n
  <2>3. s[1].y <= s[j].y
    BY <1>1
  <2>4. s[k].y <= s[n].y
    BY <1>1
  <2>5. 1 \in DOMAIN s /\ n \in DOMAIN s
    BY <1>1
  <2>6. s[1].y \in Int /\ s[n].y \in Int /\ s[j].y \in Int /\ s[k].y \in Int
    BY <1>1, <2>5
  <2> QED BY <2>1, <2>2, <2>3, <2>4, <2>6
<1> HIDE DEF n
<1>5. y \in b.y1 .. b.y2
  <2>1. 1 \in DOMAIN s /\ n \in DOMAIN s
    BY <1>1
  <2>2. s[1].y \in b.y1 .. b.y2 /\ s[n].y \in b.y1 .. b.y2
    BY <1>3, <2>1
  <2> QED BY <1>3, <1>4, <2>2
<1>6. CASE n = 1
  <2>1. s[1].x \in b.x1 .. b.x2
    BY <1>1, <1>3, <1>6
  <2> QED BY <1>2, <1>3, <1>5, <1>6, <2>1 DEF Point, Inside
<1>7. CASE n # 1
  <2>1. S \in SUBSET (2 .. n) /\ S # {}
    BY <1>1, <1>7
  <2>2. i \in S /\ \A k \in S : i <= k
    <3>1. S \subseteq Int /\ IsFiniteSet(2 .. n)
      BY <1>1, <2>1, FS_Interval
    <3> HIDE DEF S
    <3>2. IsFiniteSet(S)
      BY <2>1, <3>1, FS_Subset
    <3> QED BY <2>1, <3>1, <3>2, MinProperties
  <2> HIDE DEF i
  <2>3. i \in 2 .. n /\ i - 1 \in DOMAIN s /\ i \in DOMAIN s
    BY <1>1, <2>1, <2>2
  <2>4. y <= s[i].y
    BY <1>1, <1>4, <2>2, <2>3
  <2>5. s[i - 1].y <= y
    <3>1. CASE i = 2
      BY <1>4, <3>1
    <3>2. CASE i # 2
      <4>1. i - 1 \in 2 .. n /\ i - 1 \notin S
        BY <1>1, <2>2, <2>3, <3>2
      <4>2. ~(s[i - 1].y >= y)
        BY <4>1
      <4> QED BY <1>1, <2>3, <4>2
    <3> QED BY <3>1, <3>2
  <2>6. s[i - 1].y # s[i].y
    <3>1. i - 1 \in 1 .. n /\ i \in 1 .. n /\ i - 1 < i
      BY <1>1, <2>3
    <3>2. s[i - 1].y < s[i].y
      BY <1>1, <3>1
    <3> QED BY <1>1, <2>3, <3>2
  <2> HIDE DEF S
  <2>7. XAt(s[i - 1], s[i], y) \in b.x1 .. b.x2
    BY <2>3, <2>4, <2>5, <2>6, XAtInside
  <2> QED BY <1>2, <1>3, <1>5, <1>7, <2>7 DEF Point, Inside
<1> QED BY <1>6, <1>7

\* Paths in a rectangle.
Within(b, e) == [left : Seq(Inside(b)), right : Seq(InsideOr(b, e))]

LEMMA InsideTyped ==
    ASSUME NEW b \in Boxes, NEW e \in Int
    PROVE  /\ Inside(b) \subseteq Point /\ Inside(b) \subseteq InsideOr(b, e)
           /\ InsideOr(b, e) \subseteq Point
           /\ NoPath \in Within(b, e)
<1>1. /\ Inside(b) \subseteq Point /\ Inside(b) \subseteq InsideOr(b, e)
      /\ InsideOr(b, e) \subseteq Point
  BY DEF Inside, InsideOr
<1>2. << >> \in Seq(Inside(b)) /\ << >> \in Seq(InsideOr(b, e))
  BY EmptySeq
<1>3. NoPath \in Within(b, e)
  BY <1>2 DEF NoPath, Within
<1> QED BY <1>1, <1>3

LEMMA LegacyBottomInside ==
    ASSUME NEW b \in Boxes, NEW e \in Int, NEW p \in Within(b, e),
           p.right # << >>, Len(p.left) = Len(p.right),
           NEW sides, sides.left \in Seq(Inside(b)), sides.right \in Seq(Inside(b))
    PROVE  LegacyBottom(p, sides) \in Within(b, e)
<1> DEFINE n  == Len(p.right)
           rb == BottomSide(sides.right, LAMBDA x, z : x > z)
           lb == BottomSide(sides.left, LAMBDA x, z : x < z)
           w  == [x |-> lb.x, y |-> rb.y]
           left  == [p.left EXCEPT ![n] = w]
           right == [p.right EXCEPT ![n] = rb]
<1>1. CASE sides.left = << >> \/ sides.right = << >>
  BY <1>1 DEF LegacyBottom
<1>2. CASE ~(sides.left = << >> \/ sides.right = << >>)
  <2>1. LegacyBottom(p, sides) = [left |-> left, right |-> right]
    BY <1>2, Zenon DEF LegacyBottom
  <2>2. lb \in Inside(b) /\ rb \in Inside(b)
    BY <1>2, InsideTyped, BottomSideIsPoint
  <2> HIDE DEF lb, rb
  <2>3. w \in Inside(b) /\ rb \in InsideOr(b, e)
    BY <2>2 DEF Inside, InsideOr, Point
  <2> HIDE DEF w
  <2>4. p.left \in Seq(Inside(b)) /\ p.right \in Seq(InsideOr(b, e)) /\ p.left # << >>
    <3>1. p.left \in Seq(Inside(b)) /\ p.right \in Seq(InsideOr(b, e))
      BY DEF Within
    <3> QED BY <3>1, EmptySeq
  <2>5. left \in Seq(Inside(b))
    BY <2>3, <2>4, ReplaceLast
  <2>6. right \in Seq(InsideOr(b, e))
    BY <2>3, <2>4, ReplaceLast
  <2> QED BY <2>1, <2>5, <2>6 DEF Within
<1> QED BY <1>1, <1>2

\* The optimizer makes up no point beyond what it is given, but for the entry.
LEMMA OptimizePathInside ==
    ASSUME NEW b \in Boxes, NEW c \in Seq(Inside(b)), NEW e \in Int
    PROVE  OptimizePath(c, e) \in Within(b, e)
<1> DEFINE d     == FilterByMask(c)
           sides == SplitByCenter(d)
           prof  == RightProfile(sides.right)
           entry == Entry(prof, e)
           right == Sample(FromEntry(prof, entry))
           lprof == LeftProfile(sides.left)
           left  == [i \in DOMAIN right |-> ProfileAt(lprof, right[i].y)]
           p     == [left |-> left, right |-> right]
<1>1. CASE d = << >> \/ sides.left = << >> \/ sides.right = << >>
  <2>1. OptimizePath(c, e) = NoPath
    BY <1>1, Zenon DEF OptimizePath
  <2> QED BY <2>1, InsideTyped
<1>2. CASE ~(d = << >> \/ sides.left = << >> \/ sides.right = << >>)
  <2>1. OptimizePath(c, e) = LegacyBottom(p, sides)
    BY <1>2, Zenon DEF OptimizePath
  <2>2. d \in Seq(Inside(b)) /\ d # << >>
    <3>1. {i \in DOMAIN c : InsideRoi(c[i])} \subseteq DOMAIN c
      OBVIOUS
    <3>2. d \in Seq(Inside(b))
      BY <3>1, PickProperties DEF FilterByMask
    <3> QED BY <1>2, <3>2
  <2> HIDE DEF d
  <2> DEFINE top == d[TopOf(d)]
             low == d[BottomOf(d)]
             a   == [b EXCEPT !.y1 = top.y, !.y2 = low.y]
  <2>3. d \in Seq(Point)
    BY <2>2, InsideTyped, SubSeqOf
  <2>4. \A i \in DOMAIN d : /\ d[i] \in Inside(b)
                            /\ top.y <= d[i].y /\ d[i].y <= low.y
    BY <2>2, <2>3, TopAndBottom, SeqDomain
  <2>5. top \in Inside(b) /\ low \in Inside(b)
    <3>1. TopOf(d) \in DOMAIN d /\ BottomOf(d) \in DOMAIN d
      BY <2>2, <2>3, TopAndBottom, SeqDomain
    <3> QED BY <2>4, <3>1
  <2> HIDE DEF top, low
  <2>6. /\ a \in Boxes /\ a.x1 = b.x1 /\ a.x2 = b.x2 /\ a.y1 = top.y /\ a.y2 = low.y
        /\ top.y \in Int /\ low.y \in Int
    BY <2>5 DEF Boxes, Inside, Point
  <2> HIDE DEF a
  <2>7. Inside(a) \subseteq Inside(b) /\ InsideOr(a, e) \subseteq InsideOr(b, e)
    BY <2>5, <2>6 DEF Boxes, Inside, InsideOr, Point
  <2>8. d \in Seq(Inside(a))
    <3>1. \A i \in DOMAIN d : d[i] \in Inside(a)
      BY <2>4, <2>6 DEF Boxes, Inside, Point
    <3> QED BY <2>2, <3>1, SeqFrom
  <2>9. /\ sides.left \in Seq(Inside(a)) /\ sides.right \in Seq(Inside(a))
        /\ sides.left # << >> /\ sides.right # << >>
    BY <1>2, <2>2, <2>6, <2>8, InsideTyped, SplitTyped
  <2>10. top \in ToSet(sides.left) /\ low \in ToSet(sides.left)
    BY <2>2, <2>3, <2>9, SplitReaches DEF top, low
  <2> HIDE DEF sides
  <2>11. sides.left \in Seq(Point) /\ sides.right \in Seq(Point)
    BY <2>6, <2>9, InsideTyped, SubSeqOf
  <2>12. prof \in Profiles /\ \A k \in DOMAIN prof : prof[k] \in Inside(a)
    <3>1. prof \in Profiles /\ \A k \in DOMAIN prof : prof[k] \in ToSet(sides.right)
      BY <2>9, <2>11, ProfilesOfChain
    <3>2. ToSet(sides.right) \subseteq Inside(a)
      BY <2>9, SeqDomain DEF ToSet
    <3> QED BY <3>1, <3>2
  <2>13. /\ lprof \in Profiles /\ \A k \in DOMAIN lprof : lprof[k] \in Inside(a)
         /\ \E k \in DOMAIN lprof : lprof[k].y = top.y
         /\ \E k \in DOMAIN lprof : lprof[k].y = low.y
    <3>1. /\ lprof \in Profiles /\ \A k \in DOMAIN lprof : lprof[k] \in ToSet(sides.left)
          /\ \A v \in ToSet(sides.left) : \E k \in DOMAIN lprof : lprof[k].y = v.y
      BY <2>9, <2>11, ProfilesOfChain
    <3>2. ToSet(sides.left) \subseteq Inside(a)
      BY <2>9, SeqDomain DEF ToSet
    <3> QED BY <2>10, <3>1, <3>2
  <2> HIDE DEF prof, lprof
  <2>14. entry \in InsideOr(a, e)
    BY <2>6, <2>12, EntryInside
  <2> HIDE DEF entry
  <2>15. right \in Seq(InsideOr(a, e)) /\ right # << >>
    <3>1. \A k \in DOMAIN prof : prof[k] \in InsideOr(a, e)
      BY <2>6, <2>12, InsideTyped
    <3>2. InsideOr(a, e) \subseteq Point
      BY <2>6, InsideTyped
    <3> QED BY <2>12, <2>14, <3>1, <3>2, SampledFrom
  <2> HIDE DEF right
  <2>16. DOMAIN right = 1 .. Len(right) /\ Len(right) \in Nat
    BY <2>15, LenProperties
  <2>17. left \in [1 .. Len(right) -> Inside(b)]
    <3>1. \A i \in DOMAIN right : ProfileAt(lprof, right[i].y) \in Inside(b)
      <4> TAKE i \in DOMAIN right
      <4> DEFINE y == right[i].y
      <4>1. right[i] \in InsideOr(a, e)
        BY <2>15, SeqDomain
      <4>2. y \in Int /\ top.y <= y /\ y <= low.y
        BY <2>6, <4>1 DEF InsideOr, Point
      <4> HIDE DEF y
      <4>3. (\E k \in DOMAIN lprof : lprof[k].y <= y) /\ \E k \in DOMAIN lprof : y <= lprof[k].y
        BY <2>13, <4>2
      <4>4. ProfileAt(lprof, y) \in Inside(a)
        BY <2>6, <2>13, <4>2, <4>3, ProfileAtInside
      <4> QED BY <2>7, <4>4 DEF y
    <3> QED BY <2>16, <3>1
  <2> HIDE DEF left
  <2>18. left \in Seq(Inside(b))
    BY <2>16, <2>17, SeqDef
  <2>19. Len(left) = Len(right)
    BY <2>16, <2>17, <2>18, LenProperties
  <2>20. right \in Seq(InsideOr(b, e))
    BY <2>7, <2>15, SubSeqOf
  <2>21. p \in Within(b, e) /\ p.right # << >> /\ Len(p.left) = Len(p.right)
    BY <2>15, <2>18, <2>19, <2>20 DEF Within
  <2>22. sides.left \in Seq(Inside(b)) /\ sides.right \in Seq(Inside(b))
    BY <2>7, <2>9, SubSeqOf
  <2> HIDE DEF p
  <2> QED BY <2>1, <2>21, <2>22, LegacyBottomInside
<1> QED BY <1>1, <1>2

-----------------------------------------------------------------------------
(* The scan stays inside, too. *)

\* A horizontal line meets an outline between its extremes only.
LEMMA CrossingsInside ==
    ASSUME NEW b \in Boxes, NEW c \in Seq(Inside(b)), NEW y \in Int
    PROVE  /\ \A x \in Crossings(c, y) : x \in b.x1 .. b.x2 /\ y \in b.y1 .. b.y2
           /\ SafeCrossings(c, y) \subseteq Crossings(c, y)
<1> DEFINE meet(p, q) == IF y < Lesser(p.y, q.y) \/ y > Greater(p.y, q.y) THEN {}
                         ELSE IF p.y = q.y THEN {p.x, q.x}
                         ELSE {XAt(p, q, y)}
<1>1. ASSUME NEW x \in Crossings(c, y) PROVE x \in b.x1 .. b.x2 /\ y \in b.y1 .. b.y2
  <2>1. PICK i \in DOMAIN c : x \in meet(c[i], c[(i % Len(c)) + 1])
    BY Zenon, <1>1 DEF Crossings
  <2> DEFINE p == c[i]
             q == c[(i % Len(c)) + 1]
  <2>2. (i % Len(c)) + 1 \in DOMAIN c
    BY InsideTyped, SubSeqOf, PointsOf DEF Inside
  <2>3. p \in Inside(b) /\ q \in Inside(b)
    BY <2>2, SeqDomain
  <2>4. x \in meet(p, q)
    BY <2>1
  <2> HIDE DEF p, q
  <2>5. /\ p.x \in b.x1 .. b.x2 /\ q.x \in b.x1 .. b.x2
        /\ p.y \in b.y1 .. b.y2 /\ q.y \in b.y1 .. b.y2
        /\ p.y \in Int /\ q.y \in Int /\ b.y1 \in Int /\ b.y2 \in Int
    BY <2>3 DEF Inside, Point, Boxes
  <2>6. ~(y < Lesser(p.y, q.y)) /\ ~(y > Greater(p.y, q.y))
    BY <2>4
  <2>7. (p.y <= y /\ y <= q.y) \/ (q.y <= y /\ y <= p.y)
    BY <2>5, <2>6 DEF Lesser, Greater
  <2>8. x \in b.x1 .. b.x2
    <3>1. CASE p.y = q.y
      BY <2>4, <2>5, <2>6, <3>1
    <3>2. CASE p.y # q.y
      <4>1. x = XAt(p, q, y)
        BY <2>4, <2>6, <3>2
      <4> QED BY <2>3, <2>7, <3>2, <4>1, XAtInside
    <3> QED BY <3>1, <3>2
  <2>9. y \in b.y1 .. b.y2
    BY <2>5, <2>7
  <2> QED BY <2>8, <2>9
<1>2. SafeCrossings(c, y) \subseteq Crossings(c, y)
  BY DEF SafeCrossings
<1> QED BY <1>1, <1>2

LEMMA SidesExist ==
    ASSUME NEW xs, TwoSides(xs)
    PROVE  xs # {}
BY FS_EmptySet DEF TwoSides

\* A line that meets the outline twice is inside, and so is where it does.
LEMMA TwoSidesInside ==
    ASSUME NEW b \in Boxes, NEW c \in Seq(Inside(b)), NEW y \in Int,
           NEW xs \in {Crossings(c, y), SafeCrossings(c, y)}, TwoSides(xs)
    PROVE  y \in b.y1 .. b.y2 /\ Min(xs) \in b.x1 .. b.x2 /\ Max(xs) \in b.x1 .. b.x2
<1>1. xs # {}
  BY SidesExist
<1>2. c \in Seq(Point)
  <2>1. Inside(b) \subseteq Point
    BY DEF Inside
  <2> QED BY <2>1, SubSeqOf
<1>3. IsFiniteSet(xs) /\ xs \subseteq Int
  BY <1>2, CrossingsFinite
<1>4. Min(xs) \in xs /\ Max(xs) \in xs
  BY <1>1, <1>3, MinProperties
<1>5. xs \subseteq Crossings(c, y)
  BY CrossingsInside
<1> QED BY <1>4, <1>5, CrossingsInside

LEMMA ScanEntryInside ==
    ASSUME NEW b \in Boxes, NEW c \in Seq(Inside(b)), c # << >>, NEW rows, rows = ScanRows(c),
           Len(rows) >= 1, NEW e \in Int
    PROVE  /\ ScanEntry(c, rows, e).y \in b.y1 .. b.y2
           /\ \A k \in DOMAIN rows : rows[k] * Grain \in b.y1 .. b.y2
<1> DEFINE rx(i)   == Max(SafeCrossings(c, rows[i] * Grain))
           crossed == {i \in 2 .. Len(rows) : /\ rows[i] = rows[i - 1] + 1
                                              /\ (rx(i - 1) - e) * (rx(i) - e) <= 0}
           closest == CHOOSE i \in DOMAIN rows : \A j \in DOMAIN rows :
                         Abs(rx(i) - e) < Abs(rx(j) - e)
                         \/ (Abs(rx(i) - e) = Abs(rx(j) - e) /\ i <= j)
           i  == Min(crossed)
           dx == rx(i) - rx(i - 1)
           y  == rows[i - 1] * Grain
                    + IF dx = 0 THEN 0 ELSE Divide((e - rx(i - 1)) * Grain, dx)
<1>a. c \in Seq(Point)
  <2>1. Inside(b) \subseteq Point
    BY DEF Inside
  <2> QED BY <2>1, SubSeqOf
<1>b. b.y1 \in Int /\ b.y2 \in Int /\ b.x1 \in Int /\ b.x2 \in Int
  BY DEF Boxes
<1>1. /\ rows \in Seq(Int) /\ Len(rows) \in Nat /\ DOMAIN rows = 1 .. Len(rows)
      /\ IsFiniteSet(DOMAIN rows) /\ DOMAIN rows # {}
      /\ \A k \in DOMAIN rows : k \in Int /\ rows[k] \in Int
  <2>1. rows \in Seq(Int)
    BY <1>a, ScanRowsProperties
  <2>2. Len(rows) \in Nat /\ DOMAIN rows = 1 .. Len(rows) /\ IsFiniteSet(DOMAIN rows)
    BY <2>1, SeqDomain
  <2>3. \A k \in DOMAIN rows : k \in Int /\ rows[k] \in Int
    BY <2>1, SeqDomain
  <2> QED BY <2>1, <2>2, <2>3
<1>2. \A k \in DOMAIN rows : /\ rows[k] * Grain \in b.y1 .. b.y2
                             /\ rows[k] * Grain \in Int /\ rx(k) \in Int
  <2> TAKE k \in DOMAIN rows
  <2>1. rows[k] * Grain \in Int
    BY <1>1, GlueAssumption
  <2>2. TwoSides(SafeCrossings(c, rows[k] * Grain))
    BY <1>a, ScanRowsProperties
  <2>3. rows[k] * Grain \in b.y1 .. b.y2 /\ rx(k) \in b.x1 .. b.x2
    BY <2>1, <2>2, TwoSidesInside
  <2> HIDE DEF rx
  <2> QED BY <1>b, <2>1, <2>3
<1>3. ScanEntry(c, rows, e)
        = IF crossed = {} THEN [found |-> FALSE, y |-> rows[closest] * Grain]
                          ELSE [found |-> TRUE, y |-> y]
  BY Zenon DEF ScanEntry
<1>4. ASSUME crossed = {} PROVE ScanEntry(c, rows, e).y \in b.y1 .. b.y2
  <2> DEFINE d(k) == Abs(rx(k) - e)
             f == [k \in DOMAIN rows |-> d(k)]
  <2>1. \A k \in DOMAIN rows : k \in Int /\ f[k] \in Int
    <3> TAKE k \in DOMAIN rows
    <3>1. rx(k) - e \in Int
      BY <1>2
    <3> HIDE DEF rx
    <3>2. Abs(rx(k) - e) \in Int
      BY <3>1, AbsIsInt
    <3> QED BY <1>1, <3>2
  <2> HIDE DEF rx, crossed
  <2>2. \E k \in DOMAIN rows : \A j \in DOMAIN rows : f[k] < f[j] \/ (f[k] = f[j] /\ k <= j)
    <3> HIDE DEF f
    <3> QED BY <1>1, <2>1, ClosestExists
  <2>3. \E k \in DOMAIN rows : \A j \in DOMAIN rows :
           Abs(rx(k) - e) < Abs(rx(j) - e) \/ (Abs(rx(k) - e) = Abs(rx(j) - e) /\ k <= j)
    BY <2>2
  <2>4. closest \in DOMAIN rows
    BY <2>3
  <2> HIDE DEF closest
  <2> QED BY <1>2, <1>3, <1>4, <2>4
<1>5. ASSUME crossed # {} PROVE ScanEntry(c, rows, e).y \in b.y1 .. b.y2
  <2>1. crossed \in SUBSET DOMAIN rows /\ crossed \subseteq 2 .. Len(rows)
    BY <1>1
  <2>2. i \in crossed
    <3> HIDE DEF crossed
    <3>1. crossed \subseteq Int /\ IsFiniteSet(crossed)
      BY <1>1, <2>1, FS_Subset
    <3> QED BY <1>5, <3>1, MinProperties
  <2>3. rows[i] = rows[i - 1] + 1 /\ (rx(i - 1) - e) * (rx(i) - e) <= 0
    <3> HIDE DEF i, rx
    <3> QED BY <2>2
  <2> HIDE DEF crossed, i
  <2>4. i \in DOMAIN rows /\ i - 1 \in DOMAIN rows
    BY <1>1, <2>1, <2>2
  <2> DEFINE u == rx(i - 1)
             v == rx(i)
             low == rows[i - 1] * Grain
  <2>5. /\ v \in Int /\ u \in Int /\ low \in b.y1 .. b.y2 /\ rows[i] * Grain \in b.y1 .. b.y2
        /\ (u - e) * (v - e) <= 0
    BY <1>2, <2>3, <2>4
  <2>6. low + Grain \in b.y1 .. b.y2
    <3>1. rows[i] * Grain = low + Grain
      BY <1>1, <2>3, <2>4, GlueAssumption
    <3> QED BY <2>5, <3>1
  <2>7. y = low + IF v - u = 0 THEN 0 ELSE Divide((e - u) * Grain, v - u)
    OBVIOUS
  <2> HIDE DEF u, v, low, y
  <2>8. Grain = (low + Grain) - low
    BY <1>b, <2>5, GlueAssumption
  <2>9. ASSUME v - u # 0 PROVE low + Divide((e - u) * Grain, v - u) \in b.y1 .. b.y2
    <3>1. (u <= e /\ e <= v) \/ (v <= e /\ e <= u)
      BY <2>5, CrossedBetween
    <3>2. u # v
      BY <2>5, <2>9
    <3> DEFINE high == low + Grain
    <3>3. high \in b.y1 .. b.y2 /\ Grain = high - low
      BY <2>6, <2>8
    <3> HIDE DEF high
    <3>4. low + Divide((e - u) * (high - low), v - u) \in b.y1 .. b.y2
      BY <1>b, <2>5, <3>1, <3>2, <3>3, Interpolated
    <3> QED BY <3>3, <3>4
  <2>10. y \in b.y1 .. b.y2
    <3>1. CASE v - u = 0
      BY <1>b, <2>5, <2>7, <3>1
    <3>2. CASE v - u # 0
      BY <2>7, <2>9, <3>2
    <3> QED BY <3>1, <3>2
  <2> QED BY <1>2, <1>3, <1>5, <2>10
<1> HIDE DEF crossed, rx
<1>6. \A k \in DOMAIN rows : rows[k] * Grain \in b.y1 .. b.y2
  BY <1>2
<1> QED BY <1>4, <1>5, <1>6

LEMMA SynchronizedInside ==
    ASSUME NEW b \in Boxes, NEW c \in Seq(Inside(b)), NEW e \in Int
    PROVE  Synchronized(c, e) \in Within(b, e)
<1> DEFINE rows   == ScanRows(c)
           entry  == ScanEntry(c, rows, e)
           line   == (Roi.y + Roi.height - 1) * Grain
           onLine == TwoSides(Crossings(c, line))
           bottom == IF onLine THEN line ELSE rows[Len(rows)] * Grain
           y(i)   == entry.y + ((bottom - entry.y) * (i - 1)) \div (MaxPoints - 1)
           xs(i)  == IF i = MaxPoints /\ onLine THEN Crossings(c, line)
                                                ELSE SafeCrossings(c, y(i))
           left   == [i \in 1 .. MaxPoints |-> [x |-> Min(xs(i)), y |-> y(i)]]
           right  == [i \in 1 .. MaxPoints |->
                         [x |-> IF i = 1 /\ entry.found THEN e ELSE Max(xs(i)), y |-> y(i)]]
           path   == [left |-> left, right |-> right]
           fails  == \/ Len(c) < 3
                     \/ Len(rows) < MaxPoints
                     \/ Lesser(line, bottom) <= entry.y
                     \/ \E i \in 1 .. MaxPoints : ~TwoSides(xs(i))
<1>a. c \in Seq(Point) /\ Inside(b) \subseteq Point /\ InsideOr(b, e) \subseteq Point
  <2>1. Inside(b) \subseteq Point /\ InsideOr(b, e) \subseteq Point
    BY DEF Inside, InsideOr
  <2> QED BY <2>1, SubSeqOf
<1>b. b.y1 \in Int /\ b.y2 \in Int /\ b.x1 \in Int /\ b.x2 \in Int
  BY DEF Boxes
<1>1. Synchronized(c, e) = IF fails THEN NoPath ELSE LegacyBottom(path, SplitByCenter(c))
  BY Zenon DEF Synchronized
<1>2. CASE fails
  <2>1. Synchronized(c, e) = NoPath
    <3> HIDE DEF fails, path
    <3> QED BY <1>1, <1>2
  <2> QED BY <2>1, InsideTyped
<1>3. CASE ~fails
  <2>1. /\ ~(Len(c) < 3) /\ ~(Len(rows) < MaxPoints) /\ ~(Lesser(line, bottom) <= entry.y)
        /\ \A i \in 1 .. MaxPoints : TwoSides(xs(i))
    BY <1>3
  <2>2. Synchronized(c, e) = LegacyBottom(path, SplitByCenter(c))
    <3> HIDE DEF fails, path
    <3> QED BY <1>1, <1>3
  <2> HIDE DEF fails
  <2>3. MaxPoints \in Nat /\ MaxPoints > 1 /\ Grain \in Nat \ {0} /\ line \in Int
    BY GlueAssumption
  <2>4. c # << >> /\ Len(rows) \in Nat /\ Len(rows) >= 1 /\ Len(rows) \in DOMAIN rows
    <3>1. Len(<< >>) = 0
      OBVIOUS
    <3>2. c # << >>
      BY <2>1, <3>1
    <3>3. rows \in Seq(Int)
      BY <1>a, <3>2, ScanRowsProperties
    <3>4. Len(rows) \in Nat /\ DOMAIN rows = 1 .. Len(rows)
      BY <3>3, LenProperties
    <3> QED BY <2>1, <2>3, <3>2, <3>4
  <2>5. entry.y \in b.y1 .. b.y2
    BY <2>4, ScanEntryInside
  <2>6. bottom \in b.y1 .. b.y2
    <3>1. CASE onLine
      BY <2>3, <3>1, TwoSidesInside
    <3>2. CASE ~onLine
      BY <2>4, <3>2, ScanEntryInside
    <3> QED BY <3>1, <3>2
  <2> HIDE DEF rows, line
  <2>7. bottom > entry.y
    <3> HIDE DEF bottom, entry
    <3> QED BY <1>b, <2>1, <2>3, <2>5, <2>6 DEF Lesser
  <2> HIDE DEF entry
  <2>8. \A i \in 1 .. MaxPoints : y(i) \in b.y1 .. b.y2
    <3> TAKE i \in 1 .. MaxPoints
    <3> DEFINE w == bottom - entry.y
               d == MaxPoints - 1
               s == i - 1
    <3> HIDE DEF bottom
    <3>1. w \in Int /\ w >= 0 /\ d \in Nat \ {0} /\ s \in Nat /\ s <= d
      BY <1>b, <2>3, <2>5, <2>6, <2>7
    <3>2. y(i) = entry.y + (w * s) \div d
      OBVIOUS
    <3>3. entry.y + w = bottom
      BY <1>b, <2>5, <2>6
    <3> HIDE DEF w, d, s, y
    <3> DEFINE v == (s * w) \div d
    <3>4. v \in 0 .. w
      BY <3>1, PartOfStretch
    <3>5. w * s = s * w
      BY <3>1
    <3> HIDE DEF v
    <3>6. y(i) = entry.y + v
      BY <3>2, <3>5 DEF v
    <3> QED BY <1>b, <2>5, <2>6, <3>1, <3>3, <3>4, <3>6
  <2>9. \A i \in 1 .. MaxPoints : Min(xs(i)) \in b.x1 .. b.x2 /\ Max(xs(i)) \in b.x1 .. b.x2
    <3> TAKE i \in 1 .. MaxPoints
    <3>1. TwoSides(xs(i)) /\ y(i) \in Int
      <4>1. y(i) \in b.y1 .. b.y2
        BY <2>8
      <4> HIDE DEF y, xs
      <4> QED BY <1>b, <2>1, <4>1
    <3> HIDE DEF y
    <3>2. CASE i = MaxPoints /\ onLine
      <4>1. xs(i) = Crossings(c, line)
        BY <3>2
      <4> HIDE DEF xs
      <4> QED BY <2>3, <3>1, <4>1, TwoSidesInside
    <3>3. CASE ~(i = MaxPoints /\ onLine)
      <4>1. xs(i) = SafeCrossings(c, y(i))
        BY <3>3
      <4> HIDE DEF xs
      <4> QED BY <3>1, <4>1, TwoSidesInside
    <3> QED BY <3>2, <3>3
  <2> HIDE DEF xs, y
  <2>10. left \in [1 .. MaxPoints -> Inside(b)] /\ right \in [1 .. MaxPoints -> InsideOr(b, e)]
    <3>1. \A i \in 1 .. MaxPoints : [x |-> Min(xs(i)), y |-> y(i)] \in Inside(b)
      BY <1>b, <2>8, <2>9 DEF Inside, Point
    <3>2. \A i \in 1 .. MaxPoints :
             [x |-> IF i = 1 /\ entry.found THEN e ELSE Max(xs(i)), y |-> y(i)] \in InsideOr(b, e)
      BY <1>b, <2>8, <2>9 DEF InsideOr, Point
    <3> QED BY <3>1, <3>2
  <2> HIDE DEF left, right
  <2>11. left \in Seq(Inside(b)) /\ right \in Seq(InsideOr(b, e))
    BY <2>3, <2>10, SeqDef
  <2>12. Len(left) = MaxPoints /\ Len(right) = MaxPoints
    BY <2>3, <2>10, <2>11, LenProperties
  <2>13. path \in Within(b, e) /\ path.right # << >> /\ Len(path.left) = Len(path.right)
    <3>1. right # << >>
      BY <2>3, <2>12
    <3> QED BY <2>11, <2>12, <3>1 DEF Within
  <2>14. SplitByCenter(c).left \in Seq(Inside(b)) /\ SplitByCenter(c).right \in Seq(Inside(b))
    BY <1>a, <2>4, SplitTyped
  <2> HIDE DEF path
  <2> QED BY <2>2, <2>13, <2>14, LegacyBottomInside
<1> QED BY <1>2, <1>3

\* Tool Path makes up no point beyond the outlines, but for the entry: every row it takes
\* over lies in each rectangle that has all points of the image.
THEOREM ExtractedInside ==
    ASSUME NEW b \in Boxes, NEW outlines \in Seq(Seq(Inside(b))), NEW type, NEW e \in Int
    PROVE  Extract(Trace(outlines, Scan(outlines, type, e)), type, e) \in Within(b, e)
<1> DEFINE scan  == Scan(outlines, type, e)
           trace == Trace(outlines, scan)
           raw   == Extract(trace, type, e)
           back  == Reverse(scan.left)
<1> SUFFICES raw \in Within(b, e)
  OBVIOUS
<1>a. /\ Inside(b) \subseteq Point /\ InsideOr(b, e) \subseteq Point
      /\ Inside(b) \subseteq InsideOr(b, e)
  BY InsideTyped
<1>b. outlines \in Seq(Seq(Point))
  <2>1. Seq(Inside(b)) \subseteq Seq(Point)
    BY <1>a, SubSeqOf
  <2> QED BY <2>1, SubSeqOf
<1>1. scan \in Within(b, e)
  <2>1. CASE type = 1 /\ outlines # << >>
    <3>1. Largest(outlines) \in Seq(Inside(b))
      BY <1>a, <2>1, LargestIsOne
    <3>2. scan = Synchronized(Largest(outlines), e)
      BY <2>1 DEF Scan
    <3> QED BY <3>1, <3>2, SynchronizedInside
  <2>2. CASE ~(type = 1 /\ outlines # << >>)
    BY <2>2, InsideTyped DEF Scan
  <2> QED BY <2>1, <2>2
<1>2. \/ scan = NoPath
      \/ scan \in EvenSides /\ Len(scan.right) = MaxPoints /\ type = 1
  BY <1>b, ScanIsEven
<1> HIDE DEF scan
<1>3. MaxPoints \in Nat /\ MaxPoints > 1
  BY GlueAssumption
<1>4. CASE scan = NoPath
  <2> DEFINE long == Pick(outlines, {i \in DOMAIN outlines : Len(outlines[i]) > 2})
  <2>1. trace = FlattenSeq(long)
    BY <1>4 DEF Trace
  <2>2. long \in Seq(Seq(Inside(b)))
    <3>1. {i \in DOMAIN outlines : Len(outlines[i]) > 2} \subseteq DOMAIN outlines
      OBVIOUS
    <3> QED BY <3>1, PickProperties
  <2> HIDE DEF long
  <2>3. trace \in Seq(Inside(b))
    BY <2>1, <2>2, FlattenIsSeq
  <2> HIDE DEF trace
  <2>4. CASE trace = << >>
    BY <2>4, InsideTyped DEF Extract
  <2>5. CASE trace # << >> /\ LooksScanned(trace, type)
    <3> DEFINE l == SubSeq(trace, MaxPoints + 1, 2 * MaxPoints)
               r == SubSeq(trace, 1, MaxPoints)
    <3>1. raw = [left |-> Reverse(l), right |-> r]
      BY <2>5 DEF Extract
    <3>2. Len(trace) = 2 * MaxPoints
      BY <2>5 DEF LooksScanned
    <3>3. l \in Seq(Inside(b))
      <4>1. MaxPoints + 1 \in Nat \ {0} /\ 2 * MaxPoints \in Nat /\ MaxPoints + 1 <= 2 * MaxPoints + 1
        BY <1>3
      <4>2. 2 * MaxPoints <= Len(trace)
        BY <1>3, <2>3, <3>2
      <4> QED BY <2>3, <3>2, <4>1, <4>2, PartOfSeq
    <3>4. r \in Seq(Inside(b))
      <4>1. 1 \in Nat \ {0} /\ MaxPoints \in Nat /\ 1 <= MaxPoints + 1
        BY <1>3
      <4>2. MaxPoints <= Len(trace)
        BY <1>3, <2>3, <3>2
      <4> QED BY <2>3, <3>2, <4>1, <4>2, PartOfSeq
    <3> HIDE DEF l, r
    <3>5. Reverse(l) \in Seq(Inside(b)) /\ r \in Seq(InsideOr(b, e))
      BY <1>a, <3>3, <3>4, ReverseIsSeq, SubSeqOf
    <3> QED BY <3>1, <3>5 DEF Within
  <2>6. CASE trace # << >> /\ ~LooksScanned(trace, type)
    <3>1. raw = OptimizePath(trace, e)
      BY <2>6 DEF Extract
    <3> QED BY <2>3, <3>1, OptimizePathInside
  <2> QED BY <2>4, <2>5, <2>6
<1>5. CASE scan # NoPath
  <2>1. /\ scan.left \in Seq(Inside(b)) /\ scan.right \in Seq(InsideOr(b, e))
        /\ Len(scan.left) = MaxPoints /\ Len(scan.right) = MaxPoints /\ type = 1
    BY <1>1, <1>2, <1>5 DEF EvenSides, Within
  <2>2. back \in Seq(Inside(b)) /\ Len(back) = MaxPoints
    BY <2>1, ReverseIsSeq
  <2>3. trace = scan.right \o back
    BY <1>5 DEF Trace
  <2>4. back \in Seq(InsideOr(b, e))
    BY <1>a, <2>2, SubSeqOf
  <2> HIDE DEF back, trace
  <2>5. /\ trace \in Seq(InsideOr(b, e)) /\ Len(trace) = 2 * MaxPoints
        /\ \A i \in 1 .. MaxPoints : trace[MaxPoints + i] = back[i]
    <3>1. scan.right \o back \in Seq(InsideOr(b, e))
      BY <2>1, <2>4, ConcatProperties
    <3>2. Len(scan.right \o back) = Len(scan.right) + Len(back)
      BY <2>1, <2>4, ConcatProperties
    <3>3. \A i \in 1 .. Len(scan.right) + Len(back) :
             trace[i] = IF i <= Len(scan.right) THEN scan.right[i]
                                                ELSE back[i - Len(scan.right)]
      BY <2>1, <2>3, <2>4, ConcatProperties
    <3>4. \A i \in 1 .. MaxPoints : trace[MaxPoints + i] = back[i]
      <4> TAKE i \in 1 .. MaxPoints
      <4>1. /\ MaxPoints + i \in 1 .. MaxPoints + MaxPoints /\ ~(MaxPoints + i <= MaxPoints)
            /\ (MaxPoints + i) - MaxPoints = i
        BY <1>3
      <4> QED BY <2>1, <2>2, <3>3, <4>1
    <3>5. trace \in Seq(InsideOr(b, e)) /\ Len(trace) = MaxPoints + MaxPoints
      BY <2>1, <2>2, <2>3, <3>1, <3>2
    <3> QED BY <1>3, <3>4, <3>5
  <2> DEFINE l == SubSeq(trace, MaxPoints + 1, 2 * MaxPoints)
             r == SubSeq(trace, 1, MaxPoints)
  <2>6. raw = [left |-> Reverse(l), right |-> r]
    <3>1. trace # << >>
      BY <1>3, <2>5
    <3>2. LooksScanned(trace, type)
      BY <2>1, <2>5 DEF LooksScanned
    <3> QED BY <3>1, <3>2 DEF Extract
  <2>7. r \in Seq(InsideOr(b, e))
    <3>1. 1 \in Nat \ {0} /\ MaxPoints \in Nat /\ 1 <= MaxPoints + 1
      BY <1>3
    <3>2. MaxPoints <= Len(trace)
      BY <1>3, <2>5
    <3> QED BY <2>5, <3>1, <3>2, PartOfSeq
  <2>8. l \in Seq(Inside(b))
    <3>1. /\ l \in Seq(InsideOr(b, e)) /\ Len(l) = 2 * MaxPoints - (MaxPoints + 1) + 1
          /\ \A i \in 1 .. 2 * MaxPoints - (MaxPoints + 1) + 1 : l[i] = trace[MaxPoints + 1 + i - 1]
      <4>1. MaxPoints + 1 \in Nat \ {0} /\ 2 * MaxPoints \in Nat /\ MaxPoints + 1 <= 2 * MaxPoints + 1
        BY <1>3
      <4>2. 2 * MaxPoints <= Len(trace)
        BY <1>3, <2>5
      <4> QED BY <2>5, <4>1, <4>2, PartOfSeq
    <3> HIDE DEF l
    <3>2. DOMAIN l = 1 .. MaxPoints
      BY <1>3, <3>1, LenProperties
    <3>3. \A i \in 1 .. MaxPoints : l[i] = back[i]
      <4> TAKE i \in 1 .. MaxPoints
      <4>1. i \in 1 .. 2 * MaxPoints - (MaxPoints + 1) + 1 /\ MaxPoints + 1 + i - 1 = MaxPoints + i
        BY <1>3
      <4> QED BY <2>5, <3>1, <4>1
    <3>4. \A i \in 1 .. MaxPoints : back[i] \in Inside(b)
      BY <2>2, SeqDomain
    <3>5. \A i \in DOMAIN l : l[i] \in Inside(b)
      BY <3>2, <3>3, <3>4
    <3> QED BY <3>1, <3>5, SeqFrom
  <2> HIDE DEF l, r
  <2>9. Reverse(l) \in Seq(Inside(b))
    BY <2>8, ReverseIsSeq
  <2> QED BY <2>6, <2>7, <2>9 DEF Within
<1> QED BY <1>4, <1>5
=============================================================================
