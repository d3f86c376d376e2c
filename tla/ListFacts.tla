------------------------------ MODULE ListFacts ------------------------------
(***************************************************************************)
(* Facts about the operators of the community modules with which the       *)
(* scripts' models are written: SumFunction and FlattenSeq, which are      *)
(* defined by recursive functions.  Each is shown to satisfy its recursion *)
(* and to have the values the name promises, by induction over the natural *)
(* numbers in the form of the least number principle.                      *)
(***************************************************************************)
EXTENDS Integers, SequencesExt, FiniteSetTheorems, WellFoundedInduction, TLAPS

-----------------------------------------------------------------------------
(* Induction *)

LEMMA LeastNumber ==
  ASSUME NEW T, T \subseteq Nat, T # {}
  PROVE  \E x \in T : \A y \in T : x <= y
<1> DEFINE R == OpToRel(<, Nat)
<1>1. IsWellFoundedOn(R, Nat)
  BY NatLessThanWellFounded
<1>2. \A x, y \in Nat : y < x => <<y, x>> \in R
  BY DEF OpToRel
<1> HIDE DEF R
<1>3. PICK x \in T : \A y \in T : ~ (<<y, x>> \in R)
  BY <1>1, WFMin
<1>4. \A y \in T : ~(y < x)
  BY <1>2, <1>3
<1>5. \A y \in T : x <= y
  BY <1>4
<1> QED
  BY <1>5

\* A set with 0 and the successor of each of its elements has all of Nat.
LEMMA SetInduction ==
  ASSUME NEW T, 0 \in T, \A n \in Nat : n \in T => n + 1 \in T
  PROVE  Nat \subseteq T
<1> DEFINE F == Nat \ T
<1>1. SUFFICES ASSUME F # {} PROVE FALSE
  OBVIOUS
<1>2. PICK x \in F : \A y \in F : x <= y
  BY <1>1, LeastNumber
<1>3. x \in Nat \ {0} /\ x - 1 \in Nat /\ x - 1 \notin F
  BY <1>2
<1>4. (x - 1) + 1 = x
  BY <1>3
<1> QED
  BY <1>2, <1>3, <1>4

-----------------------------------------------------------------------------
(* SumFunction *)

Pick(s) == CHOOSE x \in s : TRUE

SumOver(t) ==
    LET iter[s \in SUBSET DOMAIN t] ==
            IF s = {} THEN 0
            ELSE LET x == CHOOSE x \in s : TRUE IN t[x] + iter[s \ {x}]
    IN  iter

LEMMA SumUnfolds ==
  ASSUME NEW t
  PROVE  SumFunction(t) = SumOver(t)[DOMAIN t]
BY Zenon DEF SumFunction, SumFunctionOnSet, FoldFunctionOnSet, MapThenFoldSet, SumOver

\* What the recursion of SumOver asks of a function on the sets of G.
Sums(t, G, g) ==
    g = [s \in G |-> IF s = {} THEN 0 ELSE t[Pick(s)] + g[s \ {Pick(s)}]]

LEMMA SmallerByOne ==
  ASSUME NEW s, IsFiniteSet(s), s # {}
  PROVE  /\ Pick(s) \in s /\ IsFiniteSet(s \ {Pick(s)})
         /\ Cardinality(s) \in Nat \ {0}
         /\ Cardinality(s \ {Pick(s)}) = Cardinality(s) - 1
<1>1. Pick(s) \in s
  BY DEF Pick
<1>2. Cardinality(s) \in Nat /\ Cardinality(s) # 0
  BY FS_CardinalityType, FS_EmptySet
<1> QED
  BY <1>1, <1>2, FS_RemoveElement

LEMMA SumsExist ==
  ASSUME NEW t, IsFiniteSet(DOMAIN t)
  PROVE  \E g : Sums(t, SUBSET DOMAIN t, g)
<1> DEFINE D == DOMAIN t
           G(n) == {s \in SUBSET D : Cardinality(s) <= n}
           T == {n \in Nat : \E g : Sums(t, G(n), g)}
<1>1. \A s \in SUBSET D : IsFiniteSet(s) /\ Cardinality(s) \in Nat
  BY FS_Subset, FS_CardinalityType
<1>2. 0 \in T
  <2> DEFINE g == [s \in G(0) |-> 0]
  <2>1. \A s \in G(0) : s = {}
    BY <1>1, FS_EmptySet
  <2>2. Sums(t, G(0), g)
    BY <2>1 DEF Sums
  <2> QED
    BY <2>2
<1>3. ASSUME NEW n \in Nat, n \in T
      PROVE  n + 1 \in T
  <2>1. PICK g : Sums(t, G(n), g)
    BY <1>3
  <2> DEFINE h == [s \in G(n + 1) |-> IF s = {} THEN 0 ELSE t[Pick(s)] + g[s \ {Pick(s)}]]
  <2>2. ASSUME NEW s \in G(n + 1), s # {}
        PROVE  s \ {Pick(s)} \in G(n) /\ s \ {Pick(s)} \in G(n + 1)
    <3>1. /\ Pick(s) \in s /\ Cardinality(s \ {Pick(s)}) = Cardinality(s) - 1
          /\ Cardinality(s) \in Nat /\ Cardinality(s) <= n + 1
      BY <1>1, <2>2, SmallerByOne
    <3> QED
      BY <3>1
  <2>3. ASSUME NEW s \in G(n)
        PROVE  s \in G(n + 1) /\ h[s] = g[s]
    <3>1. s \in G(n + 1)
      BY <1>1
    <3>2. g[s] = IF s = {} THEN 0 ELSE t[Pick(s)] + g[s \ {Pick(s)}]
      BY <2>1 DEF Sums
    <3> QED
      BY <3>1, <3>2
  <2>4. Sums(t, G(n + 1), h)
    <3>1. \A s \in G(n + 1) : s # {} => h[s \ {Pick(s)}] = g[s \ {Pick(s)}]
      BY <2>2, <2>3
    <3> QED
      BY <3>1 DEF Sums
  <2> HIDE DEF h
  <2>5. \E w : Sums(t, G(n + 1), w)
    BY <2>4
  <2> QED
    BY <2>5
<1> HIDE DEF T
<1>4. Cardinality(D) \in T
  BY <1>1, <1>2, <1>3, SetInduction
<1>5. G(Cardinality(D)) = SUBSET D
  BY FS_Subset, FS_CardinalityType
<1> QED
  BY <1>4, <1>5 DEF T

LEMMA SumOverDef ==
  ASSUME NEW t, IsFiniteSet(DOMAIN t)
  PROVE  Sums(t, SUBSET DOMAIN t, SumOver(t))
<1>1. PICK g : g = [s \in SUBSET DOMAIN t |->
                       IF s = {} THEN 0 ELSE t[Pick(s)] + g[s \ {Pick(s)}]]
  BY SumsExist DEF Sums
<1>2. SumOver(t) = [s \in SUBSET DOMAIN t |->
                       IF s = {} THEN 0 ELSE t[Pick(s)] + SumOver(t)[s \ {Pick(s)}]]
  BY <1>1, Zenon DEF SumOver, Pick
<1> QED
  BY <1>2 DEF Sums

\* The sum of n naturals is a natural, at least n times what none is below and
\* at most n times what none is above.
LEMMA SumBounds ==
  ASSUME NEW t, IsFiniteSet(DOMAIN t), \A x \in DOMAIN t : t[x] \in Nat,
         NEW a \in Nat, NEW b \in Nat
  PROVE  /\ SumFunction(t) \in Nat
         /\ (\A x \in DOMAIN t : a <= t[x]) => Cardinality(DOMAIN t) * a <= SumFunction(t)
         /\ (\A x \in DOMAIN t : t[x] <= b) => SumFunction(t) <= Cardinality(DOMAIN t) * b
<1> DEFINE D == DOMAIN t
           g == SumOver(t)
           Low == \A x \in D : a <= t[x]
           High == \A x \in D : t[x] <= b
           Good(s) == /\ g[s] \in Nat
                      /\ Low => Cardinality(s) * a <= g[s]
                      /\ High => g[s] <= Cardinality(s) * b
           T == {n \in Nat : \A s \in SUBSET D : Cardinality(s) = n => Good(s)}
<1>0. \A s \in SUBSET D : IsFiniteSet(s) /\ Cardinality(s) \in Nat
  BY FS_Subset, FS_CardinalityType
<1>1. \A s \in SUBSET D : g[s] = IF s = {} THEN 0 ELSE t[Pick(s)] + g[s \ {Pick(s)}]
  BY SumOverDef DEF Sums
<1> HIDE DEF g
<1>2. 0 \in T
  <2>1. \A s \in SUBSET D : Cardinality(s) = 0 => s = {}
    BY <1>0, FS_EmptySet
  <2>2. \A s \in SUBSET D : s = {} => g[s] = 0
    BY <1>1
  <2>3. \A s \in SUBSET D : Cardinality(s) = 0 => g[s] = 0 /\ Cardinality(s) * a = 0
                                                 /\ Cardinality(s) * b = 0
    BY <2>1, <2>2
  <2> QED
    BY <2>3
<1>3. ASSUME NEW n \in Nat, n \in T
      PROVE  n + 1 \in T
  <2>1. SUFFICES ASSUME NEW s \in SUBSET D, Cardinality(s) = n + 1
                 PROVE  Good(s)
    OBVIOUS
  <2> DEFINE x == Pick(s)
             r == s \ {Pick(s)}
  <2>2. s # {}
    BY <2>1, FS_EmptySet
  <2>3. x \in D /\ r \in SUBSET D /\ Cardinality(r) = n
    BY <1>0, <2>1, <2>2, SmallerByOne
  <2>4. g[s] = t[x] + g[r]
    BY <1>1, <2>2
  <2> HIDE DEF x, r
  <2>5. Good(r)
    BY <1>3, <2>3
  <2>6. t[x] \in Nat /\ g[r] \in Nat /\ g[s] \in Nat
    BY <2>3, <2>4, <2>5
  <2>7. (n + 1) * a = n * a + a /\ (n + 1) * b = n * b + b /\ n * a \in Nat /\ n * b \in Nat
    OBVIOUS
  <2>8. ASSUME Low PROVE Cardinality(s) * a <= g[s]
    <3>1. a <= t[x] /\ n * a <= g[r]
      BY <2>3, <2>5, <2>8
    <3>2. n * a + a <= t[x] + g[r]
      BY <2>6, <2>7, <3>1
    <3> QED
      BY <2>1, <2>4, <2>7, <3>2
  <2>9. ASSUME High PROVE g[s] <= Cardinality(s) * b
    <3>1. t[x] <= b /\ g[r] <= n * b
      BY <2>3, <2>5, <2>9
    <3>2. t[x] + g[r] <= n * b + b
      BY <2>6, <2>7, <3>1
    <3> QED
      BY <2>1, <2>4, <2>7, <3>2
  <2> QED
    BY <2>6, <2>8, <2>9
<1>4. Cardinality(D) \in T
  <2> HIDE DEF T
  <2> QED
    BY <1>0, <1>2, <1>3, SetInduction
<1>5. Good(D)
  BY <1>4
<1>6. SumFunction(t) = g[D]
  BY SumUnfolds DEF g
<1> QED
  BY <1>5, <1>6

-----------------------------------------------------------------------------
(* FlattenSeq *)

Flat(ss) ==
    LET flatten[i \in 1 .. Len(ss)] == IF i = 1 THEN ss[i] ELSE flatten[i - 1] \o ss[i]
    IN  flatten

LEMMA FlattenUnfolds ==
  ASSUME NEW ss
  PROVE  FlattenSeq(ss) = IF Len(ss) = 0 THEN ss ELSE Flat(ss)[Len(ss)]
BY Zenon DEF FlattenSeq, Flat

\* What the recursion of FlattenSeq asks of a function on 1 .. n.
Concats(ss, n, g) == g = [i \in 1 .. n |-> IF i = 1 THEN ss[i] ELSE g[i - 1] \o ss[i]]

LEMMA ConcatsExist ==
  ASSUME NEW ss, NEW m \in Nat
  PROVE  \E g : Concats(ss, m, g)
<1> DEFINE T == {n \in Nat : \E g : Concats(ss, n, g)}
<1>1. 0 \in T
  <2>1. Concats(ss, 0, [i \in 1 .. 0 |-> ss[i]])
    BY DEF Concats
  <2> QED
    BY <2>1
<1>2. ASSUME NEW n \in Nat, n \in T
      PROVE  n + 1 \in T
  <2>1. PICK g : Concats(ss, n, g)
    BY <1>2
  <2> DEFINE h == [i \in 1 .. n + 1 |-> IF i = 1 THEN ss[i] ELSE g[i - 1] \o ss[i]]
  <2>2. \A i \in 1 .. n : g[i] = IF i = 1 THEN ss[i] ELSE g[i - 1] \o ss[i]
    BY <2>1 DEF Concats
  <2>3. \A i \in 1 .. n + 1 : i = 1 \/ i - 1 \in 1 .. n
    OBVIOUS
  <2>4. \A i \in 1 .. n : h[i] = g[i]
    <3>1. \A i \in 1 .. n : i \in 1 .. n + 1
      OBVIOUS
    <3> QED
      BY <2>2, <3>1
  <2>5. Concats(ss, n + 1, h)
    <3>1. \A i \in 1 .. n + 1 : i # 1 => h[i - 1] = g[i - 1]
      BY <2>3, <2>4
    <3> QED
      BY <3>1 DEF Concats
  <2> HIDE DEF h
  <2>6. \E w : Concats(ss, n + 1, w)
    BY <2>5
  <2>7. n + 1 \in Nat
    OBVIOUS
  <2> QED
    BY <2>6, <2>7
<1> HIDE DEF T
<1>3. m \in T
  BY <1>1, <1>2, SetInduction
<1> QED
  BY <1>3 DEF T

LEMMA FlatDef ==
  ASSUME NEW ss, Len(ss) \in Nat
  PROVE  Flat(ss) = [i \in 1 .. Len(ss) |-> IF i = 1 THEN ss[i] ELSE Flat(ss)[i - 1] \o ss[i]]
<1>1. PICK g : g = [i \in 1 .. Len(ss) |-> IF i = 1 THEN ss[i] ELSE g[i - 1] \o ss[i]]
  BY ConcatsExist DEF Concats
<1> QED
  BY <1>1, Zenon DEF Flat

\* q is a sequence over S with the elements of the first n of ss.
Flattened(q, ss, n, S) ==
    /\ q \in Seq(S)
    /\ \A i \in DOMAIN q : \E k \in 1 .. n : \E j \in DOMAIN ss[k] : q[i] = ss[k][j]
    /\ \A k \in 1 .. n : \A j \in DOMAIN ss[k] : \E i \in DOMAIN q : q[i] = ss[k][j]

\* c is a sequence over S with the elements of a and of b.
Concatenated(c, a, b, S) ==
    /\ c \in Seq(S)
    /\ \A i \in DOMAIN c : \/ \E j \in DOMAIN a : c[i] = a[j]
                           \/ \E j \in DOMAIN b : c[i] = b[j]
    /\ \A j \in DOMAIN a : \E i \in DOMAIN c : c[i] = a[j]
    /\ \A j \in DOMAIN b : \E i \in DOMAIN c : c[i] = b[j]

LEMMA ConcatElements ==
  ASSUME NEW S, NEW a \in Seq(S), NEW b \in Seq(S)
  PROVE  Concatenated(a \o b, a, b, S)
<1> DEFINE c == a \o b
<1>1. /\ c \in Seq(S) /\ Len(a) \in Nat /\ Len(b) \in Nat
      /\ DOMAIN a = 1 .. Len(a) /\ DOMAIN b = 1 .. Len(b)
      /\ DOMAIN c = 1 .. Len(a) + Len(b)
  OBVIOUS
<1>2. \A i \in 1 .. Len(a) + Len(b) : c[i] = IF i <= Len(a) THEN a[i] ELSE b[i - Len(a)]
  OBVIOUS
<1> HIDE DEF c
<1>3. ASSUME NEW i \in DOMAIN c
      PROVE  \/ \E j \in DOMAIN a : c[i] = a[j]
             \/ \E j \in DOMAIN b : c[i] = b[j]
  <2>1. CASE i <= Len(a)
    BY <1>1, <1>2, <2>1
  <2>2. CASE ~(i <= Len(a))
    <3>1. i - Len(a) \in DOMAIN b /\ c[i] = b[i - Len(a)]
      BY <1>1, <1>2, <2>2
    <3> QED
      BY <3>1
  <2> QED
    BY <2>1, <2>2
<1>4. ASSUME NEW j \in DOMAIN a
      PROVE  j \in DOMAIN c /\ c[j] = a[j]
  BY <1>1, <1>2
<1>5. ASSUME NEW j \in DOMAIN b
      PROVE  Len(a) + j \in DOMAIN c /\ c[Len(a) + j] = b[j]
  <2>1. Len(a) + j \in DOMAIN c /\ ~(Len(a) + j <= Len(a)) /\ (Len(a) + j) - Len(a) = j
    BY <1>1
  <2> QED
    BY <1>1, <1>2, <2>1
<1> QED
  <2>1. \A j \in DOMAIN a : \E i \in DOMAIN c : c[i] = a[j]
    BY <1>4
  <2>2. \A j \in DOMAIN b : \E i \in DOMAIN c : c[i] = b[j]
    BY <1>5
  <2> QED
    BY <1>1, <1>3, <2>1, <2>2 DEF c, Concatenated

LEMMA FlattenedNext ==
  ASSUME NEW S, NEW ss, NEW n \in Nat, NEW q, Flattened(q, ss, n, S), ss[n + 1] \in Seq(S)
  PROVE  Flattened(q \o ss[n + 1], ss, n + 1, S)
<1> DEFINE b == ss[n + 1]
           c == q \o b
<1>1. /\ q \in Seq(S) /\ b \in Seq(S) /\ n + 1 \in 1 .. n + 1
      /\ \A k \in 1 .. n + 1 : k \in 1 .. n \/ k = n + 1
      /\ \A k \in 1 .. n : k \in 1 .. n + 1
  BY DEF Flattened
<1>2. /\ c \in Seq(S)
      /\ \A i \in DOMAIN c : \/ \E j \in DOMAIN q : c[i] = q[j]
                             \/ \E j \in DOMAIN b : c[i] = b[j]
      /\ \A j \in DOMAIN q : \E i \in DOMAIN c : c[i] = q[j]
      /\ \A j \in DOMAIN b : \E i \in DOMAIN c : c[i] = b[j]
  <2>1. Concatenated(q \o b, q, b, S)
    BY <1>1, ConcatElements
  <2> QED
    BY <2>1 DEF Concatenated
<1> HIDE DEF c
<1>3. ASSUME NEW i \in DOMAIN c
      PROVE  \E k \in 1 .. n + 1 : \E j \in DOMAIN ss[k] : c[i] = ss[k][j]
  <2>1. ASSUME NEW l \in DOMAIN q, c[i] = q[l]
        PROVE  \E k \in 1 .. n + 1 : \E j \in DOMAIN ss[k] : c[i] = ss[k][j]
    <3>1. PICK k \in 1 .. n : \E j \in DOMAIN ss[k] : q[l] = ss[k][j]
      BY DEF Flattened
    <3> QED
      BY <1>1, <2>1, <3>1
  <2>2. ASSUME NEW j \in DOMAIN b, c[i] = b[j]
        PROVE  \E k \in 1 .. n + 1 : \E m \in DOMAIN ss[k] : c[i] = ss[k][m]
    BY <1>1, <2>2
  <2> QED
    BY <1>2, <2>1, <2>2
<1>4. ASSUME NEW k \in 1 .. n + 1, NEW j \in DOMAIN ss[k]
      PROVE  \E i \in DOMAIN c : c[i] = ss[k][j]
  <2>1. CASE k \in 1 .. n
    <3>1. PICK l \in DOMAIN q : q[l] = ss[k][j]
      BY <1>4, <2>1 DEF Flattened
    <3> QED
      BY <1>2, <3>1
  <2>2. CASE k = n + 1
    BY <1>2, <1>4, <2>2
  <2> QED
    BY <1>1, <1>4, <2>1, <2>2
<1> QED
  BY <1>2, <1>3, <1>4 DEF c, Flattened

\* Flattening sequences over S gives a sequence over S that has the elements of
\* all of them and no others.
LEMMA FlattenElements ==
  ASSUME NEW S, NEW ss \in Seq(Seq(S))
  PROVE  Flattened(FlattenSeq(ss), ss, Len(ss), S)
<1> DEFINE N == Len(ss)
           g == Flat(ss)
           T == {n \in Nat : n + 1 \in 1 .. N => Flattened(g[n + 1], ss, n + 1, S)}
<1>0. N \in Nat /\ DOMAIN ss = 1 .. N /\ \A k \in 1 .. N : ss[k] \in Seq(S)
  OBVIOUS
<1>1. \A i \in 1 .. N : g[i] = IF i = 1 THEN ss[i] ELSE g[i - 1] \o ss[i]
  BY <1>0, FlatDef
<1> HIDE DEF g, N
<1>2. 0 \in T
  <2>1. ASSUME 1 \in 1 .. N PROVE Flattened(g[1], ss, 1, S)
    <3>1. g[1] = ss[1] /\ ss[1] \in Seq(S) /\ 1 .. 1 = {1}
      BY <1>0, <1>1, <2>1
    <3> QED
      BY <3>1 DEF Flattened
  <2> QED
    BY <2>1
<1>3. ASSUME NEW m \in Nat, m \in T
      PROVE  m + 1 \in T
  <2> DEFINE n == m + 1
  <2>1. SUFFICES ASSUME n + 1 \in 1 .. N PROVE Flattened(g[n + 1], ss, n + 1, S)
    OBVIOUS
  <2>2. n \in Nat /\ n \in 1 .. N /\ n + 1 \in Nat /\ n + 1 # 1 /\ (n + 1) - 1 = n
    BY <1>0, <2>1
  <2>3. Flattened(g[n], ss, n, S)
    BY <1>3, <2>2
  <2>4. g[n + 1] = g[n] \o ss[n + 1] /\ ss[n + 1] \in Seq(S)
    BY <1>0, <1>1, <2>1, <2>2
  <2> HIDE DEF n
  <2> QED
    BY <2>2, <2>3, <2>4, FlattenedNext
<1>4. Nat \subseteq T
  <2> HIDE DEF T
  <2> QED
    BY <1>2, <1>3, SetInduction
<1>5. CASE N = 0
  <2>1. FlattenSeq(ss) = ss
    BY <1>5, FlattenUnfolds DEF N
  <2>2. ss \in Seq(S) /\ DOMAIN ss = {} /\ 1 .. Len(ss) = {}
    BY <1>0, <1>5 DEF N
  <2> QED
    BY <2>1, <2>2 DEF Flattened
<1>6. CASE N # 0
  <2>1. N - 1 \in Nat /\ (N - 1) + 1 = N /\ N \in 1 .. N
    BY <1>0, <1>6
  <2>2. N - 1 \in T
    BY <1>4, <2>1
  <2>3. Flattened(g[N], ss, N, S)
    BY <2>1, <2>2
  <2>4. FlattenSeq(ss) = g[N]
    BY <1>6, FlattenUnfolds DEF N, g
  <2> QED
    BY <2>3, <2>4 DEF N
<1> QED
  BY <1>5, <1>6
=============================================================================
