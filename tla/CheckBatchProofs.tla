--------------------------- MODULE CheckBatchProofs ---------------------------
(***************************************************************************)
(* Lemmas about the operators of CheckBatch, for READMEs of any length.    *)
(***************************************************************************)
EXTENDS CheckBatch, FiniteSetTheorems, SequenceTheorems, WellFoundedInduction, TLAPS

-----------------------------------------------------------------------------
(* Numbers                                                                 *)

\* A set of naturals has a smallest element ...
LEMMA Smallest == ASSUME NEW S, S \subseteq Nat, S # {} PROVE \E m \in S : \A n \in S : m <= n
<1> DEFINE less == OpToRel(<, Nat)
<1>1. \A a, b \in Nat : <<a, b>> \in less <=> a < b
  BY DEF OpToRel
<1>2. IsWellFoundedOn(less, Nat)
  BY NatLessThanWellFounded
<1> HIDE DEF less
<1>3. PICK m \in S : \A n \in S : <<n, m>> \notin less
  BY <1>2, WFMin
<1>4. m \in Nat /\ \A n \in S : n \in Nat /\ ~(n < m)
  BY <1>1, <1>3
<1> QED BY <1>4

\* ... so that a set which goes on from each of its elements has all naturals.
LEMMA Induct == ASSUME NEW S, 0 \in S, \A n \in Nat : n \in S => n + 1 \in S PROVE Nat \subseteq S
<1> SUFFICES ASSUME Nat \ S # {} PROVE FALSE
  OBVIOUS
<1>1. PICK m \in Nat \ S : \A n \in Nat \ S : m <= n
  BY Smallest
<1>2. m # 0 /\ m - 1 \in Nat
  BY <1>1
<1>3. m - 1 \in S
  BY <1>1, <1>2
<1> QED BY <1>1, <1>2, <1>3

LEMMA MinIs ==
    ASSUME NEW S, S \subseteq Nat, S # {}
    PROVE  Min(S) \in S /\ \A n \in S : Min(S) <= n
BY Smallest DEF Min

LEMMA MaxIs ==
    ASSUME NEW n \in Nat, NEW S, S \subseteq 0 .. n, S # {}
    PROVE  Max(S) \in S /\ \A i \in S : i <= Max(S)
<1> DEFINE D == {k \in 0 .. n : n - k \in S}
<1>1. \A i \in S : i \in 0 .. n /\ n - i \in 0 .. n /\ n - (n - i) = i
  OBVIOUS
<1>2. D \subseteq Nat /\ \A i \in S : n - i \in D
  BY <1>1
<1>3. D # {}
  BY <1>2
<1> HIDE DEF D
<1>4. PICK d \in D : \A e \in D : d <= e
  BY <1>2, <1>3, Smallest
<1>5. d \in 0 .. n /\ n - d \in S
  BY <1>4 DEF D
<1>6. \A i \in S : n - d >= i
  <2> SUFFICES ASSUME NEW i \in S PROVE n - d >= i
    OBVIOUS
  <2>1. d <= n - i /\ i \in 0 .. n
    BY <1>1, <1>2, <1>4
  <2> QED BY <1>5, <2>1
<1>7. Max(S) \in S /\ \A i \in S : Max(S) >= i
  BY <1>5, <1>6 DEF Max
<1>8. \A i \in S : i \in Nat
  OBVIOUS
<1> QED BY <1>7, <1>8

\* Sorted lists a set of positions, each once and in its order.
LEMMA SortedLists ==
    ASSUME NEW n \in Nat, NEW I, I \subseteq 1 .. n
    PROVE  /\ Cardinality(I) \in Nat
           /\ Sorted(I) \in [1 .. Cardinality(I) -> I]
           /\ \A j, k \in 1 .. Cardinality(I) : j < k => Sorted(I)[j] < Sorted(I)[k]
           /\ \A i \in I : \E k \in 1 .. Cardinality(I) : Sorted(I)[k] = i
<1> DEFINE N == Cardinality(I)
           upTo(i) == {j \in I : j <= i}
           place == [i \in I |-> Cardinality(upTo(i))]
<1>1. IsFiniteSet(I) /\ N \in Nat
  <2>1. IsFiniteSet(1 .. n)
    BY FS_Interval
  <2> QED BY <2>1, FS_Subset, FS_CardinalityType
<1>2. \A i \in I : IsFiniteSet(upTo(i)) /\ Cardinality(upTo(i)) \in 1 .. N
  <2> SUFFICES ASSUME NEW i \in I PROVE IsFiniteSet(upTo(i)) /\ Cardinality(upTo(i)) \in 1 .. N
    OBVIOUS
  <2>1. i \in upTo(i) /\ upTo(i) \subseteq I
    OBVIOUS
  <2>2. IsFiniteSet(upTo(i)) /\ Cardinality(upTo(i)) <= N
    BY <1>1, <2>1, FS_Subset
  <2>3. Cardinality(upTo(i)) \in Nat /\ Cardinality(upTo(i)) # 0
    BY <2>1, <2>2, FS_CardinalityType, FS_EmptySet
  <2> QED BY <1>1, <2>2, <2>3
<1>3. ASSUME NEW i \in I, NEW j \in I, i < j PROVE place[i] < place[j]
  <2>1. upTo(i) \subseteq upTo(j) /\ j \in upTo(j) /\ j \notin upTo(i)
    <3>1. i \in Nat /\ j \in Nat /\ \A k \in I : k \in Nat
      OBVIOUS
    <3>2. \A k \in I : k <= i => k <= j
      BY <1>3, <3>1
    <3>3. j <= j /\ ~(j <= i)
      BY <1>3, <3>1
    <3> QED BY <3>2, <3>3
  <2>2. Cardinality(upTo(i)) <= Cardinality(upTo(j)) /\ Cardinality(upTo(i)) # Cardinality(upTo(j))
    BY <1>2, <2>1, FS_Subset
  <2> QED BY <1>2, <2>2
<1>4. place \in [I -> 1 .. N]
  BY <1>2
<1>5. \A i, j \in I : place[i] = place[j] => i = j
  <2>1. \A i, j \in I : i # j => i < j \/ j < i
    OBVIOUS
  <2> HIDE DEF place, N
  <2> QED BY <1>3, <1>4, <2>1
<1>6. place \in Surjection(I, 1 .. N)
  <2>1. place \in Injection(I, 1 .. N)
    BY <1>4, <1>5 DEF Injection, IsInjective
  <2>2. IsFiniteSet(1 .. N) /\ Cardinality(1 .. N) = N
    BY <1>1, FS_Interval
  <2> QED BY <2>1, <2>2, FS_Injection
<1>7. \A k \in 1 .. N : \E i \in I : place[i] = k
  BY <1>6 DEF Surjection
<1>8. \A k \in 1 .. N : Sorted(I)[k] \in I /\ place[Sorted(I)[k]] = k
  <2> SUFFICES ASSUME NEW k \in 1 .. N PROVE Sorted(I)[k] \in I /\ place[Sorted(I)[k]] = k
    OBVIOUS
  <2>1. Sorted(I)[k] = CHOOSE i \in I : Cardinality(upTo(i)) = k
    BY DEF Sorted
  <2>2. \E i \in I : Cardinality(upTo(i)) = k
    BY <1>7
  <2> QED BY <2>1, <2>2
<1>9. Sorted(I) = [k \in 1 .. N |-> Sorted(I)[k]]
  BY DEF Sorted
<1> HIDE DEF place, N
<1>10. Sorted(I) \in [1 .. N -> I]
  BY <1>8, <1>9
<1>11. \A j, k \in 1 .. N : j < k => Sorted(I)[j] < Sorted(I)[k]
  <2> SUFFICES ASSUME NEW j \in 1 .. N, NEW k \in 1 .. N, j < k,
                      ~(Sorted(I)[j] < Sorted(I)[k])
               PROVE  FALSE
    OBVIOUS
  <2>1. Sorted(I)[j] \in Nat /\ Sorted(I)[k] \in Nat
    <3>1. Sorted(I)[j] \in I /\ Sorted(I)[k] \in I
      BY <1>8
    <3>2. \A i \in I : i \in Nat
      OBVIOUS
    <3> QED BY <3>1, <3>2
  <2>2. Sorted(I)[j] = Sorted(I)[k] \/ Sorted(I)[k] < Sorted(I)[j]
    BY <2>1
  <2>3. j \in Nat /\ k \in Nat /\ j # k /\ ~(k < j)
    BY <1>1
  <2> QED BY <1>3, <1>8, <2>2, <2>3
<1>12. \A i \in I : \E k \in 1 .. N : Sorted(I)[k] = i
  BY <1>4, <1>5, <1>8
<1> QED BY <1>1, <1>10, <1>11, <1>12 DEF N

\* f names the elements of I, each once and in its order.
Lists(f, N, I) ==
    /\ \A k \in 1 .. N : f[k] \in I
    /\ \A j, k \in 1 .. N : j < k => f[j] < f[k]
    /\ \A x \in I : \E k \in 1 .. N : f[k] = x

\* A list that does is the one Sorted makes.
LEMMA SortedUnique ==
    ASSUME NEW n \in Nat, NEW I, I \subseteq 1 .. n, NEW N \in Nat, NEW f, Lists(f, N, I)
    PROVE  DOMAIN Sorted(I) = 1 .. N /\ \A k \in 1 .. N : Sorted(I)[k] = f[k]
<1> USE DEF Lists
<1> DEFINE head(k) == {x \in I : \E l \in 1 .. k : f[l] = x}
           upTo(x) == {j \in I : j <= x}
<1>1. \A k \in 1 .. N : f[k] \in 1 .. n /\ f[k] \in Nat
  <2>1. \A i \in I : i \in 1 .. n /\ i \in Nat
    OBVIOUS
  <2> QED BY <2>1
<1>2. ASSUME NEW k \in 0 .. N PROVE Cardinality(head(k)) = k
  <2> DEFINE g == [l \in 1 .. k |-> f[l]]
  <2>1. \A l \in 1 .. k : l \in 1 .. N /\ f[l] \in head(k)
    OBVIOUS
  <2>2. \A l, m \in 1 .. k : f[l] = f[m] => l = m
    <3> SUFFICES ASSUME NEW l \in 1 .. k, NEW m \in 1 .. k, f[l] = f[m], l # m PROVE FALSE
      OBVIOUS
    <3>1. (l < m \/ m < l) /\ l \in 1 .. N /\ m \in 1 .. N
      OBVIOUS
    <3>2. f[l] < f[m] \/ f[m] < f[l]
      BY <3>1
    <3> QED BY <1>1, <3>1, <3>2
  <2>3. \A x \in head(k) : \E l \in 1 .. k : g[l] = x
    OBVIOUS
  <2>4. g \in Bijection(1 .. k, head(k))
    <3>1. g \in [1 .. k -> head(k)]
      BY <2>1
    <3>2. \A l, m \in 1 .. k : g[l] = g[m] => l = m
      BY <2>2
    <3> HIDE DEF g, head
    <3> QED BY <2>3, <3>1, <3>2 DEF Bijection, Injection, IsInjective, Surjection
  <2>5. IsFiniteSet(1 .. k) /\ Cardinality(1 .. k) = k
    BY FS_Interval
  <2>6. ExistsBijection(1 .. k, head(k))
    <3> HIDE DEF g, head
    <3> QED BY <2>4 DEF ExistsBijection
  <2> HIDE DEF head
  <2> QED BY <2>5, <2>6, FS_Bijection
<1>3. ASSUME NEW k \in 1 .. N PROVE upTo(f[k]) = head(k)
  <2>1. ASSUME NEW x \in I, x <= f[k] PROVE x \in head(k)
    <3>1. PICK l \in 1 .. N : f[l] = x
      OBVIOUS
    <3>2. ~(k < l)
      BY <1>1, <2>1, <3>1
    <3>3. l \in 1 .. k
      BY <3>2
    <3> QED BY <3>1, <3>3
  <2>2. ASSUME NEW x \in head(k) PROVE x <= f[k]
    <3>1. PICK l \in 1 .. k : f[l] = x
      OBVIOUS
    <3>2. l \in 1 .. N /\ (l < k \/ l = k)
      OBVIOUS
    <3> QED BY <1>1, <3>1, <3>2
  <2> QED BY <2>1, <2>2
<1>4. Cardinality(I) = N
  <2>1. head(N) = I
    OBVIOUS
  <2>2. N \in 0 .. N
    OBVIOUS
  <2> HIDE DEF head
  <2> QED BY <1>2, <2>1, <2>2
<1>5. ASSUME NEW k \in 1 .. N PROVE (CHOOSE i \in I : Cardinality(upTo(i)) = k) = f[k]
  <2>1. \A l \in 1 .. N : Cardinality(upTo(f[l])) = l
    <3> HIDE DEF head, upTo
    <3> QED BY <1>2, <1>3
  <2>2. \A i \in I : Cardinality(upTo(i)) = k => i = f[k]
    <3> HIDE DEF upTo
    <3> QED BY <2>1
  <2>3. f[k] \in I
    OBVIOUS
  <2> HIDE DEF upTo
  <2> QED BY <2>1, <2>2, <2>3
<1>6. Sorted(I) = [k \in 1 .. N |-> CHOOSE i \in I : Cardinality(upTo(i)) = k]
  BY <1>4 DEF Sorted
<1> HIDE DEF upTo
<1> QED BY <1>5, <1>6

-----------------------------------------------------------------------------
(* Sequences of sequences                                                  *)

\* e[i] is where the i-th of the sequences of s ends, when they are joined.
Ends(s, e) ==
    /\ e \in [0 .. Len(s) -> Nat]
    /\ e[0] = 0
    /\ \A i \in 1 .. Len(s) : e[i] = e[i - 1] + Len(s[i])

\* t is s joined: each element has its place, and there are no others.
Joins(s, e, t) ==
    /\ Len(t) = e[Len(s)]
    /\ \A i \in 1 .. Len(s) : \A j \in 1 .. Len(s[i]) :
          e[i - 1] + j \in 1 .. Len(t) /\ t[e[i - 1] + j] = s[i][j]
    /\ \A p \in 1 .. Len(t) : \E i \in 1 .. Len(s) : p \in e[i - 1] + 1 .. e[i]

LEMMA EndsGrow ==
    ASSUME NEW s, Len(s) \in Nat, NEW e, Ends(s, e), \A i \in 1 .. Len(s) : Len(s[i]) \in Nat
    PROVE  \A j \in 0 .. Len(s) : \A i \in 0 .. j : e[i] <= e[j]
<1> DEFINE S == {j \in Nat : j <= Len(s) => \A i \in 0 .. j : e[i] <= e[j]}
<1>1. \A j \in 0 .. Len(s) : e[j] \in Nat
  BY DEF Ends
<1>2. 0 \in S
  BY <1>1
<1>3. ASSUME NEW j \in Nat, j \in S PROVE j + 1 \in S
  <2> SUFFICES ASSUME j + 1 <= Len(s), NEW i \in 0 .. j + 1 PROVE e[i] <= e[j + 1]
    OBVIOUS
  <2>1. j + 1 \in 1 .. Len(s) /\ (j + 1) - 1 = j /\ j \in 0 .. Len(s)
    OBVIOUS
  <2>2. e[j + 1] = e[j] + Len(s[j + 1]) /\ Len(s[j + 1]) \in Nat /\ e[j] \in Nat
    BY <1>1, <2>1 DEF Ends
  <2>3. CASE i = j + 1
    BY <2>2, <2>3
  <2>4. CASE i # j + 1
    <3>1. i \in 0 .. j /\ e[i] \in Nat
      BY <1>1, <2>1, <2>4
    <3>2. e[i] <= e[j]
      BY <1>3, <2>1, <3>1
    <3> QED BY <2>2, <3>1, <3>2
  <2> QED BY <2>3, <2>4
<1> HIDE DEF S
<1>4. Nat \subseteq S
  BY <1>2, <1>3, Induct
<1> QED BY <1>4 DEF S

\* The function in the definition of FlattenSeq is what it says.
LEMMA FlattenDefined ==
    ASSUME NEW T, NEW s \in Seq(Seq(T)), s # <<>>
    PROVE  \E g \in [1 .. Len(s) -> Seq(T)] :
              /\ \A i \in 1 .. Len(s) : g[i] = IF i = 1 THEN s[i] ELSE g[i - 1] \o s[i]
              /\ FlattenSeq(s) = g[Len(s)]
<1> DEFINE flatten[i \in 1 .. Len(s)] == IF i = 1 THEN s[i] ELSE flatten[i - 1] \o s[i]
           Upto(n, g) == g = [i \in 1 .. n |-> IF i = 1 THEN s[i] ELSE g[i - 1] \o s[i]]
           S == {n \in Nat : n <= Len(s) => \E g : Upto(n, g)}
<1>1. Len(s) \in Nat \ {0} /\ \A i \in 1 .. Len(s) : s[i] \in Seq(T)
  BY EmptySeq, ElementOfSeq
<1>2. FlattenSeq(s) = flatten[Len(s)]
  BY <1>1, Zenon DEF FlattenSeq
<1>3. flatten = CHOOSE g : Upto(Len(s), g)
  BY Zenon DEF flatten
<1> HIDE DEF flatten
<1>4. 0 \in S
  <2>1. Upto(0, [i \in 1 .. 0 |-> IF i = 1 THEN s[i] ELSE <<>>])
    OBVIOUS
  <2> QED BY <2>1
<1>5. ASSUME NEW n \in Nat, n \in S PROVE n + 1 \in S
  <2> SUFFICES ASSUME n + 1 <= Len(s) PROVE \E g : Upto(n + 1, g)
    <3>1. n + 1 \in Nat
      OBVIOUS
    <3> HIDE DEF Upto
    <3> QED BY <3>1
  <2>1. n <= Len(s)
    BY <1>1
  <2>2. PICK g : Upto(n, g)
    <3> HIDE DEF Upto
    <3> QED BY <1>5, <2>1
  <2> DEFINE h == [i \in 1 .. n + 1 |->
                     IF i = 1 THEN s[i] ELSE (IF i = n + 1 THEN g[n] ELSE g[i - 1]) \o s[i]]
  <2>3. \A i \in 1 .. n : g[i] = IF i = 1 THEN s[i] ELSE g[i - 1] \o s[i]
    BY <2>2
  <2>4. \A i \in 1 .. n : h[i] = g[i]
    <3> SUFFICES ASSUME NEW i \in 1 .. n PROVE h[i] = g[i]
      OBVIOUS
    <3>1. i \in 1 .. n + 1 /\ i # n + 1
      OBVIOUS
    <3> QED BY <2>3, <3>1
  <2>5. \A i \in 1 .. n + 1 : h[i] = IF i = 1 THEN s[i] ELSE h[i - 1] \o s[i]
    <3> SUFFICES ASSUME NEW i \in 1 .. n + 1, i # 1 PROVE h[i] = h[i - 1] \o s[i]
      OBVIOUS
    <3>1. i - 1 \in 1 .. n
      OBVIOUS
    <3>2. h[i] = (IF i = n + 1 THEN g[n] ELSE g[i - 1]) \o s[i]
      OBVIOUS
    <3>3. i = n + 1 => i - 1 = n
      OBVIOUS
    <3>4. h[i - 1] = g[i - 1]
      BY <2>4, <3>1
    <3> HIDE DEF h
    <3> QED BY <3>2, <3>3, <3>4
  <2>6. h = [i \in 1 .. n + 1 |-> h[i]]
    OBVIOUS
  <2> HIDE DEF h
  <2>7. Upto(n + 1, h)
    BY <2>5, <2>6
  <2> QED BY <2>7
<1>6. \E g : Upto(Len(s), g)
  <2> HIDE DEF S
  <2>1. Nat \subseteq S
    BY <1>4, <1>5, Induct
  <2>2. Len(s) \in S
    BY <1>1, <2>1
  <2>3. Len(s) <= Len(s)
    BY <1>1
  <2> HIDE DEF Upto
  <2> QED BY <2>2, <2>3 DEF S
<1>7. Upto(Len(s), flatten)
  BY <1>3, <1>6
<1>8. \A i \in 1 .. Len(s) : flatten[i] = IF i = 1 THEN s[i] ELSE flatten[i - 1] \o s[i]
  BY <1>7
<1> DEFINE R == {n \in Nat : n + 1 <= Len(s) => flatten[n + 1] \in Seq(T)}
<1>9. 0 \in R
  BY <1>1, <1>8
<1>10. ASSUME NEW n \in Nat, n \in R PROVE n + 1 \in R
  <2> SUFFICES ASSUME n + 2 <= Len(s) PROVE flatten[n + 2] \in Seq(T)
    OBVIOUS
  <2>1. n + 2 \in 1 .. Len(s) /\ n + 2 # 1 /\ (n + 2) - 1 = n + 1 /\ n + 1 <= Len(s)
    BY <1>1
  <2>2. flatten[n + 2] = flatten[n + 1] \o s[n + 2]
    BY <1>8, <2>1
  <2>3. flatten[n + 1] \in Seq(T) /\ s[n + 2] \in Seq(T)
    BY <1>1, <1>10, <2>1
  <2> QED BY <2>2, <2>3, ConcatProperties
<1>11. \A i \in 1 .. Len(s) : flatten[i] \in Seq(T)
  <2> HIDE DEF R
  <2>1. Nat \subseteq R
    BY <1>9, <1>10, Induct
  <2> SUFFICES ASSUME NEW i \in 1 .. Len(s) PROVE flatten[i] \in Seq(T)
    OBVIOUS
  <2>2. i - 1 \in R /\ (i - 1) + 1 = i
    BY <1>1, <2>1
  <2> QED BY <2>2 DEF R
<1>12. flatten = [i \in 1 .. Len(s) |-> flatten[i]]
  BY <1>7
<1>13. flatten \in [1 .. Len(s) -> Seq(T)]
  BY <1>11, <1>12
<1> QED BY <1>2, <1>8, <1>13

\* A flattening is what its name says.
LEMMA FlattenPlaces ==
    ASSUME NEW T, NEW s \in Seq(Seq(T))
    PROVE  \E e : Ends(s, e) /\ FlattenSeq(s) \in Seq(T) /\ Joins(s, e, FlattenSeq(s))
<1>1. CASE s = <<>>
  <2> DEFINE e == [i \in 0 .. 0 |-> 0]
  <2>1. FlattenSeq(s) = <<>> /\ Len(s) = 0
    BY <1>1 DEF FlattenSeq
  <2>2. Ends(s, e)
    BY <2>1 DEF Ends
  <2>3. Joins(s, e, FlattenSeq(s))
    BY <2>1 DEF Joins
  <2> QED BY <2>1, <2>2, <2>3
<1>2. CASE s # <<>>
  <2> DEFINE n == Len(s)
  <2>1. PICK g \in [1 .. n -> Seq(T)] :
              /\ \A i \in 1 .. n : g[i] = IF i = 1 THEN s[i] ELSE g[i - 1] \o s[i]
              /\ FlattenSeq(s) = g[n]
    BY <1>2, FlattenDefined
  <2> DEFINE e == [i \in 0 .. n |-> IF i = 0 THEN 0 ELSE Len(g[i])]
  <2>2. n \in Nat \ {0} /\ \A i \in 1 .. n : s[i] \in Seq(T)
    BY <1>2, EmptySeq, ElementOfSeq
  <2>3. \A i \in 1 .. n : g[i] \in Seq(T) /\ s[i] \in Seq(T) /\ Len(g[i]) \in Nat /\ Len(s[i]) \in Nat
    <3>1. \A i \in 1 .. n : g[i] \in Seq(T) /\ s[i] \in Seq(T)
      BY <2>2
    <3> QED BY <3>1, LenProperties
  <2>4. e \in [0 .. n -> Nat] /\ e[0] = 0
    BY <2>2, <2>3
  <2>5. \A i \in 1 .. n : i \in 0 .. n /\ i # 0 /\ i - 1 \in 0 .. n /\ e[i] = Len(g[i])
    BY <2>2
  <2>6. \A i \in 1 .. n : i # 1 => i - 1 \in 1 .. n /\ g[i] = g[i - 1] \o s[i]
    <3>1. \A i \in 1 .. n : i # 1 => i - 1 \in 1 .. n
      BY <2>2
    <3>2. \A i \in 1 .. n : i # 1 => g[i] = g[i - 1] \o s[i]
      <4> HIDE DEF n
      <4> QED BY <2>1
    <3> QED BY <3>1, <3>2
  <2> HIDE DEF e, n
  <2>7. ASSUME NEW i \in 1 .. n
        PROVE  /\ e[i] = e[i - 1] + Len(s[i])
               /\ \A j \in 1 .. Len(s[i]) : g[i][e[i - 1] + j] = s[i][j]
               /\ i # 1 => \A p \in 1 .. e[i - 1] : g[i][p] = g[i - 1][p]
    <3>1. CASE i = 1
      <4>1. g[i] = s[i] /\ i - 1 = 0
        <5>1. g[i] = s[i]
          BY <2>1, <3>1
        <5> QED BY <3>1, <5>1
      <4>2. e[i] = Len(s[i]) /\ e[i - 1] = 0 /\ Len(s[i]) \in Nat
        BY <2>3, <2>4, <2>5, <4>1
      <4> QED BY <3>1, <4>1, <4>2
    <3>2. CASE i # 1
      <4>1. g[i] = g[i - 1] \o s[i] /\ g[i - 1] \in Seq(T) /\ s[i] \in Seq(T) /\ i - 1 \in 1 .. n
        BY <2>3, <2>6, <3>2
      <4>2. e[i] = Len(g[i]) /\ e[i - 1] = Len(g[i - 1])
        BY <2>5, <4>1
      <4>3. Len(g[i]) = Len(g[i - 1]) + Len(s[i])
        BY <4>1, ConcatProperties
      <4>4. \A j \in 1 .. Len(g[i - 1]) + Len(s[i]) :
               g[i][j] = IF j <= Len(g[i - 1]) THEN g[i - 1][j] ELSE s[i][j - Len(g[i - 1])]
        BY <4>1, ConcatProperties
      <4>5. Len(g[i - 1]) \in Nat /\ Len(s[i]) \in Nat
        BY <4>1
      <4>6. ASSUME NEW j \in 1 .. Len(s[i]) PROVE g[i][e[i - 1] + j] = s[i][j]
        <5> DEFINE k == Len(g[i - 1])
        <5>1. k + j \in 1 .. k + Len(s[i]) /\ ~(k + j <= k) /\ (k + j) - k = j
          <6>1. k \in Nat
            BY <4>5
          <6> HIDE DEF k
          <6> QED BY <4>5, <6>1
        <5>2. g[i][k + j] = s[i][(k + j) - k]
          BY <4>4, <5>1
        <5> QED BY <4>2, <5>1, <5>2
      <4>7. ASSUME NEW p \in 1 .. e[i - 1] PROVE g[i][p] = g[i - 1][p]
        <5> DEFINE k == Len(g[i - 1])
        <5>1. p \in 1 .. k + Len(s[i]) /\ p <= k
          <6>1. k \in Nat /\ p \in 1 .. k
            BY <4>2, <4>5
          <6> HIDE DEF k
          <6> QED BY <4>5, <6>1
        <5> QED BY <4>4, <5>1
      <4> QED BY <4>2, <4>3, <4>6, <4>7
    <3> QED BY <3>1, <3>2
  <2>8. Ends(s, e)
    BY <2>4, <2>7 DEF Ends, n
  <2>9. \A j \in 0 .. n : \A i \in 0 .. j : e[i] <= e[j]
    BY <2>2, <2>3, <2>8, EndsGrow DEF n
  <2> DEFINE S == {k \in Nat : k <= n =>
                     \A i \in 1 .. k : \A p \in 1 .. e[i] : g[k][p] = g[i][p]}
  <2>10. 0 \in S
    OBVIOUS
  <2>11. ASSUME NEW k \in Nat, k \in S PROVE k + 1 \in S
    <3> SUFFICES ASSUME k + 1 <= n, NEW i \in 1 .. k + 1, NEW p \in 1 .. e[i]
                 PROVE  g[k + 1][p] = g[i][p]
      OBVIOUS
    <3>1. CASE i = k + 1
      BY <3>1
    <3>2. CASE i # k + 1
      <4>1. i \in 1 .. k /\ k + 1 \in 1 .. n /\ (k + 1) - 1 = k /\ k + 1 # 1 /\ k \in 0 .. n
        BY <2>2, <3>2
      <4>2. e[i] <= e[k] /\ e[i] \in Nat /\ e[k] \in Nat
        BY <2>2, <2>4, <2>9, <4>1
      <4>3. p \in 1 .. e[k]
        BY <4>2
      <4>4. g[k + 1][p] = g[k][p]
        BY <2>7, <4>1, <4>3
      <4>5. g[k][p] = g[i][p]
        BY <2>2, <2>11, <4>1
      <4> QED BY <4>4, <4>5
    <3> QED BY <3>1, <3>2
  <2>12. \A i \in 1 .. n : \A p \in 1 .. e[i] : g[n][p] = g[i][p]
    <3> HIDE DEF S
    <3>1. n \in S
      BY <2>2, <2>10, <2>11, Induct
    <3>2. n <= n
      BY <2>2
    <3> QED BY <3>1, <3>2 DEF S
  <2>13. Len(g[n]) = e[n]
    BY <2>2, <2>5
  <2>14. ASSUME NEW i \in 1 .. n, NEW j \in 1 .. Len(s[i])
         PROVE  e[i - 1] + j \in 1 .. Len(g[n]) /\ g[n][e[i - 1] + j] = s[i][j]
    <3>1. i - 1 \in 0 .. n /\ i \in 0 .. n /\ n \in 0 .. n
      BY <2>2
    <3>2. e[i - 1] \in Nat /\ e[i] \in Nat /\ e[n] \in Nat /\ e[i] <= e[n] /\ Len(s[i]) \in Nat
      BY <2>3, <2>4, <2>9, <3>1
    <3>3. e[i] = e[i - 1] + Len(s[i])
      BY <2>7
    <3>4. e[i - 1] + j \in 1 .. e[i] /\ e[i - 1] + j \in 1 .. e[n]
      BY <3>2, <3>3
    <3> QED BY <2>7, <2>12, <2>13, <3>4
  <2>15. ASSUME NEW p \in 1 .. Len(g[n])
         PROVE  \E i \in 1 .. n : p \in e[i - 1] + 1 .. e[i]
    <3> DEFINE P == {i \in 0 .. n : p <= e[i]}
    <3>1. n \in P
      BY <2>2, <2>13
    <3>2. PICK i \in P : \A j \in P : i <= j
      <4>1. P \subseteq Nat
        OBVIOUS
      <4> HIDE DEF P
      <4> QED BY <3>1, <4>1, Smallest
    <3>3. i \in 1 .. n /\ i - 1 \in 0 .. n
      <4>1. i \in 0 .. n /\ p <= e[i] /\ ~(p <= 0)
        BY <2>2, <2>13
      <4>2. i # 0
        BY <2>4, <4>1
      <4> QED BY <2>2, <4>1, <4>2
    <3>4. ~(p <= e[i - 1])
      BY <3>2, <3>3
    <3>5. e[i - 1] \in Nat /\ e[i] \in Nat /\ p <= e[i] /\ p \in Nat
      BY <2>4, <2>13, <3>3
    <3> QED BY <3>3, <3>4, <3>5
  <2>16. Joins(s, e, g[n])
    BY <2>13, <2>14, <2>15 DEF Joins, n
  <2>17. g[n] \in Seq(T)
    BY <2>2, <2>3
  <2> QED BY <2>1, <2>8, <2>16, <2>17
<1> QED BY <1>1, <1>2

\* It has the elements of its parts, and no others.
LEMMA FlattenElements ==
    ASSUME NEW T, NEW s \in Seq(Seq(T))
    PROVE  /\ FlattenSeq(s) \in Seq(T)
           /\ \A i \in 1 .. Len(s) : \A j \in 1 .. Len(s[i]) :
                 \E p \in 1 .. Len(FlattenSeq(s)) : FlattenSeq(s)[p] = s[i][j]
           /\ \A p \in 1 .. Len(FlattenSeq(s)) :
                 \E i \in 1 .. Len(s) : \E j \in 1 .. Len(s[i]) : FlattenSeq(s)[p] = s[i][j]
<1> DEFINE t == FlattenSeq(s)
<1>1. PICK e : Ends(s, e) /\ t \in Seq(T) /\ Joins(s, e, t)
  BY FlattenPlaces
<1> HIDE DEF t
<1>2. \A p \in 1 .. Len(t) : \E i \in 1 .. Len(s) : \E j \in 1 .. Len(s[i]) : t[p] = s[i][j]
  <2> SUFFICES ASSUME NEW p \in 1 .. Len(t)
               PROVE  \E i \in 1 .. Len(s) : \E j \in 1 .. Len(s[i]) : t[p] = s[i][j]
    OBVIOUS
  <2>1. PICK i \in 1 .. Len(s) : p \in e[i - 1] + 1 .. e[i]
    BY <1>1 DEF Joins
  <2>2. Len(s) \in Nat /\ s[i] \in Seq(T) /\ Len(s[i]) \in Nat
    OBVIOUS
  <2>3. e[i - 1] \in Nat /\ e[i] = e[i - 1] + Len(s[i])
    <3>1. i - 1 \in 0 .. Len(s)
      BY <2>2
    <3> QED BY <1>1, <3>1 DEF Ends
  <2>4. p - e[i - 1] \in 1 .. Len(s[i]) /\ e[i - 1] + (p - e[i - 1]) = p
    BY <2>1, <2>2, <2>3
  <2>5. t[p] = s[i][p - e[i - 1]]
    BY <1>1, <2>4 DEF Joins
  <2> QED BY <2>4, <2>5
<1>3. \A i \in 1 .. Len(s) : \A j \in 1 .. Len(s[i]) : \E p \in 1 .. Len(t) : t[p] = s[i][j]
  BY <1>1 DEF Joins
<1> QED BY <1>1, <1>2, <1>3 DEF t

\* An element of the whole stands in one of its parts, ...
InPart(s, e, t, p) ==
    \E i \in 1 .. Len(s) : \E j \in 1 .. Len(s[i]) : p = e[i - 1] + j /\ t[p] = s[i][j]

LEMMA PlaceInPart ==
    ASSUME NEW T, NEW s \in Seq(Seq(T)), NEW e, Ends(s, e), NEW t, Joins(s, e, t),
           NEW p \in 1 .. Len(t)
    PROVE  InPart(s, e, t, p)
<1>1. PICK i \in 1 .. Len(s) : p \in e[i - 1] + 1 .. e[i]
  BY DEF Joins
<1>2. Len(s) \in Nat /\ s[i] \in Seq(T) /\ Len(s[i]) \in Nat
  OBVIOUS
<1>3. e[i - 1] \in Nat /\ e[i] = e[i - 1] + Len(s[i])
  <2>1. i - 1 \in 0 .. Len(s)
    BY <1>2
  <2> QED BY <2>1 DEF Ends
<1>4. p - e[i - 1] \in 1 .. Len(s[i]) /\ e[i - 1] + (p - e[i - 1]) = p
  BY <1>1, <1>2, <1>3
<1>5. t[p] = s[i][p - e[i - 1]]
  BY <1>4 DEF Joins
<1> QED BY <1>4, <1>5 DEF InPart

\* ... and part by part in their order.
LEMMA PlacesInOrder ==
    ASSUME NEW T, NEW s \in Seq(Seq(T)), NEW e, Ends(s, e),
           NEW i \in 1 .. Len(s), NEW j \in 1 .. Len(s[i]),
           NEW k \in 1 .. Len(s), NEW l \in 1 .. Len(s[k]),
           i < k \/ (i = k /\ j < l)
    PROVE  e[i - 1] + j < e[k - 1] + l
<1>1. Len(s) \in Nat /\ i - 1 \in 0 .. Len(s) /\ i \in 0 .. Len(s) /\ k - 1 \in 0 .. Len(s)
  OBVIOUS
<1>2. e[i - 1] \in Nat /\ e[i] \in Nat /\ e[k - 1] \in Nat
  BY <1>1 DEF Ends
<1>3. \A x \in 1 .. Len(s) : Len(s[x]) \in Nat
  <2>1. \A x \in 1 .. Len(s) : s[x] \in Seq(T)
    BY ElementOfSeq
  <2> QED BY <2>1, LenProperties
<1>4. CASE i = k
  BY <1>2, <1>3, <1>4
<1>5. CASE i < k
  <2>1. e[i] = e[i - 1] + Len(s[i])
    BY DEF Ends
  <2>2. i \in 0 .. k - 1
    BY <1>1, <1>5
  <2>3. e[i] <= e[k - 1]
    BY <1>1, <1>3, <2>2, EndsGrow
  <2>4. j <= Len(s[i]) /\ 1 <= l /\ Len(s[i]) \in Nat /\ j \in Nat /\ l \in Nat
    BY <1>3
  <2> DEFINE x == e[i - 1]
             y == e[k - 1]
             m == Len(s[i])
  <2>5. x \in Nat /\ y \in Nat /\ m \in Nat /\ x + m <= y /\ j <= m /\ 1 <= l
    BY <1>2, <2>1, <2>3, <2>4
  <2> HIDE DEF x, y, m
  <2>6. x + j < y + l
    BY <2>4, <2>5
  <2> QED BY <2>6 DEF x, y
<1> QED BY <1>4, <1>5

-----------------------------------------------------------------------------
(* Prose                                                                   *)

Text == Seq(Piece \cup {Space})

LEMMA PartIsText == ASSUME NEW c \in Child PROVE Part(c) \in Text
<1>1. c.text \in Text
  BY DEF Child, Text
<1>2. <<Space>> \in Text /\ <<>> \in Text
  BY DEF Text
<1> QED BY <1>1, <1>2 DEF Part

\* What Tidy leaves are the places Kept names, in their order.
LEMMA TidyKeeps ==
    ASSUME NEW t \in Text
    PROVE  LET kept == Sorted(Kept(t))
               K    == Cardinality(Kept(t))
           IN  /\ K \in Nat
               /\ kept \in [1 .. K -> Kept(t)]
               /\ \A j, k \in 1 .. K : j < k => kept[j] < kept[k]
               /\ \A i \in Kept(t) : \E k \in 1 .. K : kept[k] = i
               /\ Kept(t) \subseteq 1 .. Len(t)
               /\ Tidy(t) = [k \in 1 .. K |-> t[kept[k]]]
               /\ Tidy(t) \in Text
               /\ Len(Tidy(t)) = K
<1> DEFINE kept == Sorted(Kept(t))
           K    == Cardinality(Kept(t))
<1>1. Len(t) \in Nat /\ DOMAIN t = 1 .. Len(t) /\ \A i \in 1 .. Len(t) : t[i] \in Piece \cup {Space}
  BY DEF Text
<1>2. Kept(t) \subseteq 1 .. Len(t)
  BY <1>1 DEF Kept
<1>3. /\ K \in Nat
      /\ kept \in [1 .. K -> Kept(t)]
      /\ \A j, k \in 1 .. K : j < k => kept[j] < kept[k]
      /\ \A i \in Kept(t) : \E k \in 1 .. K : kept[k] = i
  BY <1>1, <1>2, SortedLists
<1>4. Tidy(t) = [k \in DOMAIN kept |-> t[kept[k]]]
  BY DEF Tidy, At
<1> HIDE DEF kept, K
<1>5. Tidy(t) = [k \in 1 .. K |-> t[kept[k]]]
  BY <1>3, <1>4
<1>6. Tidy(t) \in [1 .. K -> Piece \cup {Space}]
  <2>1. \A k \in 1 .. K : t[kept[k]] \in Piece \cup {Space}
    BY <1>1, <1>2, <1>3
  <2> QED BY <1>5, <2>1
<1>7. Tidy(t) \in Text /\ Len(Tidy(t)) = K
  BY <1>3, <1>6 DEF Text
<1> QED BY <1>2, <1>3, <1>5, <1>7 DEF kept, K

LEMMA PartsAreText ==
    ASSUME NEW children \in Seq(Child)
    PROVE  LET parts == [i \in DOMAIN children |-> Part(children[i])]
           IN  /\ parts \in Seq(Text)
               /\ Len(parts) = Len(children)
               /\ \A i \in 1 .. Len(children) : children[i] \in Child /\ parts[i] = Part(children[i])
<1>1. \A i \in 1 .. Len(children) : children[i] \in Child
  BY ElementOfSeq
<1>2. DOMAIN children = 1 .. Len(children) /\ Len(children) \in Nat
  OBVIOUS
<1> DEFINE parts == [i \in DOMAIN children |-> Part(children[i])]
<1>3. parts \in [1 .. Len(children) -> Text]
  BY <1>1, <1>2, PartIsText
<1>4. \A i \in 1 .. Len(children) : parts[i] = Part(children[i])
  BY <1>2
<1> HIDE DEF parts
<1>5. parts \in Seq(Text) /\ Len(parts) = Len(children)
  BY <1>2, <1>3
<1> QED BY <1>1, <1>4, <1>5 DEF parts

LEMMA ProseIsText ==
    ASSUME NEW children \in Seq(Child)
    PROVE  InlineProse(children) \in Text
<1> DEFINE parts == [i \in DOMAIN children |-> Part(children[i])]
<1>1. parts \in Seq(Text)
  BY PartsAreText
<1> HIDE DEF parts
<1>2. FlattenSeq(parts) \in Text
  BY <1>1, FlattenElements DEF Text
<1> QED BY <1>2, TidyKeeps DEF InlineProse, parts

\* A word runs from its start to the place before the next space.
LEMMA WordRuns ==
    ASSUME NEW t \in Text, NEW i \in Starts(t)
    PROVE  /\ i \in 1 .. Len(t)
           /\ \E m \in i .. Len(t) : /\ WordAt(t, i) = SubSeq(t, i, m)
                                     /\ \A k \in i .. m : t[k] # Space
                                     /\ m = Len(t) \/ t[m + 1] = Space
<1>1. Len(t) \in Nat /\ DOMAIN t = 1 .. Len(t)
  BY DEF Text
<1>2. i \in 1 .. Len(t) /\ t[i] # Space
  BY <1>1 DEF Starts
<1> DEFINE J == {j \in i .. Len(t) : \A k \in i .. j : t[k] # Space}
           m == Max(J)
<1>3. i \in J /\ J \subseteq 0 .. Len(t)
  BY <1>1, <1>2
<1>4. m \in J /\ \A j \in J : j <= m
  <2> HIDE DEF J
  <2> QED BY <1>1, <1>3, MaxIs
<1>5. m \in i .. Len(t) /\ \A k \in i .. m : t[k] # Space
  BY <1>4
<1>6. WordAt(t, i) = SubSeq(t, i, m)
  BY DEF WordAt
<1> HIDE DEF m
<1>7. m = Len(t) \/ t[m + 1] = Space
  <2> SUFFICES ASSUME m # Len(t), t[m + 1] # Space PROVE FALSE
    OBVIOUS
  <2>1. i \in Nat /\ m \in Nat /\ i <= m /\ m < Len(t) /\ Len(t) \in Nat
    <3>1. m \in i .. Len(t)
      BY <1>5, Zenon
    <3>2. Len(t) \in Nat /\ i \in Nat
      BY <1>1, <1>2
    <3> HIDE DEF J
    <3> QED BY <3>1, <3>2
  <2>2. /\ m + 1 \in i .. Len(t) /\ ~(m + 1 <= m)
        /\ \A k \in i .. m + 1 : k \in i .. m \/ k = m + 1
    <3> HIDE DEF J
    <3> QED BY <2>1
  <2>3. m + 1 \in J
    <3>1. \A k \in i .. m + 1 : t[k] # Space
      BY <1>5, <2>2
    <3> QED BY <2>2, <3>1
  <2> HIDE DEF J
  <2> QED BY <1>4, <2>2, <2>3
<1> QED BY <1>2, <1>5, <1>6, <1>7

LEMMA WordIsWord ==
    ASSUME NEW t \in Text, NEW i \in Starts(t)
    PROVE  WordAt(t, i) \in Seq(Piece)
<1>1. PICK m \in i .. Len(t) : WordAt(t, i) = SubSeq(t, i, m) /\ \A k \in i .. m : t[k] # Space
  BY WordRuns
<1>2. i \in 1 .. Len(t) /\ Len(t) \in Nat /\ \A k \in 1 .. Len(t) : t[k] \in Piece \cup {Space}
  BY WordRuns DEF Text
<1>3. SubSeq(t, i, m) = [k \in 1 .. m - i + 1 |-> t[i + k - 1]]
  BY <1>2
<1>4. \A k \in 1 .. m - i + 1 : t[i + k - 1] \in Piece
  <2> SUFFICES ASSUME NEW k \in 1 .. m - i + 1 PROVE t[i + k - 1] \in Piece
    OBVIOUS
  <2>1. i + k - 1 \in i .. m /\ i + k - 1 \in 1 .. Len(t)
    BY <1>2
  <2> QED BY <1>1, <1>2, <2>1
<1>5. m - i + 1 \in Nat
  BY <1>2
<1> QED BY <1>1, <1>3, <1>4, <1>5

\* Between two places of the list there is no other place.
LEMMA NothingBetween ==
    ASSUME NEW K \in Nat, NEW f, \A k \in 1 .. K : f[k] \in Nat,
           \A j, k \in 1 .. K : j < k => f[j] < f[k],
           NEW k \in 1 .. K, k + 1 \in 1 .. K, NEW l \in 1 .. K
    PROVE  ~(f[k] < f[l] /\ f[l] < f[k + 1])
<1>1. l < k \/ l = k \/ k + 1 < l \/ k + 1 = l
  OBVIOUS
<1>2. f[l] < f[k] \/ f[l] = f[k] \/ f[k + 1] < f[l] \/ f[k + 1] = f[l]
  BY <1>1
<1>3. f[k] \in Nat /\ f[l] \in Nat /\ f[k + 1] \in Nat
  OBVIOUS
<1> QED BY <1>2, <1>3

\* The places a word was kept from follow one another, and make a whole word: no
\* space between them was dropped, and the spaces around them are kept.
LEMMA WordIsUncut ==
    ASSUME NEW u \in Text, NEW i \in Starts(Tidy(u))
    PROVE  \E p, q \in 1 .. Len(u) :
              IsWord(u, p, q) /\ WordAt(Tidy(u), i) = SubSeq(u, p, q)
<1> DEFINE kept == Sorted(Kept(u))
           K    == Cardinality(Kept(u))
           t    == Tidy(u)
<1>1. /\ K \in Nat
      /\ kept \in [1 .. K -> Kept(u)]
      /\ \A j, k \in 1 .. K : j < k => kept[j] < kept[k]
      /\ \A x \in Kept(u) : \E k \in 1 .. K : kept[k] = x
      /\ Kept(u) \subseteq 1 .. Len(u)
      /\ t = [k \in 1 .. K |-> u[kept[k]]]
      /\ t \in Text
      /\ Len(t) = K
  BY TidyKeeps
<1> HIDE DEF kept, K, t
<1>2. PICK m \in i .. K : /\ WordAt(t, i) = SubSeq(t, i, m)
                          /\ \A k \in i .. m : t[k] # Space
                          /\ m = K \/ t[m + 1] = Space
  BY <1>1, WordRuns DEF t
<1>3. i \in 1 .. K /\ m \in 1 .. K /\ i <= m
  BY <1>1, <1>2, WordRuns DEF t
<1>4. \A k \in 1 .. K : kept[k] \in Kept(u) /\ kept[k] \in 1 .. Len(u) /\ kept[k] \in Nat /\ t[k] = u[kept[k]]
  BY <1>1
<1>5. ASSUME NEW k \in i .. m - 1 PROVE kept[k + 1] = kept[k] + 1
  <2>1. k \in 1 .. K /\ k + 1 \in 1 .. K /\ k < k + 1 /\ k \in i .. m /\ k + 1 \in i .. m
    BY <1>1, <1>3
  <2>2. kept[k] < kept[k + 1] /\ kept[k] \in Nat /\ kept[k + 1] \in Nat
    BY <1>1, <1>4, <2>1
  <2> DEFINE x == kept[k] + 1
  <2> SUFFICES ASSUME x < kept[k + 1] PROVE FALSE
    BY <2>2
  <2>3. x \notin Kept(u)
    <3> SUFFICES ASSUME NEW l \in 1 .. K, kept[l] = x PROVE FALSE
      BY <1>1
    <3>1. ~(kept[k] < kept[l] /\ kept[l] < kept[k + 1])
      BY <1>1, <1>4, <2>1, NothingBetween
    <3> QED BY <2>2, <3>1
  <2>4. Len(u) \in Nat /\ DOMAIN u = 1 .. Len(u) /\ kept[k + 1] \in 1 .. Len(u)
    BY <1>4, <2>1 DEF Text
  <2>5. x \in DOMAIN u /\ x > 1 /\ x - 1 = kept[k] /\ kept[k + 1] \in x .. Len(u)
    <3>1. kept[k] \in 1 .. Len(u)
      BY <1>4, <2>1
    <3> QED BY <2>2, <2>4, <3>1
  <2>6. u[x - 1] # Space /\ u[kept[k + 1]] # Space
    BY <1>2, <1>4, <2>1, <2>5
  <2> HIDE DEF x
  <2> QED BY <2>3, <2>5, <2>6 DEF Kept
<1> DEFINE S == {d \in Nat : i + d <= m => kept[i + d] = kept[i] + d}
<1>6. 0 \in S
  <2>1. i + 0 = i /\ kept[i] + 0 = kept[i]
    BY <1>3, <1>4
  <2> QED BY <2>1
<1>7. ASSUME NEW d \in Nat, d \in S PROVE d + 1 \in S
  <2> SUFFICES ASSUME i + (d + 1) <= m PROVE kept[i + (d + 1)] = kept[i] + (d + 1)
    OBVIOUS
  <2>1. i + d \in i .. m - 1 /\ i + d <= m /\ i + (d + 1) = (i + d) + 1
    BY <1>3
  <2>2. kept[i + (d + 1)] = kept[i + d] + 1
    BY <1>5, <2>1
  <2>3. kept[i + d] = kept[i] + d /\ kept[i] \in Nat
    BY <1>3, <1>4, <1>7, <2>1
  <2> QED BY <2>2, <2>3
<1>8. \A k \in i .. m : kept[k] = kept[i] + (k - i)
  <2> SUFFICES ASSUME NEW k \in i .. m PROVE kept[k] = kept[i] + (k - i)
    OBVIOUS
  <2> HIDE DEF S
  <2>1. Nat \subseteq S
    BY <1>6, <1>7, Induct
  <2>2. k - i \in S /\ i + (k - i) = k /\ k <= m
    BY <1>3, <2>1
  <2> QED BY <2>2 DEF S
<1> DEFINE p == kept[i]
           q == kept[m]
<1>9. p \in 1 .. Len(u) /\ q \in 1 .. Len(u) /\ q = p + (m - i) /\ Len(u) \in Nat
  BY <1>3, <1>4, <1>8 DEF Text
<1>10. \A k \in i .. m : t[k] = u[p + (k - i)]
  BY <1>1, <1>3, <1>4, <1>8
<1> HIDE DEF p, q
<1>11. ASSUME NEW x \in p .. q PROVE u[x] # Space
  <2>1. i + (x - p) \in i .. m /\ p + ((i + (x - p)) - i) = x
    BY <1>3, <1>9
  <2> QED BY <1>2, <1>10, <2>1
<1>12. SubSeq(t, i, m) = SubSeq(u, p, q)
  <2>1. /\ SubSeq(t, i, m) = [k \in 1 .. m - i + 1 |-> t[i + k - 1]]
        /\ SubSeq(u, p, q) = [k \in 1 .. q - p + 1 |-> u[p + k - 1]]
    BY <1>3, <1>9
  <2>2. q - p + 1 = m - i + 1
    BY <1>3, <1>9
  <2>3. \A k \in 1 .. m - i + 1 : t[i + k - 1] = u[p + k - 1]
    <3> SUFFICES ASSUME NEW k \in 1 .. m - i + 1 PROVE t[i + k - 1] = u[p + k - 1]
      OBVIOUS
    <3>1. i + k - 1 \in i .. m /\ p + ((i + k - 1) - i) = p + k - 1
      BY <1>3, <1>9
    <3> QED BY <1>10, <3>1
  <2> QED BY <2>1, <2>2, <2>3
<1>13. p <= q
  BY <1>3, <1>9
<1>14. ASSUME p # 1, u[p - 1] # Space PROVE FALSE
  <2>1. p - 1 \in DOMAIN u /\ p - 1 < p /\ p \in Nat
    BY <1>9, <1>14 DEF Text
  <2>2. PICK l \in 1 .. K : kept[l] = p - 1
    BY <1>1, <1>14, <2>1 DEF Kept
  <2>3. kept[l] < kept[i]
    BY <2>1, <2>2 DEF p
  <2>4. l < i
    <3>1. ~(i < l) /\ i # l
      BY <1>1, <1>3, <1>4, <2>3
    <3> QED BY <1>3, <3>1
  <2>5. i # 1 /\ i - 1 \in 1 .. K /\ (i - 1) + 1 = i
    <3>1. l \in 1 .. K /\ K \in Nat
      BY <1>1, <2>2
    <3> QED BY <1>3, <2>4, <3>1
  <2>6. t[i - 1] = Space
    BY <2>5 DEF Starts, t
  <2>7. kept[i - 1] < p /\ kept[i - 1] \in Nat
    <3>1. i - 1 < i
      BY <1>3
    <3> QED BY <1>1, <1>3, <1>4, <2>5, <3>1 DEF p
  <2>8. l # i - 1
    BY <1>4, <1>14, <2>2, <2>5, <2>6
  <2>9. kept[l] < kept[i - 1]
    <3>1. l < i - 1
      BY <1>3, <2>4, <2>8
    <3> QED BY <1>1, <2>5, <3>1
  <2> QED BY <2>1, <2>2, <2>7, <2>9
<1>15. ASSUME q # Len(u), u[q + 1] # Space PROVE FALSE
  <2>1. q + 1 \in DOMAIN u /\ q < q + 1 /\ q \in Nat
    BY <1>9, <1>15 DEF Text
  <2>2. PICK l \in 1 .. K : kept[l] = q + 1
    BY <1>1, <1>15, <2>1 DEF Kept
  <2>3. kept[m] < kept[l]
    BY <2>1, <2>2 DEF q
  <2>4. m < l
    <3>1. ~(l < m) /\ m # l
      BY <1>1, <1>3, <1>4, <2>3
    <3> QED BY <1>3, <3>1
  <2>5. m # K /\ m + 1 \in 1 .. K
    BY <1>1, <1>3, <2>4
  <2>6. t[m + 1] = Space
    BY <1>2, <2>5
  <2>7. q < kept[m + 1] /\ kept[m + 1] \in Nat
    <3>1. m < m + 1
      BY <1>3
    <3> QED BY <1>1, <1>3, <1>4, <2>5, <3>1 DEF q
  <2>8. l # m + 1
    BY <1>4, <1>15, <2>2, <2>5, <2>6
  <2>9. kept[m + 1] < kept[l]
    <3>1. m + 1 < l
      BY <1>3, <2>4, <2>8
    <3> QED BY <1>1, <2>5, <3>1
  <2> QED BY <2>1, <2>2, <2>7, <2>9
<1>16. IsWord(u, p, q)
  BY <1>9, <1>11, <1>13, <1>14, <1>15 DEF IsWord
<1> QED BY <1>2, <1>9, <1>12, <1>16 DEF t

\* And each word of the text is a word of the prose: none is lost, none is joined to
\* its neighbour, none is cut (extract.py, _WS and strip).
THEOREM WordsAreKept ==
    ASSUME NEW u \in Text, NEW p \in Nat, NEW q \in Nat, IsWord(u, p, q)
    PROVE  \E i \in Starts(Tidy(u)) : WordAt(Tidy(u), i) = SubSeq(u, p, q)
<1> DEFINE kept == Sorted(Kept(u))
           K    == Cardinality(Kept(u))
           t    == Tidy(u)
<1>1. /\ K \in Nat
      /\ kept \in [1 .. K -> Kept(u)]
      /\ \A j, k \in 1 .. K : j < k => kept[j] < kept[k]
      /\ \A x \in Kept(u) : \E k \in 1 .. K : kept[k] = x
      /\ Kept(u) \subseteq 1 .. Len(u)
      /\ t = [k \in 1 .. K |-> u[kept[k]]]
      /\ t \in Text
      /\ Len(t) = K
  BY TidyKeeps
<1> HIDE DEF kept, K, t
<1>2. /\ Len(u) \in Nat /\ K \in Nat /\ p \in Nat /\ q \in Nat
      /\ 1 <= p /\ p <= q /\ q <= Len(u)
  BY <1>1 DEF Text, IsWord
<1>word. /\ \A x \in p .. q : u[x] # Space
         /\ p = 1 \/ u[p - 1] = Space
         /\ q = Len(u) \/ u[q + 1] = Space
         /\ DOMAIN u = 1 .. Len(u) /\ DOMAIN t = 1 .. K
         /\ u[p] # Space /\ u[q] # Space
  <2>1. p \in p .. q /\ q \in p .. q
    BY <1>2
  <2> QED BY <1>1, <2>1 DEF IsWord, Text
<1>3. \A k \in 1 .. K : kept[k] \in Kept(u) /\ kept[k] \in 1 .. Len(u) /\ kept[k] \in Nat /\ t[k] = u[kept[k]]
  BY <1>1
<1>4. \A k \in 1 .. K : k + 1 \in 1 .. K =>
         /\ kept[k] < kept[k + 1]
         /\ \A x \in Kept(u) : ~(kept[k] < x /\ x < kept[k + 1])
  <2> SUFFICES ASSUME NEW k \in 1 .. K, k + 1 \in 1 .. K
               PROVE  /\ kept[k] < kept[k + 1]
                      /\ \A l \in 1 .. K : ~(kept[k] < kept[l] /\ kept[l] < kept[k + 1])
    BY <1>1
  <2>1. k < k + 1
    OBVIOUS
  <2> QED BY <1>1, <1>3, <2>1, NothingBetween
<1>5. \A x \in p .. q : x \in Kept(u)
  <2> SUFFICES ASSUME NEW x \in p .. q PROVE x \in Kept(u)
    OBVIOUS
  <2>1. x \in 1 .. Len(u)
    BY <1>2
  <2> QED BY <1>word, <2>1 DEF Kept
<1>6. PICK i \in 1 .. K : kept[i] = p
  <2>1. p \in p .. q
    BY <1>2
  <2> QED BY <1>1, <1>5, <2>1
<1> DEFINE S == {d \in Nat : p + d <= q => i + d \in 1 .. K /\ kept[i + d] = p + d}
<1>7. 0 \in S
  <2>1. i + 0 = i /\ p + 0 = p
    BY <1>2
  <2> QED BY <1>6, <2>1
<1>8. ASSUME NEW d \in Nat, d \in S PROVE d + 1 \in S
  <2> SUFFICES ASSUME p + (d + 1) <= q
               PROVE  i + (d + 1) \in 1 .. K /\ kept[i + (d + 1)] = p + (d + 1)
    BY <1>2
  <2>1. i + d \in 1 .. K /\ kept[i + d] = p + d
    BY <1>2, <1>8
  <2>2. p + (d + 1) \in Kept(u) /\ p + (d + 1) \in Nat
    <3>1. p + (d + 1) \in p .. q
      BY <1>2
    <3> QED BY <1>2, <1>5, <3>1
  <2>3. PICK l \in 1 .. K : kept[l] = p + (d + 1)
    BY <1>1, <2>2
  <2>4. i + d < l
    <3>1. ~(l < i + d) /\ l # i + d
      <4>1. ~(kept[l] < kept[i + d]) /\ kept[l] # kept[i + d]
        BY <1>2, <2>1, <2>3
      <4> QED BY <1>1, <2>1, <4>1
    <3> QED BY <1>2, <2>1, <3>1
  <2>5. i + (d + 1) \in 1 .. K /\ (i + d) + 1 = i + (d + 1)
    <3>1. i + d \in 1 .. K
      BY <2>1
    <3> QED BY <1>2, <2>4, <3>1
  <2>6. kept[i + d] < kept[i + (d + 1)] /\ ~(kept[l] < kept[i + (d + 1)])
    <3>1. kept[i + d] < kept[l]
      BY <1>2, <2>1, <2>3
    <3> QED BY <1>3, <1>4, <2>1, <2>5, <3>1
  <2>7. kept[i + (d + 1)] \in Nat
    BY <1>3, <2>5
  <2>8. ~(kept[i + (d + 1)] > p + (d + 1)) /\ kept[i + (d + 1)] > p + d
    BY <1>2, <2>1, <2>3, <2>6, <2>7
  <2> QED BY <1>2, <2>5, <2>7, <2>8
<1>9. \A x \in p .. q : i + (x - p) \in 1 .. K /\ kept[i + (x - p)] = x
  <2> SUFFICES ASSUME NEW x \in p .. q PROVE i + (x - p) \in 1 .. K /\ kept[i + (x - p)] = x
    OBVIOUS
  <2> HIDE DEF S
  <2>1. Nat \subseteq S
    BY <1>7, <1>8, Induct
  <2>2. x - p \in S /\ p + (x - p) = x /\ x <= q
    BY <1>2, <2>1
  <2> QED BY <2>2 DEF S
<1> DEFINE m == i + (q - p)
<1>10. m \in 1 .. K /\ kept[m] = q /\ i <= m /\ m - i = q - p
  <2>1. q \in p .. q
    BY <1>2
  <2> QED BY <1>2, <1>9, <2>1
<1>11. \A k \in i .. m : k \in 1 .. K /\ t[k] = u[p + (k - i)] /\ t[k] # Space
  <2> SUFFICES ASSUME NEW k \in i .. m PROVE k \in 1 .. K /\ t[k] = u[p + (k - i)] /\ t[k] # Space
    OBVIOUS
  <2>1. p + (k - i) \in p .. q /\ i + ((p + (k - i)) - p) = k
    BY <1>2, <1>10
  <2> DEFINE x == p + (k - i)
  <2>2. k \in 1 .. K /\ kept[k] = x
    BY <1>9, <2>1
  <2>3. u[x] # Space
    BY <1>word, <2>1
  <2> QED BY <1>3, <2>2, <2>3
<1> HIDE DEF m
<1>12. i \in Starts(t)
  <2>1. t[i] # Space
    BY <1>10, <1>11
  <2>2. ASSUME i # 1 PROVE t[i - 1] = Space
    <3> SUFFICES ASSUME t[i - 1] # Space PROVE FALSE
      OBVIOUS
    <3> DEFINE x == kept[i - 1]
    <3>1. i - 1 \in 1 .. K /\ (i - 1) + 1 = i
      BY <1>1, <2>2
    <3>2. x < p /\ x \in 1 .. Len(u) /\ u[x] # Space /\ \A y \in Kept(u) : ~(x < y /\ y < p)
      BY <1>3, <1>4, <1>6, <3>1
    <3> HIDE DEF x
    <3>3. u[p - 1] = Space /\ x # p - 1
      <4>1. p # 1
        BY <1>2, <3>2
      <4> QED BY <1>word, <3>2, <4>1
    <3>4. x + 1 \in 1 .. Len(u) /\ x + 1 > 1 /\ (x + 1) - 1 = x /\ x < x + 1 /\ x + 1 < p
          /\ p \in x + 1 .. Len(u)
      BY <1>2, <3>2, <3>3
    <3>5. x + 1 \in Kept(u)
      BY <1>word, <3>2, <3>4 DEF Kept
    <3> QED BY <3>2, <3>4, <3>5
  <2> QED BY <1>word, <2>1, <2>2 DEF Starts
<1>13. m = K \/ t[m + 1] = Space
  <2> SUFFICES ASSUME m # K, t[m + 1] # Space PROVE FALSE
    OBVIOUS
  <2> DEFINE y == kept[m + 1]
  <2>1. m + 1 \in 1 .. K
    BY <1>1, <1>10
  <2>2. q < y /\ y \in 1 .. Len(u) /\ u[y] # Space /\ \A x \in Kept(u) : ~(q < x /\ x < y)
    BY <1>3, <1>4, <1>10, <2>1
  <2> HIDE DEF y
  <2>3. u[q + 1] = Space /\ y # q + 1
    <3>1. q # Len(u)
      BY <1>2, <2>2
    <3> QED BY <1>word, <2>2, <3>1
  <2>4. q + 1 \in 1 .. Len(u) /\ q + 1 > 1 /\ (q + 1) - 1 = q /\ q < q + 1 /\ q + 1 < y
        /\ y \in q + 1 .. Len(u)
    BY <1>2, <2>2, <2>3
  <2>5. q + 1 \in Kept(u)
    BY <1>word, <2>2, <2>4 DEF Kept
  <2> QED BY <2>2, <2>4, <2>5
<1> DEFINE J == {j \in i .. Len(t) : \A k \in i .. j : t[k] # Space}
<1>14. Max(J) = m
  <2>1. m \in J /\ J \subseteq 0 .. K
    <3>1. Len(t) = K
      BY <1>1
    <3>2. m \in i .. K /\ i .. K \subseteq 0 .. K
      BY <1>2, <1>10
    <3> QED BY <1>11, <3>1, <3>2
  <2>2. \A j \in J : j <= m
    <3> SUFFICES ASSUME NEW j \in J PROVE j <= m
      OBVIOUS
    <3>1. j \in i .. K /\ \A k \in i .. j : t[k] # Space
      BY <1>1
    <3> HIDE DEF J
    <3> SUFFICES ASSUME m + 1 <= j PROVE FALSE
      BY <1>2, <1>10, <3>1
    <3>2. m # K /\ m + 1 \in i .. j
      BY <1>2, <1>10, <3>1
    <3> QED BY <1>13, <3>1, <3>2
  <2>3. Max(J) \in J /\ m <= Max(J)
    <3> HIDE DEF J
    <3> QED BY <1>1, <2>1, MaxIs
  <2>4. Max(J) <= m /\ Max(J) \in Nat /\ m \in Nat
    BY <1>10, <2>1, <2>2, <2>3
  <2> HIDE DEF J
  <2> QED BY <2>3, <2>4
<1>15. WordAt(t, i) = SubSeq(t, i, m)
  BY <1>14 DEF WordAt
<1>16. SubSeq(t, i, m) = SubSeq(u, p, q)
  <2>1. /\ SubSeq(t, i, m) = [k \in 1 .. m - i + 1 |-> t[i + k - 1]]
        /\ SubSeq(u, p, q) = [k \in 1 .. q - p + 1 |-> u[p + k - 1]]
    BY <1>2, <1>10
  <2>2. \A k \in 1 .. q - p + 1 : t[i + k - 1] = u[p + k - 1]
    <3> SUFFICES ASSUME NEW k \in 1 .. q - p + 1 PROVE t[i + k - 1] = u[p + k - 1]
      OBVIOUS
    <3>1. i + k - 1 \in i .. m /\ p + ((i + k - 1) - i) = p + k - 1
      BY <1>2, <1>10
    <3> QED BY <1>11, <3>1
  <2> QED BY <1>10, <2>1, <2>2
<1> QED BY <1>12, <1>15, <1>16 DEF t

-----------------------------------------------------------------------------
(* What a reader sees                                                      *)

\* Of each child a reader sees what the prose has of it, or a gap in its place.
LEMMA PartInSight ==
    ASSUME NEW c \in Child
    PROVE  /\ Part(c) \in Seq(Piece \cup {Space, Gap})
           /\ Sight(c) \in Seq(Piece \cup {Space, Gap})
           /\ \A j \in 1 .. Len(Part(c)) : j \in 1 .. Len(Sight(c)) /\ Sight(c)[j] = Part(c)[j]
           /\ \A j \in 1 .. Len(Sight(c)) : Sight(c)[j] # Gap => j \in 1 .. Len(Part(c))
<1>1. c.text \in Seq(Piece \cup {Space}) /\ c.text \in Seq(Piece \cup {Space, Gap})
  BY DEF Child
<1>2. CASE c.type = "text"
  BY <1>1, <1>2 DEF Part, Sight
<1>3. CASE c.type = "break"
  BY <1>3 DEF Part, Sight
<1>4. CASE c.type = "marker"
  BY <1>4 DEF Part, Sight
<1>5. CASE c.type \notin {"text", "break", "marker"}
  <2>1. Part(c) = <<>> /\ Sight(c) = <<Gap>>
    BY <1>5 DEF Part, Sight
  <2>2. Len(<<Gap>>) = 1 /\ <<Gap>>[1] = Gap /\ Len(<<>>) = 0
    OBVIOUS
  <2> QED BY <2>1, <2>2
<1> QED BY <1>2, <1>3, <1>4, <1>5

\* The text of a block is what a reader sees of it without the gaps: each place of
\* the one has its place in the other, in the same order.
LEMMA SeenOrder ==
    ASSUME NEW children \in Seq(Child)
    PROVE  LET u == FlattenSeq([i \in DOMAIN children |-> Part(children[i])])
               v == Seen(children)
           IN  /\ Len(v) \in Nat /\ DOMAIN v = 1 .. Len(v)
               /\ \E h : /\ \A x \in 1 .. Len(u) : h[x] \in 1 .. Len(v) /\ v[h[x]] = u[x]
                         /\ \A x, y \in 1 .. Len(u) : x < y => h[x] < h[y]
                         /\ \A y \in 1 .. Len(v) :
                               v[y] # Gap => \E x \in 1 .. Len(u) : h[x] = y
<1> DEFINE T == Piece \cup {Space, Gap}
           n == Len(children)
           parts  == [i \in DOMAIN children |-> Part(children[i])]
           sights == [i \in DOMAIN children |-> Sight(children[i])]
           u == FlattenSeq(parts)
           v == Seen(children)
<1>1. n \in Nat /\ DOMAIN children = 1 .. n /\ \A i \in 1 .. n : children[i] \in Child
  BY ElementOfSeq
<1>2. \A i \in 1 .. n : parts[i] = Part(children[i]) /\ sights[i] = Sight(children[i])
  BY <1>1
<1>3. parts \in Seq(Seq(T)) /\ Len(parts) = n /\ sights \in Seq(Seq(T)) /\ Len(sights) = n
  <2>1. parts \in [1 .. n -> Seq(T)] /\ sights \in [1 .. n -> Seq(T)]
    BY <1>1, PartInSight
  <2> HIDE DEF parts, sights, T, n
  <2> QED BY <1>1, <2>1
<1>4. v = FlattenSeq(sights)
  BY DEF Seen
<1> HIDE DEF T, n, parts, sights, u, v
<1>5. /\ \A i \in 1 .. n : \A j \in 1 .. Len(parts[i]) :
            j \in 1 .. Len(sights[i]) /\ sights[i][j] = parts[i][j]
      /\ \A i \in 1 .. n : \A j \in 1 .. Len(sights[i]) :
            sights[i][j] # Gap => j \in 1 .. Len(parts[i])
  BY <1>1, <1>2, PartInSight
<1>6. PICK e : Ends(parts, e) /\ u \in Seq(T) /\ Joins(parts, e, u)
  BY <1>3, FlattenPlaces DEF u
<1>7. PICK d : Ends(sights, d) /\ v \in Seq(T) /\ Joins(sights, d, v)
  BY <1>3, <1>4, FlattenPlaces
<1> DEFINE To(x, y) == \E i \in 1 .. n : \E j \in 1 .. Len(parts[i]) :
                          x = e[i - 1] + j /\ y = d[i - 1] + j
           h == [x \in 1 .. Len(u) |-> CHOOSE y : To(x, y)]
<1>8. ASSUME NEW x \in 1 .. Len(u) PROVE \E y : To(x, y)
  <2>1. PICK i \in 1 .. Len(parts) : \E j \in 1 .. Len(parts[i]) :
           x = e[i - 1] + j /\ u[x] = parts[i][j]
    <3>1. InPart(parts, e, u, x)
      BY <1>3, <1>6, PlaceInPart
    <3> QED BY <3>1 DEF InPart
  <2>2. PICK j \in 1 .. Len(parts[i]) : x = e[i - 1] + j
    BY <2>1
  <2>3. i \in 1 .. n
    BY <1>3
  <2>4. To(x, d[i - 1] + j)
    BY <2>2, <2>3
  <2> QED BY <2>4
<1>9. ASSUME NEW x, NEW y, To(x, y) PROVE y \in 1 .. Len(v) /\ v[y] = u[x]
  <2>1. PICK i \in 1 .. n : \E j \in 1 .. Len(parts[i]) : x = e[i - 1] + j /\ y = d[i - 1] + j
    BY <1>9
  <2>2. PICK j \in 1 .. Len(parts[i]) : x = e[i - 1] + j /\ y = d[i - 1] + j
    BY <2>1
  <2>3. u[x] = parts[i][j]
    BY <1>3, <1>6, <2>2 DEF Joins
  <2>4. j \in 1 .. Len(sights[i]) /\ sights[i][j] = parts[i][j]
    BY <1>5
  <2>5. y \in 1 .. Len(v) /\ v[y] = sights[i][j]
    BY <1>3, <1>7, <2>2, <2>4 DEF Joins
  <2> QED BY <2>3, <2>4, <2>5
<1>10. \A i \in 1 .. n : \A j \in 1 .. Len(parts[i]) :
          e[i - 1] + j \in 1 .. Len(u) /\ d[i - 1] + j \in 1 .. Len(v)
  BY <1>3, <1>5, <1>6, <1>7 DEF Joins
<1>nat. Len(u) \in Nat /\ Len(v) \in Nat
  BY <1>6, <1>7
<1>11. ASSUME NEW x, NEW y, NEW x2, NEW y2, To(x, y), To(x2, y2)
       PROVE  (x < x2 => y < y2) /\ (x = x2 => y = y2)
  <2>1. PICK i \in 1 .. n : \E j \in 1 .. Len(parts[i]) : x = e[i - 1] + j /\ y = d[i - 1] + j
    BY <1>11
  <2>2. PICK j \in 1 .. Len(parts[i]) : x = e[i - 1] + j /\ y = d[i - 1] + j
    BY <2>1
  <2>3. PICK k \in 1 .. n : \E l \in 1 .. Len(parts[k]) : x2 = e[k - 1] + l /\ y2 = d[k - 1] + l
    BY <1>11
  <2>4. PICK l \in 1 .. Len(parts[k]) : x2 = e[k - 1] + l /\ y2 = d[k - 1] + l
    BY <2>3
  <2>5. j \in 1 .. Len(sights[i]) /\ l \in 1 .. Len(sights[k])
    BY <1>5
  <2>6. x \in Nat /\ x2 \in Nat /\ y \in Nat /\ y2 \in Nat
    <3>1. x \in 1 .. Len(u) /\ x2 \in 1 .. Len(u) /\ y \in 1 .. Len(v) /\ y2 \in 1 .. Len(v)
      BY <1>10, <2>2, <2>4
    <3> QED BY <1>nat, <3>1
  <2>7. CASE i < k \/ (i = k /\ j < l)
    <3>1. x < x2
      BY <1>3, <1>6, <2>2, <2>4, <2>7, PlacesInOrder
    <3>2. y < y2
      BY <1>3, <1>7, <2>2, <2>4, <2>5, <2>7, PlacesInOrder
    <3> QED BY <2>6, <3>1, <3>2
  <2>8. CASE k < i \/ (k = i /\ l < j)
    <3>1. x2 < x
      BY <1>3, <1>6, <2>2, <2>4, <2>8, PlacesInOrder
    <3> QED BY <2>6, <3>1
  <2>9. CASE i = k /\ j = l
    BY <2>2, <2>4, <2>6, <2>9
  <2>10. \/ i < k \/ (i = k /\ j < l)
         \/ k < i \/ (k = i /\ l < j)
         \/ i = k /\ j = l
    OBVIOUS
  <2> QED BY <2>7, <2>8, <2>9, <2>10
<1> HIDE DEF To
<1>12. \A x \in 1 .. Len(u) : To(x, h[x])
  BY <1>8
<1>13. ASSUME NEW y \in 1 .. Len(v), v[y] # Gap PROVE \E x \in 1 .. Len(u) : h[x] = y
  <2>1. PICK i \in 1 .. Len(sights) : \E j \in 1 .. Len(sights[i]) :
           y = d[i - 1] + j /\ v[y] = sights[i][j]
    <3>1. InPart(sights, d, v, y)
      BY <1>3, <1>7, PlaceInPart
    <3> QED BY <3>1 DEF InPart
  <2>2. PICK j \in 1 .. Len(sights[i]) : y = d[i - 1] + j /\ v[y] = sights[i][j]
    BY <2>1
  <2>3. i \in 1 .. n /\ j \in 1 .. Len(parts[i])
    BY <1>3, <1>5, <1>13, <2>2
  <2>4. To(e[i - 1] + j, y) /\ e[i - 1] + j \in 1 .. Len(u)
    BY <1>10, <2>2, <2>3 DEF To
  <2> DEFINE x == e[i - 1] + j
  <2>5. x \in 1 .. Len(u) /\ To(x, y) /\ To(x, h[x])
    BY <1>12, <2>4
  <2> HIDE DEF x, h
  <2>6. h[x] = y
    BY <1>11, <2>5
  <2> QED BY <2>5, <2>6
<1> HIDE DEF h
<1>14. \A x \in 1 .. Len(u) : h[x] \in 1 .. Len(v) /\ v[h[x]] = u[x]
  BY <1>9, <1>12
<1>15. \A x, y \in 1 .. Len(u) : x < y => h[x] < h[y]
  BY <1>11, <1>12
<1>16. Len(v) \in Nat /\ DOMAIN v = 1 .. Len(v)
  BY <1>7
<1> QED BY <1>13, <1>14, <1>15, <1>16 DEF u, v, parts

\* What is reported of a block is a whole word of it, as a reader sees it, but for the
\* gaps (extract.py, _inline_prose, drops inline code, images and HTML without a space).
THEOREM WordStands ==
    ASSUME NEW children \in Seq(Child), NEW i \in Starts(InlineProse(children))
    PROVE  LET v == Seen(children)
           IN  \E p, q \in DOMAIN v :
                  IsWord(v, p, q) /\ WordAt(InlineProse(children), i) = Ungapped(v, p, q)
<1> DEFINE parts == [j \in DOMAIN children |-> Part(children[j])]
           u == FlattenSeq(parts)
           v == Seen(children)
<1>1. parts \in Seq(Text)
  BY PartsAreText
<1>2. PICK h : /\ \A x \in 1 .. Len(u) : h[x] \in 1 .. Len(v) /\ v[h[x]] = u[x]
               /\ \A x, y \in 1 .. Len(u) : x < y => h[x] < h[y]
               /\ \A y \in 1 .. Len(v) : v[y] # Gap => \E x \in 1 .. Len(u) : h[x] = y
  BY SeenOrder
<1>3. Len(v) \in Nat /\ DOMAIN v = 1 .. Len(v)
  BY SeenOrder
<1>4. InlineProse(children) = Tidy(u)
  BY DEF InlineProse
<1> HIDE DEF parts, u, v
<1>5. u \in Text
  BY <1>1, FlattenElements DEF Text, u
<1>6. PICK p, q \in 1 .. Len(u) : IsWord(u, p, q) /\ WordAt(Tidy(u), i) = SubSeq(u, p, q)
  BY <1>4, <1>5, WordIsUncut
<1>7. /\ Len(u) \in Nat /\ p \in 1 .. Len(u) /\ q \in 1 .. Len(u) /\ p <= q
      /\ \A x \in 1 .. Len(u) : u[x] # Gap
      /\ \A x \in p .. q : x \in 1 .. Len(u) /\ u[x] # Space
      /\ p = 1 \/ u[p - 1] = Space
      /\ q = Len(u) \/ u[q + 1] = Space
  <2>1. Len(u) \in Nat /\ \A x \in 1 .. Len(u) : u[x] \in Piece \cup {Space}
    BY <1>5 DEF Text
  <2>2. \A x \in 1 .. Len(u) : u[x] # Gap
    BY <2>1, CheckAssumption DEF Gap, Space
  <2>3. \A x \in p .. q : x \in 1 .. Len(u)
    BY <2>1
  <2> QED BY <1>6, <2>1, <2>2, <2>3 DEF IsWord
<1>8. \A x, y \in 1 .. Len(u) : x <= y => h[x] <= h[y]
  <2> SUFFICES ASSUME NEW x \in 1 .. Len(u), NEW y \in 1 .. Len(u), x <= y PROVE h[x] <= h[y]
    OBVIOUS
  <2>1. (x < y \/ x = y) /\ h[x] \in Nat /\ h[y] \in Nat
    BY <1>2, <1>3, <1>7
  <2> QED BY <1>2, <2>1
<1> DEFINE a == IF p = 1 THEN 1 ELSE h[p - 1] + 1
           z == IF q = Len(u) THEN Len(v) ELSE h[q + 1] - 1
<1>9. /\ a \in 1 .. Len(v) /\ z \in 1 .. Len(v)
      /\ h[p] \in 1 .. Len(v) /\ h[q] \in 1 .. Len(v)
      /\ a <= h[p] /\ h[p] <= h[q] /\ h[q] <= z
      /\ a = 1 \/ v[a - 1] = Space
      /\ z = Len(v) \/ v[z + 1] = Space
      /\ \A x \in 1 .. Len(u) : x < p => h[x] < a
      /\ \A x \in 1 .. Len(u) : q < x => z < h[x]
  <2>1. h[p] \in 1 .. Len(v) /\ h[q] \in 1 .. Len(v) /\ h[p] <= h[q]
    BY <1>2, <1>7, <1>8
  <2>2. /\ a \in 1 .. Len(v) /\ a <= h[p]
        /\ a = 1 \/ v[a - 1] = Space
        /\ \A x \in 1 .. Len(u) : x < p => h[x] < a
    <3>1. CASE p = 1
      <4>1. a = 1
        BY <3>1
      <4>2. \A x \in 1 .. Len(u) : ~(x < p)
        BY <3>1
      <4> QED BY <1>3, <2>1, <4>1, <4>2
    <3>2. CASE p # 1
      <4> DEFINE b == p - 1
      <4>1. b \in 1 .. Len(u) /\ b < p /\ \A x \in 1 .. Len(u) : x < p => x <= b
        BY <1>7, <3>2
      <4>2. a = h[b] + 1 /\ u[b] = Space
        BY <1>7, <3>2
      <4> HIDE DEF a, b
      <4>3. h[b] \in 1 .. Len(v) /\ v[h[b]] = Space /\ h[b] < h[p]
        BY <1>2, <1>7, <4>1, <4>2
      <4>4. a \in 1 .. Len(v) /\ a <= h[p] /\ a - 1 = h[b]
        BY <1>3, <2>1, <4>2, <4>3
      <4>5. ASSUME NEW x \in 1 .. Len(u), x < p PROVE h[x] < a
        <5>1. h[x] <= h[b] /\ h[x] \in 1 .. Len(v)
          BY <1>2, <1>8, <4>1, <4>5
        <5> QED BY <1>3, <4>2, <4>3, <5>1
      <4> QED BY <4>3, <4>4, <4>5
    <3> QED BY <3>1, <3>2
  <2>3. /\ z \in 1 .. Len(v) /\ h[q] <= z
        /\ z = Len(v) \/ v[z + 1] = Space
        /\ \A x \in 1 .. Len(u) : q < x => z < h[x]
    <3>1. CASE q = Len(u)
      <4>1. z = Len(v)
        BY <3>1
      <4>2. \A x \in 1 .. Len(u) : ~(q < x)
        BY <1>7, <3>1
      <4> QED BY <1>3, <2>1, <4>1, <4>2
    <3>2. CASE q # Len(u)
      <4> DEFINE b == q + 1
      <4>1. b \in 1 .. Len(u) /\ q < b /\ \A x \in 1 .. Len(u) : q < x => b <= x
        BY <1>7, <3>2
      <4>2. z = h[b] - 1 /\ u[b] = Space
        BY <1>7, <3>2
      <4> HIDE DEF z, b
      <4>3. h[b] \in 1 .. Len(v) /\ v[h[b]] = Space /\ h[q] < h[b]
        BY <1>2, <1>7, <4>1, <4>2
      <4>4. z \in 1 .. Len(v) /\ h[q] <= z /\ z + 1 = h[b]
        BY <1>3, <2>1, <4>2, <4>3
      <4>5. ASSUME NEW x \in 1 .. Len(u), q < x PROVE z < h[x]
        <5>1. h[b] <= h[x] /\ h[x] \in 1 .. Len(v)
          BY <1>2, <1>8, <4>1, <4>5
        <5> QED BY <1>3, <4>2, <4>3, <5>1
      <4> QED BY <4>3, <4>4, <4>5
    <3> QED BY <3>1, <3>2
  <2> HIDE DEF a, z
  <2> QED BY <2>1, <2>2, <2>3
<1> HIDE DEF a, z
<1>10. /\ a \in Nat /\ z \in Nat /\ h[p] \in 1 .. Len(v) /\ h[q] \in 1 .. Len(v)
       /\ a <= z /\ 1 <= a /\ z <= Len(v)
  <2>1. /\ a \in 1 .. Len(v) /\ z \in 1 .. Len(v)
        /\ h[p] \in 1 .. Len(v) /\ h[q] \in 1 .. Len(v)
        /\ a <= h[p] /\ h[p] <= h[q] /\ h[q] <= z
    BY <1>9
  <2>2. Len(v) \in Nat
    BY <1>3
  <2> QED BY <2>1, <2>2
<1>11. ASSUME NEW y \in a .. z, v[y] # Gap PROVE \E x \in p .. q : h[x] = y
  <2>1. y \in 1 .. Len(v)
    BY <1>3, <1>10
  <2>2. PICK x \in 1 .. Len(u) : h[x] = y
    BY <1>2, <1>11, <2>1
  <2>3. a <= h[x] /\ h[x] <= z /\ h[x] \in Nat
    BY <1>3, <1>10, <2>1, <2>2
  <2>4. ~(x < p)
    <3> SUFFICES ASSUME x < p PROVE FALSE
      OBVIOUS
    <3>1. h[x] < a
      BY <1>9
    <3> QED BY <1>10, <2>3, <3>1
  <2>5. ~(q < x)
    <3> SUFFICES ASSUME q < x PROVE FALSE
      OBVIOUS
    <3>1. z < h[x]
      BY <1>9
    <3> QED BY <1>10, <2>3, <3>1
  <2>6. x \in p .. q
    BY <1>7, <2>4, <2>5
  <2> QED BY <2>2, <2>6
<1>12. ASSUME NEW y \in a .. z PROVE v[y] # Space
  <2>1. CASE v[y] = Gap
    BY <2>1 DEF Gap, Space
  <2>2. CASE v[y] # Gap
    <3>1. PICK x \in p .. q : h[x] = y
      BY <1>11, <2>2
    <3> QED BY <1>2, <1>7, <3>1
  <2> QED BY <2>1, <2>2
<1>13. IsWord(v, a, z)
  BY <1>9, <1>10, <1>12 DEF IsWord
<1> DEFINE I == {y \in a .. z : v[y] # Gap}
           N == q - p + 1
           f == [k \in 1 .. N |-> h[p + k - 1]]
<1>14. N \in Nat /\ \A k \in 1 .. N : p + k - 1 \in p .. q /\ p + k - 1 \in 1 .. Len(u)
  BY <1>7
<1>15. ASSUME NEW x \in p .. q PROVE h[x] \in I /\ v[h[x]] = u[x]
  <2>1. x \in 1 .. Len(u) /\ p <= x /\ x <= q
    BY <1>7
  <2>2. h[p] <= h[x] /\ h[x] <= h[q] /\ h[x] \in 1 .. Len(v) /\ v[h[x]] = u[x] /\ u[x] # Gap
    BY <1>2, <1>7, <1>8, <2>1
  <2>3. h[x] \in a .. z
    <3>1. h[x] \in Nat
      BY <1>3, <2>2
    <3>2. a <= h[p] /\ h[q] <= z
      BY <1>9
    <3>3. a \in Nat /\ z \in Nat /\ h[p] \in Nat /\ h[q] \in Nat
      BY <1>3, <1>10
    <3> QED BY <2>2, <3>1, <3>2, <3>3
  <2> QED BY <2>2, <2>3
<1>16. I \subseteq 1 .. Len(v)
  BY <1>3, <1>10
<1>17. \A k \in 1 .. N : f[k] \in I /\ f[k] = h[p + k - 1]
  <2> HIDE DEF I, N
  <2> QED BY <1>14, <1>15
<1>18. \A j, k \in 1 .. N : j < k => f[j] < f[k]
  <2> SUFFICES ASSUME NEW j \in 1 .. N, NEW k \in 1 .. N, j < k PROVE f[j] < f[k]
    OBVIOUS
  <2>1. p + j - 1 < p + k - 1
    BY <1>7, <1>14
  <2>2. h[p + j - 1] < h[p + k - 1]
    BY <1>2, <1>14, <2>1
  <2> HIDE DEF f, I, N
  <2> QED BY <1>17, <2>2
<1>19. \A y \in I : \E k \in 1 .. N : f[k] = y
  <2> SUFFICES ASSUME NEW y \in I PROVE \E k \in 1 .. N : f[k] = y
    OBVIOUS
  <2>1. PICK x \in p .. q : h[x] = y
    BY <1>11
  <2>2. x - p + 1 \in 1 .. N /\ p + (x - p + 1) - 1 = x
    BY <1>7
  <2> DEFINE k == x - p + 1
  <2>3. k \in 1 .. N /\ f[k] = h[x]
    BY <2>2
  <2> HIDE DEF f, k
  <2> QED BY <2>1, <2>3
<1> HIDE DEF I, N, f
<1>20. DOMAIN Sorted(I) = 1 .. N /\ \A k \in 1 .. N : Sorted(I)[k] = f[k]
  <2>1. Len(v) \in Nat /\ N \in Nat /\ \A k \in 1 .. N : f[k] \in I
    BY <1>3, <1>14, <1>17
  <2>2. Lists(f, N, I)
    BY <1>18, <1>19, <2>1 DEF Lists
  <2> QED BY <1>16, <2>1, <2>2, SortedUnique
<1>21. At(v, I) = [k \in 1 .. N |-> u[p + k - 1]]
  <2>1. At(v, I) = [k \in DOMAIN Sorted(I) |-> v[Sorted(I)[k]]]
    BY DEF At
  <2>2. At(v, I) = [k \in 1 .. N |-> v[f[k]]]
    BY <1>20, <2>1
  <2>3. \A k \in 1 .. N : v[f[k]] = u[p + k - 1]
    BY <1>14, <1>15, <1>17
  <2> QED BY <2>2, <2>3
<1>22. SubSeq(u, p, q) = [k \in 1 .. N |-> u[p + k - 1]]
  BY <1>7 DEF N
<1>23. WordAt(InlineProse(children), i) = Ungapped(v, a, z) /\ a \in DOMAIN v /\ z \in DOMAIN v
  <2>1. Ungapped(v, a, z) = At(v, I)
    BY DEF Ungapped, I
  <2> QED BY <1>3, <1>4, <1>6, <1>9, <1>21, <1>22, <2>1
<1> QED BY <1>13, <1>23 DEF v

-----------------------------------------------------------------------------
(* What the checkers print                                                 *)

Lines(r)    == 1 .. Len(ExtractLines(r))
Prose(r, n) == ExtractLines(r)[n].text

\* What a checker prints about r
HitRecord ==
    [readme : Readme, line : Nat, col : Nat, word : Seq(Piece), source : Tool]

LEMMA BlocksType ==
    ASSUME NEW r \in Readme
    PROVE  /\ Len(Blocks[r]) \in Nat
           /\ DOMAIN Blocks[r] = 1 .. Len(Blocks[r])
           /\ \A i \in DOMAIN Blocks[r] : /\ Blocks[r][i].line \in Nat \ {0}
                                          /\ Blocks[r][i].children \in Seq(Child)
           /\ \A i, j \in DOMAIN Blocks[r] : Blocks[r][i].line = Blocks[r][j].line => i = j
<1> DEFINE Block == [line : Nat \ {0}, children : Seq(Child)]
<1>1. Blocks[r] \in Seq(Block)
  BY CheckAssumption
<1>2. /\ Len(Blocks[r]) \in Nat
      /\ DOMAIN Blocks[r] = 1 .. Len(Blocks[r])
      /\ \A i \in DOMAIN Blocks[r] : Blocks[r][i] \in Block
  <2> HIDE DEF Block
  <2>1. Len(Blocks[r]) \in Nat /\ DOMAIN Blocks[r] = 1 .. Len(Blocks[r])
    BY <1>1, LenProperties
  <2>2. \A i \in 1 .. Len(Blocks[r]) : Blocks[r][i] \in Block
    BY <1>1, ElementOfSeq
  <2> QED BY <2>1, <2>2
<1>3. \A i \in DOMAIN Blocks[r] : Blocks[r][i].line \in Nat \ {0} /\ Blocks[r][i].children \in Seq(Child)
  BY <1>2
<1>4. ASSUME NEW i \in DOMAIN Blocks[r], NEW j \in DOMAIN Blocks[r],
             Blocks[r][i].line = Blocks[r][j].line, i # j
      PROVE  FALSE
  <2>1. i < j \/ j < i
    BY <1>2, <1>4
  <2>2. Blocks[r][i].line < Blocks[r][j].line \/ Blocks[r][j].line < Blocks[r][i].line
    BY <2>1, CheckAssumption
  <2>3. Blocks[r][i].line \in Nat /\ Blocks[r][j].line \in Nat
    BY <1>3
  <2> QED BY <1>4, <2>2, <2>3
<1> QED BY <1>2, <1>3, <1>4

\* The lines of a file are the blocks that have prose, each once.
LEMMA LinesAreBlocks ==
    ASSUME NEW r \in Readme
    PROVE  /\ Len(ExtractLines(r)) \in Nat
           /\ DOMAIN ExtractLines(r) = Lines(r)
           /\ \A n \in Lines(r) :
                 /\ ExtractLines(r)[n].line \in Nat
                 /\ Prose(r, n) \in Text
                 /\ \E i \in DOMAIN Blocks[r] :
                       /\ ExtractLines(r)[n].line = Blocks[r][i].line
                       /\ Prose(r, n) = InlineProse(Blocks[r][i].children)
           /\ \A i \in DOMAIN Blocks[r] : InlineProse(Blocks[r][i].children) # <<>> =>
                 \E n \in Lines(r) : /\ ExtractLines(r)[n].line = Blocks[r][i].line
                                     /\ Prose(r, n) = InlineProse(Blocks[r][i].children)
           /\ \A m, n \in Lines(r) : ExtractLines(r)[m].line = ExtractLines(r)[n].line => m = n
<1> DEFINE I == {i \in DOMAIN Blocks[r] : InlineProse(Blocks[r][i].children) # <<>>}
           index == Sorted(I)
           K == Cardinality(I)
           X == ExtractLines(r)
<1>1. I \subseteq 1 .. Len(Blocks[r]) /\ Len(Blocks[r]) \in Nat
  BY BlocksType
<1>2. /\ K \in Nat
      /\ index \in [1 .. K -> I]
      /\ \A j, k \in 1 .. K : j < k => index[j] < index[k]
      /\ \A i \in I : \E k \in 1 .. K : index[k] = i
  <2> HIDE DEF I
  <2> QED BY <1>1, SortedLists
<1>3. X = [n \in DOMAIN index |-> [line |-> Blocks[r][index[n]].line,
                                   text |-> InlineProse(Blocks[r][index[n]].children)]]
  BY DEF ExtractLines, Readable
<1>4. \A i \in I : i \in DOMAIN Blocks[r] /\ i \in Nat
  BY <1>1
<1>5. \A i \in DOMAIN Blocks[r] : InlineProse(Blocks[r][i].children) # <<>> => i \in I
  OBVIOUS
<1> HIDE DEF index, I, K, X
<1>6. DOMAIN index = 1 .. K
  BY <1>2
<1>7. \A n \in 1 .. K : /\ X[n].line = Blocks[r][index[n]].line
                        /\ X[n].text = InlineProse(Blocks[r][index[n]].children)
                        /\ index[n] \in DOMAIN Blocks[r] /\ index[n] \in Nat
  BY <1>2, <1>3, <1>4, <1>6
<1>8. DOMAIN X = 1 .. K /\ Len(X) = K
  <2>1. DOMAIN X = 1 .. K
    BY <1>3, <1>6
  <2>2. X \in Seq({X[n] : n \in 1 .. K})
    <3> DEFINE B == {X[n] : n \in 1 .. K}
    <3>1. X = [n \in 1 .. K |-> X[n]] /\ \A n \in 1 .. K : X[n] \in B
      BY <1>3, <1>6, <2>1
    <3> HIDE DEF B
    <3>2. X \in [1 .. K -> B]
      BY <3>1
    <3>3. X \in Seq(B)
      BY <1>2, <3>2
    <3> QED BY <3>3 DEF B
  <2>3. Len(X) \in Nat /\ DOMAIN X = 1 .. Len(X)
    BY <2>2, LenProperties
  <2> QED BY <1>2, <2>1, <2>3
<1>9. \A n \in 1 .. K : X[n].line \in Nat /\ X[n].text \in Text
  BY <1>7, BlocksType, ProseIsText
<1>10. ASSUME NEW m \in 1 .. K, NEW n \in 1 .. K, X[m].line = X[n].line PROVE m = n
  <2>1. index[m] = index[n]
    BY <1>7, <1>10, BlocksType
  <2>2. ~(m < n) /\ ~(n < m)
    BY <1>2, <1>7, <2>1
  <2> QED BY <1>2, <2>2
<1>11. ASSUME NEW i \in DOMAIN Blocks[r], InlineProse(Blocks[r][i].children) # <<>>
       PROVE  \E n \in 1 .. K : /\ X[n].line = Blocks[r][i].line
                                /\ X[n].text = InlineProse(Blocks[r][i].children)
  BY <1>2, <1>5, <1>7, <1>11
<1>12. Lines(r) = 1 .. K
  BY <1>8 DEF Lines, X
<1>13. \A n \in 1 .. K : \E i \in DOMAIN Blocks[r] :
          /\ X[n].line = Blocks[r][i].line
          /\ X[n].text = InlineProse(Blocks[r][i].children)
  BY <1>7
<1>14. \A n : Prose(r, n) = X[n].text
  BY DEF Prose, X
<1>15. ExtractLines(r) = X
  BY DEF X
<1> QED BY <1>2, <1>8, <1>9, <1>10, <1>11, <1>12, <1>13, <1>14, <1>15

LEMMA HitIsRecord ==
    ASSUME NEW r \in Readme, NEW by \in Tool, NEW n \in Lines(r),
           NEW i \in Reported(by, Prose(r, n))
    PROVE  /\ Hit(r, n, Prose(r, n), i, by) \in HitRecord
           /\ i \in Starts(Prose(r, n))
           /\ i \in Nat \ {0}
<1>1. Len(ExtractLines(r)) \in Nat /\ Prose(r, n) \in Text
  BY LinesAreBlocks
<1>2. i \in Starts(Prose(r, n))
  BY DEF Reported
<1>3. WordAt(Prose(r, n), i) \in Seq(Piece) /\ i \in 1 .. Len(Prose(r, n))
  BY <1>1, <1>2, WordIsWord, WordRuns
<1>4. n \in Nat /\ i \in Nat \ {0} /\ i - 1 \in Nat
  BY <1>1, <1>3 DEF Lines, Text
<1> QED BY <1>2, <1>3, <1>4 DEF Hit, HitRecord

LEMMA OnLinePrints ==
    ASSUME NEW r \in Readme, NEW by \in Tool, NEW n \in Lines(r)
    PROVE  LET L == OnLine(by, r, n, Prose(r, n))
           IN  /\ L \in Seq(HitRecord)
               /\ \A k \in 1 .. Len(L) : \E i \in Reported(by, Prose(r, n)) :
                     L[k] = Hit(r, n, Prose(r, n), i, by)
               /\ \A i \in Reported(by, Prose(r, n)) : \E k \in 1 .. Len(L) :
                     L[k] = Hit(r, n, Prose(r, n), i, by)
<1> DEFINE t == Prose(r, n)
           I == Reported(by, t)
           spots == Sorted(I)
           K == Cardinality(I)
           L == OnLine(by, r, n, t)
<1>1. Len(t) \in Nat /\ DOMAIN t = 1 .. Len(t)
  BY LinesAreBlocks DEF Text
<1>2. I \subseteq 1 .. Len(t)
  BY <1>1 DEF Reported, Starts
<1>3. /\ K \in Nat
      /\ spots \in [1 .. K -> I]
      /\ \A i \in I : \E k \in 1 .. K : spots[k] = i
  <2> HIDE DEF t, I
  <2> QED BY <1>1, <1>2, SortedLists
<1>4. L = [k \in DOMAIN spots |-> Hit(r, n, t, spots[k], by)]
  BY DEF OnLine
<1>5. \A i \in I : Hit(r, n, t, i, by) \in HitRecord
  BY HitIsRecord
<1> HIDE DEF spots, I, K, L, t
<1>6. L = [k \in 1 .. K |-> Hit(r, n, t, spots[k], by)]
  BY <1>3, <1>4
<1>7. L \in [1 .. K -> HitRecord]
  BY <1>3, <1>5, <1>6
<1>8. L \in Seq(HitRecord) /\ Len(L) = K
  BY <1>3, <1>7
<1>9. \A k \in 1 .. K : spots[k] \in I /\ L[k] = Hit(r, n, t, spots[k], by)
  BY <1>3, <1>6
<1> QED BY <1>3, <1>8, <1>9 DEF L, I, t

\* A checker prints a hit for each place it reports, and no others.
LEMMA ReportElements ==
    ASSUME NEW r \in Readme, NEW by \in Tool
    PROVE  /\ Report(by, r) \in Seq(HitRecord)
           /\ \A p \in 1 .. Len(Report(by, r)) :
                 \E n \in Lines(r) : \E i \in Reported(by, Prose(r, n)) :
                    Report(by, r)[p] = Hit(r, n, Prose(r, n), i, by)
           /\ \A n \in Lines(r) : \A i \in Reported(by, Prose(r, n)) :
                 \E p \in 1 .. Len(Report(by, r)) :
                    Report(by, r)[p] = Hit(r, n, Prose(r, n), i, by)
<1> DEFINE s == [n \in Lines(r) |-> OnLine(by, r, n, Prose(r, n))]
           R == Report(by, r)
<1>1. R = FlattenSeq(s)
  <2>1. DOMAIN ExtractLines(r) = Lines(r)
    BY LinesAreBlocks
  <2>2. R = FlattenSeq([n \in DOMAIN ExtractLines(r) |->
                            OnLine(by, r, n, ExtractLines(r)[n].text)])
    BY DEF Report
  <2> QED BY <2>1, <2>2 DEF Prose
<1>2. \A n \in Lines(r) : s[n] = OnLine(by, r, n, Prose(r, n))
  OBVIOUS
<1>3. s \in [Lines(r) -> Seq(HitRecord)]
  BY OnLinePrints
<1> HIDE DEF s, R
<1>4. s \in Seq(Seq(HitRecord)) /\ 1 .. Len(s) = Lines(r)
  <2>1. Len(ExtractLines(r)) \in Nat
    BY LinesAreBlocks
  <2> QED BY <1>3, <2>1 DEF Lines
<1>5. /\ R \in Seq(HitRecord)
      /\ \A n \in Lines(r) : \A k \in 1 .. Len(s[n]) : \E p \in 1 .. Len(R) : R[p] = s[n][k]
      /\ \A p \in 1 .. Len(R) : \E n \in Lines(r) : \E k \in 1 .. Len(s[n]) : R[p] = s[n][k]
  <2>1. /\ R \in Seq(HitRecord)
        /\ \A n \in 1 .. Len(s) : \A k \in 1 .. Len(s[n]) : \E p \in 1 .. Len(R) : R[p] = s[n][k]
        /\ \A p \in 1 .. Len(R) : \E n \in 1 .. Len(s) : \E k \in 1 .. Len(s[n]) : R[p] = s[n][k]
    <3>1. s \in Seq(Seq(HitRecord))
      BY <1>4
    <3>2. /\ FlattenSeq(s) \in Seq(HitRecord)
          /\ \A n \in 1 .. Len(s) : \A k \in 1 .. Len(s[n]) :
                \E p \in 1 .. Len(FlattenSeq(s)) : FlattenSeq(s)[p] = s[n][k]
          /\ \A p \in 1 .. Len(FlattenSeq(s)) :
                \E n \in 1 .. Len(s) : \E k \in 1 .. Len(s[n]) : FlattenSeq(s)[p] = s[n][k]
      BY ONLY <3>1, FlattenElements, Zenon
    <3> QED BY <1>1, <3>2
  <2> QED BY <1>4, <2>1
<1>6. ASSUME NEW p \in 1 .. Len(R)
      PROVE  \E n \in Lines(r) : \E i \in Reported(by, Prose(r, n)) :
                R[p] = Hit(r, n, Prose(r, n), i, by)
  <2>1. PICK n \in Lines(r) : \E k \in 1 .. Len(s[n]) : R[p] = s[n][k]
    BY <1>5
  <2> QED BY <1>2, <2>1, OnLinePrints
<1>7. ASSUME NEW n \in Lines(r), NEW i \in Reported(by, Prose(r, n))
      PROVE  \E p \in 1 .. Len(R) : R[p] = Hit(r, n, Prose(r, n), i, by)
  <2>1. PICK k \in 1 .. Len(s[n]) : s[n][k] = Hit(r, n, Prose(r, n), i, by)
    BY <1>2, OnLinePrints
  <2>2. PICK p \in 1 .. Len(R) : R[p] = s[n][k]
    BY <1>5
  <2> QED BY <2>1, <2>2
<1> QED BY <1>5, <1>6, <1>7 DEF R

\* The word l, in lower case, is reported in line n of r by these.
By(r, n, l) ==
    {by \in Tool : \E i \in Reported(by, Prose(r, n)) : Low(WordAt(Prose(r, n), i)) = l}

\* Where the hits with key k stand in what a checker prints about r
Places(by, r, k) == {p \in 1 .. Len(Report(by, r)) : Key(Report(by, r)[p]) = k}

\* The hit after which the row of k is named: codespell's first, else typos'
First(r, k) ==
    LET by == IF Places("codespell", r, k) # {} THEN "codespell" ELSE "typos"
    IN  Report(by, r)[Min(Places(by, r, k))]

LEMMA KeyOfHit ==
    ASSUME NEW r, NEW n, NEW t, NEW i, NEW by
    PROVE  /\ Key(Hit(r, n, t, i, by)) = <<r, n, Low(WordAt(t, i))>>
           /\ Hit(r, n, t, i, by).readme = r
           /\ Hit(r, n, t, i, by).line = n
           /\ Hit(r, n, t, i, by).col = IF by = "typos" THEN i - 1 ELSE 0
           /\ Hit(r, n, t, i, by).word = WordAt(t, i)
           /\ Hit(r, n, t, i, by).source = by
BY DEF Hit, Key

LEMMA PlaceIs ==
    ASSUME NEW r \in Readme, NEW by \in Tool, NEW n, NEW l, NEW p \in Places(by, r, <<r, n, l>>)
    PROVE  /\ n \in Lines(r) /\ by \in By(r, n, l)
           /\ \E i \in Reported(by, Prose(r, n)) :
                 /\ Report(by, r)[p] = Hit(r, n, Prose(r, n), i, by)
                 /\ Low(WordAt(Prose(r, n), i)) = l
<1>1. p \in 1 .. Len(Report(by, r)) /\ Key(Report(by, r)[p]) = <<r, n, l>>
  BY DEF Places
<1>2. PICK m \in Lines(r) : \E i \in Reported(by, Prose(r, m)) :
         Report(by, r)[p] = Hit(r, m, Prose(r, m), i, by)
  BY <1>1, ReportElements
<1>3. PICK i \in Reported(by, Prose(r, m)) : Report(by, r)[p] = Hit(r, m, Prose(r, m), i, by)
  BY <1>2
<1>4. <<r, n, l>> = <<r, m, Low(WordAt(Prose(r, m), i))>>
  BY <1>1, <1>3, KeyOfHit
<1>5. m = n /\ Low(WordAt(Prose(r, n), i)) = l
  BY <1>4
<1> QED BY <1>3, <1>5 DEF By

LEMMA ReportedHasPlace ==
    ASSUME NEW r \in Readme, NEW n \in Lines(r), NEW l, NEW by \in By(r, n, l)
    PROVE  Places(by, r, <<r, n, l>>) # {}
<1>1. PICK i \in Reported(by, Prose(r, n)) : Low(WordAt(Prose(r, n), i)) = l
  BY DEF By
<1>2. by \in Tool
  BY DEF By
<1>3. PICK p \in 1 .. Len(Report(by, r)) : Report(by, r)[p] = Hit(r, n, Prose(r, n), i, by)
  BY <1>2, ReportElements
<1>4. Key(Report(by, r)[p]) = <<r, n, l>>
  BY <1>1, <1>3, KeyOfHit
<1> QED BY <1>3, <1>4 DEF Places

\* A word that is reported is named after a place where it stands.
LEMMA FirstIs ==
    ASSUME NEW r \in Readme, NEW n \in Lines(r), NEW l, By(r, n, l) # {}
    PROVE  \E by \in Tool : \E i \in Reported(by, Prose(r, n)) :
              /\ First(r, <<r, n, l>>) = Hit(r, n, Prose(r, n), i, by)
              /\ Low(WordAt(Prose(r, n), i)) = l
<1> DEFINE k == <<r, n, l>>
           by == IF Places("codespell", r, k) # {} THEN "codespell" ELSE "typos"
<1>1. by \in Tool /\ Places(by, r, k) # {}
  <2>1. PICK c \in Tool : c \in By(r, n, l)
    BY DEF By
  <2>2. Places(c, r, k) # {}
    BY <2>1, ReportedHasPlace
  <2> QED BY <2>2 DEF Tool
<1>2. First(r, k) = Report(by, r)[Min(Places(by, r, k))]
  BY DEF First
<1> HIDE DEF by
<1>3. Min(Places(by, r, k)) \in Places(by, r, k)
  <2>1. Places(by, r, k) \subseteq Nat
    BY DEF Places
  <2> QED BY <1>1, <2>1, MinIs
<1> QED BY <1>1, <1>2, <1>3, PlaceIs

LEMMA FirstWord ==
    ASSUME NEW r \in Readme, NEW n \in Lines(r), NEW l, By(r, n, l) # {}
    PROVE  Low(First(r, <<r, n, l>>).word) = l
BY FirstIs, KeyOfHit

-----------------------------------------------------------------------------
(* The inductive invariant                                                 *)

RowRecord ==
    [readme : Readme, line : Nat, col : Nat, token : Seq(Piece), source : Tool \cup {"both"},
     score : {1, 2}, status : {"new", "false_positive", "confirmed"},
     verdict : {"none", "typo", "not_typo", "unsure"}]

\* Every variable keeps its type; a batch is of snapshots in the database.
CheckType ==
    /\ saved \subseteq Readme /\ IsFiniteSet(saved)
    /\ checked \subseteq saved
    /\ findings \subseteq RowRecord /\ IsFiniteSet(findings)
    /\ batch \subseteq saved
    /\ tool \in Tool \cup {"none"}
    /\ unread \in [Readme -> Seq(HitRecord)]
    /\ hits \in Seq(HitRecord)

\* The first n hits of R are among the first m that have been read.
ReadBy(R, n, m) == \A q \in 1 .. n : \E j \in 1 .. m : hits[j] = R[q]

ReadAll(by, r, m) == ReadBy(Report(by, r), Len(Report(by, r)), m)

\* What has been read and what is unread are together all of the report.
Printing ==
    \A r \in batch :
        /\ tool = "codespell" =>
              \/ unread[r] = Report("codespell", r)
              \/ unread[r] = <<>> /\ ReadAll("codespell", r, Len(hits))
        /\ tool = "typos" =>
              /\ ReadAll("codespell", r, Len(hits))
              /\ LET R == Report("typos", r)
                 IN  \E d \in 0 .. Len(R) : /\ unread[r] = SubSeq(R, d + 1, Len(R))
                                            /\ ReadBy(R, d, Len(hits))

\* The i-th hit is read after what the same checker has printed about the same file
\* before, and, if it is typos', after all of codespell's about it.
InOrder(i) ==
    LET h == hits[i]
        R == Report(h.source, h.readme)
    IN  /\ h.readme \in batch
        /\ h.source = "typos" => ReadAll("codespell", h.readme, i - 1)
        /\ \E p \in 1 .. Len(R) : h = R[p] /\ ReadBy(R, p - 1, i - 1)

HitsInOrder == \A i \in 1 .. Len(hits) : InOrder(i)

\* The row f is about a word in the n-th line of its README, has the name of the
\* first hit, and says which tools report the word, and where typos does.
RowIs(f, n) ==
    LET l  == Low(f.token)
        by == By(f.readme, n, l)
    IN  /\ f.line = ExtractLines(f.readme)[n].line
        /\ by # {}
        /\ f.token = First(f.readme, <<f.readme, n, l>>).word
        /\ f.source = "both" <=> by = Tool
        /\ f.source # "both" => by = {f.source}
        /\ f.col # 0 => /\ f.col + 1 \in Reported("typos", Prose(f.readme, n))
                        /\ Low(WordAt(Prose(f.readme, n), f.col + 1)) = l

RowsFromReports ==
    \A f \in findings : f.readme \in checked /\ \E n \in Lines(f.readme) : RowIs(f, n)

\* The row f is about the word at place i in line n of r.
RowFor(f, r, n, i) ==
    /\ f.readme = r
    /\ f.line = ExtractLines(r)[n].line
    /\ Low(f.token) = Low(WordAt(Prose(r, n), i))

ReportsHaveRows ==
    \A r \in checked : \A n \in Lines(r) : \A by \in Tool : \A i \in Reported(by, Prose(r, n)) :
        \E f \in findings : RowFor(f, r, n, i)

OneRowPerId == \A f, g \in findings : Id(f) = Id(g) => f = g

CheckInv ==
    CheckType /\ Printing /\ HitsInOrder /\ RowsFromReports /\ ReportsHaveRows /\ OneRowPerId

LEMMA ReportType ==
    ASSUME NEW r \in Readme, NEW by \in Tool
    PROVE  /\ Report(by, r) \in Seq(HitRecord)
           /\ Len(Report(by, r)) \in Nat
           /\ \A p \in 1 .. Len(Report(by, r)) : /\ Report(by, r)[p] \in HitRecord
                                                 /\ Report(by, r)[p].readme = r
                                                 /\ Report(by, r)[p].source = by
<1>1. Report(by, r) \in Seq(HitRecord)
  BY ReportElements
<1>2. ASSUME NEW p \in 1 .. Len(Report(by, r))
      PROVE  Report(by, r)[p].readme = r /\ Report(by, r)[p].source = by
  <2>1. PICK n \in Lines(r) : \E i \in Reported(by, Prose(r, n)) :
           Report(by, r)[p] = Hit(r, n, Prose(r, n), i, by)
    BY ReportElements
  <2> QED BY <2>1, KeyOfHit
<1>3. Len(Report(by, r)) \in Nat
  BY <1>1, LenProperties
<1>4. \A p \in 1 .. Len(Report(by, r)) : Report(by, r)[p] \in HitRecord
  BY <1>1, ElementOfSeq
<1> QED BY <1>1, <1>2, <1>3, <1>4

-----------------------------------------------------------------------------
(* What the order of the hits says about their groups                      *)

\* What has been read are words a checker reports.
LEMMA HitIs ==
    ASSUME CheckType, HitsInOrder, NEW j \in 1 .. Len(hits)
    PROVE  LET r == hits[j].readme
               n == hits[j].line
           IN  /\ r \in batch /\ r \in Readme /\ n \in Lines(r)
               /\ hits[j] \in HitRecord
               /\ hits[j].source \in Tool
               /\ \E i \in Reported(hits[j].source, Prose(r, n)) :
                     hits[j] = Hit(r, n, Prose(r, n), i, hits[j].source)
<1> DEFINE h == hits[j]
           r == h.readme
           by == h.source
<1>1. h \in HitRecord
  BY ElementOfSeq DEF CheckType
<1>2. InOrder(j)
  BY DEF HitsInOrder
<1>3. r \in batch /\ r \in Readme /\ by \in Tool
  BY <1>1, <1>2 DEF InOrder, HitRecord
<1>4. PICK p \in 1 .. Len(Report(by, r)) : h = Report(by, r)[p]
  BY <1>2 DEF InOrder
<1> HIDE DEF h, r, by
<1>5. PICK n \in Lines(r) : \E i \in Reported(by, Prose(r, n)) :
         Report(by, r)[p] = Hit(r, n, Prose(r, n), i, by)
  BY <1>3, <1>4, ReportElements
<1>6. h.line = n
  BY <1>4, <1>5, KeyOfHit
<1> QED BY <1>1, <1>3, <1>4, <1>5, <1>6 DEF h, r, by

\* Whatever the checkers' interleaving, the first hit of a group is the first one in
\* their reports.
LEMMA FirstHit ==
    ASSUME CheckType, HitsInOrder, NEW j \in 1 .. Len(hits)
    PROVE  LET k == Key(hits[j])
               I == {i \in DOMAIN hits : Key(hits[i]) = k}
           IN  /\ Min(I) \in I
               /\ hits[Min(I)] = First(hits[j].readme, k)
<1> DEFINE r == hits[j].readme
           k == Key(hits[j])
           I == {i \in DOMAIN hits : Key(hits[i]) = k}
           m == Min(I)
<1>1. DOMAIN hits = 1 .. Len(hits) /\ Len(hits) \in Nat
  BY LenProperties DEF CheckType
<1>2. m \in I /\ \A i \in I : m <= i
  <2>1. I \subseteq Nat /\ j \in I
    BY <1>1
  <2> HIDE DEF I
  <2> QED BY <2>1, MinIs
<1>3. m \in 1 .. Len(hits) /\ Key(hits[m]) = k
  BY <1>1, <1>2
<1> DEFINE by == hits[m].source
           R == Report(by, r)
<1>4. by \in Tool /\ r \in Readme
  BY <1>3, HitIs
<1>5. hits[m].readme = r
  BY <1>3 DEF Key
<1>6. InOrder(m)
  BY <1>3 DEF HitsInOrder
<1>7. PICK p \in 1 .. Len(R) : hits[m] = R[p] /\ ReadBy(R, p - 1, m - 1)
  BY <1>5, <1>6 DEF InOrder
<1>8. by = "typos" => ReadAll("codespell", r, m - 1)
  BY <1>5, <1>6 DEF InOrder
<1>9. \A i \in 1 .. m - 1 : Key(hits[i]) # k
  <2> SUFFICES ASSUME NEW i \in 1 .. m - 1, Key(hits[i]) = k PROVE FALSE
    OBVIOUS
  <2>1. i \in 1 .. Len(hits) /\ ~(m <= i)
    BY <1>1, <1>3
  <2>2. i \in I
    BY <1>1, <2>1
  <2> QED BY <1>2, <2>1, <2>2
<1> HIDE DEF r, k, I, m, by, R
<1>10. p \in Places(by, r, k) /\ Places(by, r, k) \subseteq Nat
  BY <1>3, <1>7 DEF Places, R
<1>11. \A q \in 1 .. p - 1 : q \notin Places(by, r, k)
  <2> SUFFICES ASSUME NEW q \in 1 .. p - 1, Key(R[q]) = k PROVE FALSE
    BY DEF Places, R
  <2>1. \E i \in 1 .. m - 1 : hits[i] = R[q]
    BY <1>7 DEF ReadBy
  <2> QED BY <1>9, <2>1
<1>12. Min(Places(by, r, k)) = p
  <2> DEFINE x == Min(Places(by, r, k))
  <2>1. x \in Places(by, r, k) /\ x <= p
    BY <1>10, MinIs
  <2>2. x \in Nat /\ p \in Nat /\ x \in 1 .. Len(Report(by, r))
    BY <1>10, <2>1 DEF Places
  <2> HIDE DEF x
  <2>3. ~(x \in 1 .. p - 1)
    BY <1>11, <2>1
  <2>4. x = p
    BY <2>1, <2>2, <2>3
  <2> QED BY <2>4 DEF x
<1>13. by = "typos" => Places("codespell", r, k) = {}
  <2> SUFFICES ASSUME by = "typos", NEW q \in Places("codespell", r, k) PROVE FALSE
    OBVIOUS
  <2>1. q \in 1 .. Len(Report("codespell", r)) /\ Key(Report("codespell", r)[q]) = k
    BY DEF Places
  <2>2. \E i \in 1 .. m - 1 : hits[i] = Report("codespell", r)[q]
    BY <1>8, <2>1 DEF ReadAll, ReadBy
  <2> QED BY <1>9, <2>1, <2>2
<1>14. First(r, k) = R[p]
  BY <1>4, <1>10, <1>12, <1>13 DEF First, Tool, R
<1> QED BY <1>2, <1>7, <1>14 DEF r, k, I, m

\* When both checkers are done, all they report of the batch has been read.
LEMMA AllRead ==
    ASSUME CheckType, Printing, tool = "typos", Unread = {}, NEW r \in batch, NEW by \in Tool
    PROVE  ReadAll(by, r, Len(hits))
<1>1. CASE by = "codespell"
  BY <1>1 DEF Printing
<1>2. CASE by = "typos"
  <2> DEFINE R == Report("typos", r)
  <2>1. r \in Readme /\ R \in Seq(HitRecord)
    BY ReportType DEF CheckType, Tool
  <2>2. PICK d \in 0 .. Len(R) : unread[r] = SubSeq(R, d + 1, Len(R)) /\ ReadBy(R, d, Len(hits))
    BY DEF Printing
  <2>3. unread[r] = <<>>
    BY DEF Unread
  <2>4. d = Len(R)
    <3> HIDE DEF R
    <3>1. Len(R) \in Nat /\ \A i \in d + 1 .. Len(R) : R[i] \in HitRecord
      BY <2>1, LenProperties, ElementOfSeq
    <3>2. Len(SubSeq(R, d + 1, Len(R))) = IF d + 1 <= Len(R) THEN Len(R) - (d + 1) + 1 ELSE 0
      BY <3>1, SubSeqProperties
    <3>3. Len(unread[r]) = 0
      BY <2>3
    <3> QED BY <2>2, <3>1, <3>2, <3>3
  <2> QED BY <1>2, <2>2, <2>4 DEF ReadAll
<1> QED BY <1>1, <1>2 DEF Tool

LEMMA ReportedIsRead ==
    ASSUME CheckType, Printing, tool = "typos", Unread = {},
           NEW r \in batch, NEW by \in Tool, NEW n \in Lines(r), NEW i \in Reported(by, Prose(r, n))
    PROVE  \E j \in 1 .. Len(hits) : hits[j] = Hit(r, n, Prose(r, n), i, by)
<1>1. r \in Readme
  BY DEF CheckType
<1>2. PICK p \in 1 .. Len(Report(by, r)) : Report(by, r)[p] = Hit(r, n, Prose(r, n), i, by)
  BY <1>1, ReportElements
<1>3. \E j \in 1 .. Len(hits) : hits[j] = Report(by, r)[p]
  BY AllRead DEF ReadAll, ReadBy
<1> QED BY <1>2, <1>3

\* A group is the row of the word it is about.
LEMMA MergedRow ==
    ASSUME CheckType, Printing, HitsInOrder, tool = "typos", Unread = {},
           NEW j \in 1 .. Len(hits)
    PROVE  LET r == hits[j].readme
               n == hits[j].line
               h == Merge(hits, Key(hits[j]))
               f == FindingRow(h)
           IN  /\ InFile(h)
               /\ f \in RowRecord
               /\ f.readme = r
               /\ Low(f.token) = Low(hits[j].word)
               /\ RowIs(f, n)
<1> DEFINE r == hits[j].readme
           n == hits[j].line
           k == Key(hits[j])
           l == Low(hits[j].word)
           I == {i \in DOMAIN hits : Key(hits[i]) = k}
           cols == {i \in I : hits[i].col # 0}
           first == hits[Min(I)]
           h == Merge(hits, k)
           f == FindingRow(h)
<1>1. DOMAIN hits = 1 .. Len(hits) /\ Len(hits) \in Nat
  BY LenProperties DEF CheckType
<1>2. r \in batch /\ r \in Readme /\ n \in Lines(r) /\ k = <<r, n, l>> /\ j \in I
  BY <1>1, HitIs DEF Key
<1>3. Min(I) \in I /\ first = First(r, k)
  BY FirstHit
<1>4. \A i \in I : i \in 1 .. Len(hits) /\ Key(hits[i]) = k
  BY <1>1
<1>5. first \in HitRecord /\ Key(first) = k
  BY <1>3, <1>4, HitIs
<1>6. first.readme = r /\ first.line = n /\ Low(first.word) = l
  BY <1>2, <1>5 DEF Key
<1>7. \A i \in I : \E x \in Reported(hits[i].source, Prose(r, n)) :
         /\ hits[i] = Hit(r, n, Prose(r, n), x, hits[i].source)
         /\ hits[i].source \in Tool
         /\ Low(WordAt(Prose(r, n), x)) = l
  <2> SUFFICES ASSUME NEW i \in I
               PROVE  \E x \in Reported(hits[i].source, Prose(r, n)) :
                         /\ hits[i] = Hit(r, n, Prose(r, n), x, hits[i].source)
                         /\ hits[i].source \in Tool
                         /\ Low(WordAt(Prose(r, n), x)) = l
    OBVIOUS
  <2>1. i \in 1 .. Len(hits) /\ hits[i].readme = r /\ hits[i].line = n /\ Low(hits[i].word) = l
    BY <1>2, <1>4 DEF Key
  <2>2. PICK x \in Reported(hits[i].source, Prose(r, n)) :
           hits[i] = Hit(r, n, Prose(r, n), x, hits[i].source)
    BY <2>1, HitIs
  <2>3. hits[i].word = WordAt(Prose(r, n), x) /\ hits[i].source \in Tool
    BY <2>1, <2>2, KeyOfHit, HitIs
  <2> QED BY <2>1, <2>2, <2>3
<1>8. {hits[i].source : i \in I} = By(r, n, l)
  <2>1. \A i \in I : hits[i].source \in By(r, n, l)
    BY <1>7 DEF By
  <2>2. ASSUME NEW by \in By(r, n, l) PROVE \E i \in I : hits[i].source = by
    <3>1. PICK x \in Reported(by, Prose(r, n)) : Low(WordAt(Prose(r, n), x)) = l
      BY DEF By
    <3>2. by \in Tool
      BY DEF By
    <3>3. PICK i \in 1 .. Len(hits) : hits[i] = Hit(r, n, Prose(r, n), x, by)
      BY <1>2, <3>2, ReportedIsRead
    <3>4. Key(hits[i]) = k /\ hits[i].source = by
      BY <1>2, <3>1, <3>3, KeyOfHit
    <3> QED BY <1>1, <3>3, <3>4
  <2> HIDE DEF I
  <2> QED BY <2>1, <2>2
<1>9. cols # {} => Min(cols) \in cols
  <2>1. cols \subseteq Nat
    BY <1>1
  <2> HIDE DEF cols
  <2> QED BY <2>1, MinIs
<1>10. h = [first EXCEPT !.col    = IF cols = {} THEN 0 ELSE hits[Min(cols)].col,
                         !.source = IF {hits[i].source : i \in I} = Tool THEN "both"
                                    ELSE first.source]
  BY DEF Merge
<1>11. cols # {} => /\ hits[Min(cols)].col \in Nat
                    /\ hits[Min(cols)].col + 1 \in Reported("typos", Prose(r, n))
                    /\ Low(WordAt(Prose(r, n), hits[Min(cols)].col + 1)) = l
  <2> SUFFICES ASSUME cols # {}
               PROVE  /\ hits[Min(cols)].col \in Nat
                      /\ hits[Min(cols)].col + 1 \in Reported("typos", Prose(r, n))
                      /\ Low(WordAt(Prose(r, n), hits[Min(cols)].col + 1)) = l
    OBVIOUS
  <2> DEFINE c == Min(cols)
  <2>1. c \in I /\ hits[c].col # 0
    BY <1>9
  <2> HIDE DEF c
  <2>2. PICK x \in Reported(hits[c].source, Prose(r, n)) :
           /\ hits[c] = Hit(r, n, Prose(r, n), x, hits[c].source)
           /\ hits[c].source \in Tool
           /\ Low(WordAt(Prose(r, n), x)) = l
    BY <1>7, <2>1
  <2>3. hits[c].source = "typos" /\ hits[c].col = x - 1
    BY <2>1, <2>2, KeyOfHit
  <2>4. x \in Nat \ {0}
    BY <1>2, <2>2, HitIsRecord
  <2>5. hits[c].col \in Nat /\ hits[c].col + 1 = x
    BY <2>3, <2>4
  <2> QED BY <2>2, <2>3, <2>5 DEF c
<1> DEFINE col == IF cols = {} THEN 0 ELSE hits[Min(cols)].col
           source == IF By(r, n, l) = Tool THEN "both" ELSE first.source
<1>12. col \in Nat /\ (col # 0 => /\ col + 1 \in Reported("typos", Prose(r, n))
                                  /\ Low(WordAt(Prose(r, n), col + 1)) = l)
  BY <1>11
<1>13. By(r, n, l) # {} /\ By(r, n, l) \subseteq Tool /\ first.source \in By(r, n, l)
  BY <1>3, <1>8 DEF By
<1>14. h = [first EXCEPT !.col = col, !.source = source]
  BY <1>8, <1>10
<1> HIDE DEF r, n, k, l, I, cols, first, h, f, col
<1>15. /\ h.readme = r /\ h.line = n /\ h.col = col /\ h.word = first.word
       /\ h.source = source
  BY <1>5, <1>6, <1>14 DEF HitRecord
<1>16. source \in Tool \cup {"both"} /\ (source = "both" <=> By(r, n, l) = Tool)
       /\ (source # "both" => By(r, n, l) = {source})
  BY <1>13 DEF Tool
<1> HIDE DEF source
<1>17. InFile(h)
  BY <1>2, <1>15 DEF InFile, Lines
<1>18. /\ f.readme = r /\ f.line = ExtractLines(r)[n].line /\ f.col = col
       /\ f.token = first.word /\ f.source = source
       /\ f.score \in {1, 2} /\ f.status \in {"new", "false_positive"} /\ f.verdict = "none"
       /\ f = [readme |-> f.readme, line |-> f.line, col |-> f.col, token |-> f.token,
               source |-> f.source, score |-> f.score, status |-> f.status, verdict |-> f.verdict]
  BY <1>15 DEF FindingRow, f
<1>19. f \in RowRecord
  <2>1. first.word \in Seq(Piece)
    BY <1>5 DEF HitRecord
  <2>2. ExtractLines(r)[n].line \in Nat
    BY <1>2, LinesAreBlocks
  <2> QED BY <1>2, <1>12, <1>16, <1>18, <2>1, <2>2 DEF RowRecord
<1>20. Low(f.token) = l
  BY <1>6, <1>18
<1>21. RowIs(f, n)
  BY <1>2, <1>3, <1>12, <1>13, <1>16, <1>18, <1>20 DEF RowIs
<1> QED BY <1>17, <1>18, <1>19, <1>20, <1>21 DEF r, n, k, l, h, f

LEMMA ImageFinite ==
    ASSUME NEW S, IsFiniteSet(S), NEW f, DOMAIN f = S
    PROVE  IsFiniteSet({f[x] : x \in S})
<1> DEFINE T == {f[x] : x \in S}
<1>1. [x \in S |-> f[x]] \in Surjection(S, T)
  BY DEF Surjection
<1> HIDE DEF T
<1>2. IsFiniteSet(T)
  BY <1>1, FS_Surjection
<1> QED BY <1>2 DEF T

\* What a batch enters in the table: a row for each word reported of it.
Rows == {FindingRow(h) : h \in {g \in Crossref(hits) : InFile(g)}}

LEMMA BatchRows ==
    ASSUME CheckType, Printing, HitsInOrder, tool = "typos", Unread = {}
    PROVE  /\ IsFiniteSet(Rows)
           /\ \A row \in Rows : /\ row \in RowRecord /\ row.readme \in batch
                                /\ \E n \in Lines(row.readme) : RowIs(row, n)
           /\ \A r \in batch : \A n \in Lines(r) : \A by \in Tool :
                 \A i \in Reported(by, Prose(r, n)) : \E row \in Rows : RowFor(row, r, n, i)
           /\ \A row, other \in Rows : Id(row) = Id(other) => row = other
<1> DEFINE rowOf == [j \in 1 .. Len(hits) |-> FindingRow(Merge(hits, Key(hits[j])))]
<1>1. DOMAIN hits = 1 .. Len(hits) /\ Len(hits) \in Nat
  BY LenProperties DEF CheckType
<1>2. \A row \in Rows : \E j \in 1 .. Len(hits) : row = rowOf[j]
  BY <1>1 DEF Rows, Crossref
<1>3. \A j \in 1 .. Len(hits) : rowOf[j] \in Rows
  <2> SUFFICES ASSUME NEW j \in 1 .. Len(hits) PROVE rowOf[j] \in Rows
    OBVIOUS
  <2>1. InFile(Merge(hits, Key(hits[j])))
    BY MergedRow
  <2>2. Merge(hits, Key(hits[j])) \in Crossref(hits)
    BY <1>1 DEF Crossref
  <2> QED BY <2>1, <2>2 DEF Rows
<1>4. IsFiniteSet(Rows)
  <2>1. IsFiniteSet({rowOf[j] : j \in 1 .. Len(hits)})
    <3>1. DOMAIN rowOf = 1 .. Len(hits) /\ IsFiniteSet(1 .. Len(hits))
      BY <1>1, FS_Interval
    <3> HIDE DEF rowOf
    <3> QED BY <3>1, ImageFinite
  <2>2. Rows \subseteq {rowOf[j] : j \in 1 .. Len(hits)}
    BY <1>2
  <2> QED BY <2>1, <2>2, FS_Subset
<1>5. \A j \in 1 .. Len(hits) :
         /\ rowOf[j] \in RowRecord
         /\ rowOf[j].readme = hits[j].readme
         /\ Low(rowOf[j].token) = Low(hits[j].word)
         /\ RowIs(rowOf[j], hits[j].line)
         /\ hits[j].readme \in batch /\ hits[j].readme \in Readme
         /\ hits[j].line \in Lines(hits[j].readme)
  BY MergedRow, HitIs
<1>6. \A j \in 1 .. Len(hits) : rowOf[j] = FindingRow(Merge(hits, Key(hits[j])))
  OBVIOUS
<1> HIDE DEF rowOf
<1>7. ASSUME NEW row \in Rows
      PROVE  /\ row \in RowRecord /\ row.readme \in batch
             /\ \E n \in Lines(row.readme) : RowIs(row, n)
  BY <1>2, <1>5
<1>8. ASSUME NEW r \in batch, NEW n \in Lines(r), NEW by \in Tool,
             NEW i \in Reported(by, Prose(r, n))
      PROVE  \E row \in Rows : RowFor(row, r, n, i)
  <2>1. PICK j \in 1 .. Len(hits) : hits[j] = Hit(r, n, Prose(r, n), i, by)
    BY ReportedIsRead
  <2>2. hits[j].readme = r /\ hits[j].line = n /\ hits[j].word = WordAt(Prose(r, n), i)
    BY <2>1, KeyOfHit
  <2>3. RowFor(rowOf[j], r, n, i)
    BY <1>5, <2>2 DEF RowFor, RowIs
  <2> QED BY <1>3, <2>3
<1>9. ASSUME NEW row \in Rows, NEW other \in Rows, Id(row) = Id(other) PROVE row = other
  <2>1. PICK j \in 1 .. Len(hits) : row = rowOf[j]
    BY <1>2
  <2>2. PICK k \in 1 .. Len(hits) : other = rowOf[k]
    BY <1>2
  <2>3. row.readme = other.readme /\ row.token = other.token /\ row.line = other.line
    BY <1>9 DEF Id
  <2>4. hits[j].readme = hits[k].readme /\ Low(hits[j].word) = Low(hits[k].word)
    BY <1>5, <2>1, <2>2, <2>3
  <2>5. hits[j].line = hits[k].line
    <3>1. /\ row.line = ExtractLines(hits[j].readme)[hits[j].line].line
          /\ other.line = ExtractLines(hits[k].readme)[hits[k].line].line
      BY <1>5, <2>1, <2>2 DEF RowIs
    <3>2. /\ hits[j].readme \in Readme
          /\ hits[j].line \in Lines(hits[j].readme) /\ hits[k].line \in Lines(hits[j].readme)
      BY <1>5, <2>4
    <3>3. ExtractLines(hits[j].readme)[hits[j].line].line
          = ExtractLines(hits[j].readme)[hits[k].line].line
      BY <2>3, <2>4, <3>1
    <3>4. \A a, b \in Lines(hits[j].readme) :
             ExtractLines(hits[j].readme)[a].line = ExtractLines(hits[j].readme)[b].line => a = b
      BY <3>2, LinesAreBlocks
    <3> QED BY <3>2, <3>3, <3>4
  <2>6. Key(hits[j]) = Key(hits[k])
    BY <2>4, <2>5 DEF Key
  <2> QED BY <1>6, <2>1, <2>2, <2>6
<1> QED BY <1>4, <1>7, <1>8, <1>9

\* What is said of a row does not depend on its score, status and verdict.
LEMMA SameRow ==
    ASSUME NEW f, NEW g,
           g.readme = f.readme, g.line = f.line, g.col = f.col, g.token = f.token,
           g.source = f.source
    PROVE  /\ Id(g) = Id(f)
           /\ \A n : RowIs(f, n) => RowIs(g, n)
           /\ \A r, n, i : RowFor(f, r, n, i) => RowFor(g, r, n, i)
BY DEF Id, RowIs, RowFor

\* The table after the rows of a batch have been entered.
LEMMA UpsertKeeps ==
    ASSUME CheckType, Printing, HitsInOrder, RowsFromReports, ReportsHaveRows, OneRowPerId,
           tool = "typos", Unread = {}, UpsertFindings(Rows), checked' = checked \cup batch
    PROVE  /\ findings' \subseteq RowRecord /\ IsFiniteSet(findings')
           /\ RowsFromReports' /\ ReportsHaveRows' /\ OneRowPerId'
<1> DEFINE old == {f \in findings : \A row \in Rows : Id(f) # Id(row)}
           new(row) == [row EXCEPT !.verdict =
                          IF \E f \in findings : Id(f) = Id(row)
                          THEN (CHOOSE f \in findings : Id(f) = Id(row)).verdict
                          ELSE "none"]
<1>1. findings' = old \cup {new(row) : row \in Rows}
  BY DEF UpsertFindings
<1>2. ASSUME NEW row \in Rows
      PROVE  /\ new(row) \in RowRecord
             /\ new(row).readme = row.readme /\ new(row).line = row.line
             /\ new(row).col = row.col /\ new(row).token = row.token
             /\ new(row).source = row.source
  <2>1. row \in RowRecord
    BY BatchRows
  <2> DEFINE v == IF \E f \in findings : Id(f) = Id(row)
                  THEN (CHOOSE f \in findings : Id(f) = Id(row)).verdict
                  ELSE "none"
  <2>2. v \in {"none", "typo", "not_typo", "unsure"}
    <3>1. \A f \in findings : f.verdict \in {"none", "typo", "not_typo", "unsure"}
      BY DEF CheckType, RowRecord
    <3> QED BY <3>1
  <2>3. new(row) = [row EXCEPT !.verdict = v]
    OBVIOUS
  <2> HIDE DEF v, new
  <2> QED BY <2>1, <2>2, <2>3 DEF RowRecord
<1> HIDE DEF new
<1>3. \A row \in Rows : /\ Id(new(row)) = Id(row)
                        /\ \A n : RowIs(row, n) => RowIs(new(row), n)
                        /\ \A r, n, i : RowFor(row, r, n, i) => RowFor(new(row), r, n, i)
  BY <1>2, SameRow
<1>4. findings' \subseteq RowRecord
  BY <1>1, <1>2 DEF CheckType
<1>5. IsFiniteSet(findings')
  <2> DEFINE n == [row \in Rows |-> new(row)]
  <2>1. IsFiniteSet({n[row] : row \in Rows})
    <3>1. DOMAIN n = Rows /\ IsFiniteSet(Rows)
      BY BatchRows
    <3> HIDE DEF n
    <3> QED BY <3>1, ImageFinite
  <2>2. IsFiniteSet(old)
    BY FS_Subset DEF CheckType
  <2>3. {n[row] : row \in Rows} = {new(row) : row \in Rows}
    OBVIOUS
  <2> QED BY <1>1, <2>1, <2>2, <2>3, FS_Union
<1>6. RowsFromReports'
  <2> SUFFICES ASSUME NEW f \in findings'
               PROVE  f.readme \in checked' /\ \E n \in Lines(f.readme) : RowIs(f, n)
    BY DEF RowsFromReports, Lines, RowIs, By, First, Places, Report, ExtractLines, Prose
  <2>1. CASE f \in old
    BY <2>1 DEF RowsFromReports
  <2>2. CASE f \notin old
    <3>1. PICK row \in Rows : f = new(row)
      BY <1>1, <2>2
    <3>2. row.readme \in batch /\ \E n \in Lines(row.readme) : RowIs(row, n)
      BY BatchRows
    <3> QED BY <1>2, <1>3, <3>1, <3>2
  <2> QED BY <2>1, <2>2
<1>7. ReportsHaveRows'
  <2> SUFFICES ASSUME NEW r \in checked', NEW n \in Lines(r), NEW by \in Tool,
                      NEW i \in Reported(by, Prose(r, n))
               PROVE  \E f \in findings' : RowFor(f, r, n, i)
    BY DEF ReportsHaveRows, Lines, RowFor, Prose
  <2>1. CASE r \in batch
    <3>1. PICK row \in Rows : RowFor(row, r, n, i)
      BY <2>1, BatchRows
    <3> QED BY <1>1, <1>3, <3>1
  <2>2. CASE r \in checked
    <3>1. PICK f \in findings : RowFor(f, r, n, i)
      BY <2>2 DEF ReportsHaveRows
    <3>2. CASE f \in old
      BY <1>1, <3>1, <3>2
    <3>3. CASE f \notin old
      <4>1. PICK row \in Rows : Id(f) = Id(row)
        BY <3>3
      <4>2. RowFor(row, r, n, i)
        BY <3>1, <4>1 DEF Id, RowFor
      <4> QED BY <1>1, <1>3, <4>2
    <3> QED BY <3>2, <3>3
  <2> QED BY <2>1, <2>2
<1>8. OneRowPerId'
  <2> SUFFICES ASSUME NEW f \in findings', NEW g \in findings', Id(f) = Id(g) PROVE f = g
    BY DEF OneRowPerId, Id
  <2>1. CASE f \in old /\ g \in old
    BY <2>1 DEF OneRowPerId
  <2>2. CASE f \in old /\ g \notin old
    <3>1. PICK row \in Rows : g = new(row)
      BY <1>1, <2>2
    <3>2. Id(f) # Id(row)
      BY <2>2
    <3> QED BY <1>3, <3>1, <3>2
  <2>3. CASE f \notin old /\ g \in old
    <3>1. PICK row \in Rows : f = new(row)
      BY <1>1, <2>3
    <3>2. Id(g) # Id(row)
      BY <2>3
    <3> QED BY <1>3, <3>1, <3>2
  <2>4. CASE f \notin old /\ g \notin old
    <3>1. PICK row \in Rows : f = new(row)
      BY <1>1, <2>4
    <3>2. PICK other \in Rows : g = new(other)
      BY <1>1, <2>4
    <3>3. row = other
      BY <1>3, <3>1, <3>2, BatchRows
    <3> QED BY <3>1, <3>2, <3>3
  <2> QED BY <2>1, <2>2, <2>3, <2>4
<1> QED BY <1>4, <1>5, <1>6, <1>7, <1>8

-----------------------------------------------------------------------------
(* Every step of a check keeps the invariant                               *)

LEMMA CheckInvInit == CheckInit => CheckInv
<1> SUFFICES ASSUME CheckInit PROVE CheckInv
  OBVIOUS
<1>1. /\ saved = {} /\ checked = {} /\ findings = {} /\ batch = {} /\ tool = "none"
      /\ unread = [r \in Readme |-> <<>>] /\ hits = <<>> /\ Len(hits) = 0
  BY DEF CheckInit, Idle
<1>2. CheckType
  BY <1>1, FS_EmptySet DEF CheckType
<1>3. Printing /\ HitsInOrder
  BY <1>1 DEF Printing, HitsInOrder
<1>4. RowsFromReports /\ ReportsHaveRows /\ OneRowPerId
  BY <1>1 DEF RowsFromReports, ReportsHaveRows, OneRowPerId
<1> QED BY <1>2, <1>3, <1>4 DEF CheckInv

\* The rows stay while nothing is entered.
LEMMA RowsStay ==
    ASSUME RowsFromReports, ReportsHaveRows, OneRowPerId, UNCHANGED <<checked, findings>>
    PROVE  RowsFromReports' /\ ReportsHaveRows' /\ OneRowPerId'
<1>1. RowsFromReports'
  BY DEF RowsFromReports, RowIs, Lines, By, First, Places, Prose
<1>2. ReportsHaveRows'
  BY DEF ReportsHaveRows, RowFor, Lines, Prose
<1>3. OneRowPerId'
  BY DEF OneRowPerId, Id
<1> QED BY <1>1, <1>2, <1>3

\* What has been read stays read, in its order, when more is read.
LEMMA OrderStays ==
    ASSUME CheckType, HitsInOrder, batch' = batch, hits' \in Seq(HitRecord),
           Len(hits) <= Len(hits'), \A i \in 1 .. Len(hits) : hits'[i] = hits[i]
    PROVE  /\ \A R, n : \A m \in 0 .. Len(hits) : ReadBy(R, n, m) =>
                 \A q \in 1 .. n : \E j \in 1 .. m : hits'[j] = R[q]
           /\ \A i \in 1 .. Len(hits) : InOrder(i)'
<1>1. Len(hits) \in Nat
  BY LenProperties DEF CheckType
<1>2. ASSUME NEW R, NEW n, NEW m \in 0 .. Len(hits), ReadBy(R, n, m), NEW q \in 1 .. n
      PROVE  \E j \in 1 .. m : hits'[j] = R[q]
  <2>1. PICK j \in 1 .. m : hits[j] = R[q]
    BY <1>2 DEF ReadBy
  <2>2. j \in 1 .. Len(hits)
    BY <1>1
  <2> QED BY <2>1, <2>2
<1>3. ASSUME NEW i \in 1 .. Len(hits) PROVE InOrder(i)'
  <2> DEFINE h == hits[i]
             R == Report(h.source, h.readme)
             C == Report("codespell", h.readme)
  <2>1. InOrder(i) /\ hits'[i] = h /\ i - 1 \in 0 .. Len(hits)
    BY <1>1 DEF HitsInOrder
  <2>2. h.readme \in batch'
    BY <2>1 DEF InOrder
  <2>3. h.source = "typos" => \A q \in 1 .. Len(C) : \E j \in 1 .. i - 1 : hits'[j] = C[q]
    BY <1>2, <2>1 DEF InOrder, ReadAll
  <2>4. \E p \in 1 .. Len(R) : h = R[p] /\ \A q \in 1 .. p - 1 : \E j \in 1 .. i - 1 : hits'[j] = R[q]
    BY <1>2, <2>1 DEF InOrder
  <2> HIDE DEF h
  <2> QED BY <2>1, <2>2, <2>3, <2>4 DEF InOrder, ReadAll, ReadBy
<1> QED BY <1>2, <1>3

LEMMA StartBatchInv ==
    ASSUME CheckInv, NEW B \in SUBSET Readme, StartBatch(B)
    PROVE  CheckInv'
<1>1. /\ UNCHANGED <<saved, checked, findings>> /\ B \subseteq saved
      /\ batch' = B /\ tool' = "codespell" /\ hits' = <<>>
      /\ unread' = [r \in Readme |-> IF r \in B THEN Report("codespell", r) ELSE <<>>]
  BY DEF StartBatch
<1>2. CheckType'
  <2>1. unread' \in [Readme -> Seq(HitRecord)]
    BY <1>1, ReportType DEF Tool
  <2>2. hits' \in Seq(HitRecord) /\ tool' \in Tool \cup {"none"} /\ batch' \subseteq saved'
    BY <1>1 DEF Tool
  <2> QED BY <1>1, <2>1, <2>2 DEF CheckInv, CheckType
<1>3. Printing'
  <2>1. \A r \in batch' : unread'[r] = Report("codespell", r)
    BY <1>1
  <2>2. tool' # "typos"
    BY <1>1
  <2> QED BY <2>1, <2>2 DEF Printing
<1>4. HitsInOrder'
  <2>1. Len(hits') = 0
    BY <1>1
  <2> QED BY <2>1 DEF HitsInOrder
<1> QED BY <1>1, <1>2, <1>3, <1>4, RowsStay DEF CheckInv

LEMMA PrintFileInv ==
    ASSUME CheckInv, NEW r \in Readme, PrintFile(r)
    PROVE  CheckInv'
<1> DEFINE R == Report("codespell", r)
           N == Len(hits)
<1>1. /\ UNCHANGED <<saved, checked, findings, batch, tool>> /\ tool = "codespell"
      /\ r \in batch /\ unread[r] # <<>>
      /\ hits' = hits \o unread[r] /\ unread' = [unread EXCEPT ![r] = <<>>]
  BY DEF PrintFile, Unread
<1>2. unread[r] = R
  BY <1>1 DEF CheckInv, Printing
<1>3. /\ hits \in Seq(HitRecord) /\ N \in Nat
      /\ R \in Seq(HitRecord) /\ Len(R) \in Nat
      /\ \A p \in 1 .. Len(R) : R[p].readme = r /\ R[p].source = "codespell"
  BY ReportType, LenProperties DEF CheckInv, CheckType, Tool
<1>4. /\ hits' \in Seq(HitRecord) /\ Len(hits') = N + Len(R)
      /\ \A i \in 1 .. N + Len(R) : hits'[i] = IF i <= N THEN hits[i] ELSE R[i - N]
  BY <1>1, <1>2, <1>3, ConcatProperties
<1> HIDE DEF R, N
<1>5. /\ \A i \in 1 .. N : hits'[i] = hits[i]
      /\ \A p \in 1 .. Len(R) : N + p \in 1 .. Len(hits') /\ hits'[N + p] = R[p]
  <2>1. \A i \in 1 .. N : i \in 1 .. N + Len(R) /\ i <= N
    BY <1>3
  <2>2. \A p \in 1 .. Len(R) : N + p \in 1 .. N + Len(R) /\ ~(N + p <= N) /\ (N + p) - N = p
    BY <1>3
  <2> QED BY <1>4, <2>1, <2>2
<1>6. CheckType'
  <2>1. unread' \in [Readme -> Seq(HitRecord)]
    BY <1>1 DEF CheckInv, CheckType
  <2> QED BY <1>1, <1>4, <2>1 DEF CheckInv, CheckType
<1>7. /\ \A S, n : \A m \in 0 .. N : ReadBy(S, n, m) =>
            \A q \in 1 .. n : \E j \in 1 .. m : hits'[j] = S[q]
      /\ \A i \in 1 .. N : InOrder(i)'
  <2>1. N <= Len(hits')
    BY <1>3, <1>4
  <2> QED BY <1>1, <1>4, <1>5, <2>1, OrderStays DEF CheckInv, N
<1>8. Printing'
  <2> SUFFICES ASSUME NEW s \in batch
               PROVE  \/ unread'[s] = Report("codespell", s)
                      \/ /\ unread'[s] = <<>>
                         /\ \A q \in 1 .. Len(Report("codespell", s)) :
                               \E j \in 1 .. Len(hits') : hits'[j] = Report("codespell", s)[q]
    BY <1>1 DEF Printing, ReadAll, ReadBy
  <2>1. CASE s = r
    <3>1. unread'[s] = <<>>
      BY <1>1, <2>1 DEF CheckInv, CheckType
    <3> QED BY <1>5, <2>1, <3>1 DEF R
  <2>2. CASE s # r
    <3>1. unread'[s] = unread[s]
      BY <1>1, <2>2 DEF CheckInv, CheckType
    <3>2. CASE unread[s] = Report("codespell", s)
      BY <3>1, <3>2
    <3>3. CASE unread[s] # Report("codespell", s)
      <4>1. unread[s] = <<>> /\ ReadAll("codespell", s, N)
        BY <1>1, <3>3 DEF CheckInv, Printing, N
      <4>2. N \in 0 .. N /\ \A j \in 1 .. N : j \in 1 .. Len(hits')
        BY <1>3, <1>4
      <4>3. \A q \in 1 .. Len(Report("codespell", s)) :
               \E j \in 1 .. N : hits'[j] = Report("codespell", s)[q]
        BY <1>7, <4>1, <4>2 DEF ReadAll
      <4> QED BY <3>1, <4>1, <4>2, <4>3
    <3> QED BY <3>2, <3>3
  <2> QED BY <2>1, <2>2
<1>9. HitsInOrder'
  <2> SUFFICES ASSUME NEW i \in 1 .. Len(hits') PROVE InOrder(i)'
    BY DEF HitsInOrder
  <2>1. CASE i \in 1 .. N
    BY <1>7, <2>1
  <2>2. CASE i \notin 1 .. N
    <3> DEFINE p == i - N
    <3>1. p \in 1 .. Len(R) /\ i = N + p
      BY <1>3, <1>4, <2>2
    <3>2. hits'[i] = R[p] /\ R[p].readme = r /\ R[p].source = "codespell"
      BY <1>3, <1>5, <3>1
    <3>3. ASSUME NEW q \in 1 .. p - 1 PROVE \E j \in 1 .. i - 1 : hits'[j] = R[q]
      <4>1. N + q \in 1 .. i - 1 /\ q \in 1 .. Len(R)
        BY <1>3, <3>1
      <4> QED BY <1>5, <4>1
    <3> HIDE DEF p
    <3>4. r \in batch'
      BY <1>1
    <3>5. \E x \in 1 .. Len(R) : /\ hits'[i] = R[x]
                                 /\ \A q \in 1 .. x - 1 : \E j \in 1 .. i - 1 : hits'[j] = R[q]
      BY <3>1, <3>2, <3>3
    <3>6. hits'[i].readme = r /\ hits'[i].source = "codespell"
      BY <3>2
    <3> QED BY <3>4, <3>5, <3>6 DEF InOrder, ReadBy, R
  <2> QED BY <2>1, <2>2
<1> QED BY <1>1, <1>6, <1>8, <1>9, RowsStay DEF CheckInv

LEMMA StartTyposInv ==
    ASSUME CheckInv, StartTypos
    PROVE  CheckInv'
<1>1. /\ UNCHANGED <<saved, checked, findings, batch, hits>> /\ tool = "codespell"
      /\ tool' = "typos" /\ \A r \in batch : unread[r] = <<>>
      /\ unread' = [r \in Readme |-> IF r \in batch THEN Report("typos", r) ELSE <<>>]
  BY DEF StartTypos, Unread
<1>2. CheckType'
  <2>1. unread' \in [Readme -> Seq(HitRecord)]
    BY <1>1, ReportType DEF Tool
  <2> QED BY <1>1, <2>1 DEF CheckInv, CheckType, Tool
<1>3. Printing'
  <2> SUFFICES ASSUME NEW r \in batch
               PROVE  LET C == Report("codespell", r)
                          R == Report("typos", r)
                      IN  /\ \A q \in 1 .. Len(C) : \E j \in 1 .. Len(hits) : hits[j] = C[q]
                          /\ \E d \in 0 .. Len(R) :
                                /\ unread'[r] = SubSeq(R, d + 1, Len(R))
                                /\ \A q \in 1 .. d : \E j \in 1 .. Len(hits) : hits[j] = R[q]
    BY <1>1 DEF Printing, ReadAll, ReadBy
  <2> DEFINE C == Report("codespell", r)
             R == Report("typos", r)
  <2>1. r \in Readme /\ R \in Seq(HitRecord) /\ Len(R) \in Nat
    BY ReportType DEF CheckInv, CheckType, Tool
  <2>2. \A q \in 1 .. Len(C) : \E j \in 1 .. Len(hits) : hits[j] = C[q]
    <3>1. CASE C = <<>>
      BY <3>1
    <3>2. CASE C # <<>>
      BY <1>1, <3>2 DEF CheckInv, Printing, ReadAll, ReadBy
    <3> QED BY <3>1, <3>2
  <2>3. unread'[r] = R
    BY <1>1, <2>1
  <2>4. SubSeq(R, 0 + 1, Len(R)) = R
    BY <2>1, SubSeqFull
  <2>5. 0 \in 0 .. Len(R) /\ 1 .. 0 = {}
    BY <2>1
  <2> HIDE DEF C, R
  <2>6. \E d \in 0 .. Len(R) : /\ unread'[r] = SubSeq(R, d + 1, Len(R))
                               /\ \A q \in 1 .. d : \E j \in 1 .. Len(hits) : hits[j] = R[q]
    BY <2>3, <2>4, <2>5
  <2> QED BY <2>2, <2>6 DEF C, R
<1>4. HitsInOrder'
  <2>1. \A i \in 1 .. Len(hits) : InOrder(i)'
    <3>1. hits \in Seq(HitRecord) /\ Len(hits) <= Len(hits)
      BY LenProperties DEF CheckInv, CheckType
    <3> QED BY <1>1, <3>1, OrderStays DEF CheckInv
  <2> QED BY <1>1, <2>1 DEF HitsInOrder
<1> QED BY <1>1, <1>2, <1>3, <1>4, RowsStay DEF CheckInv

LEMMA PrintHitInv ==
    ASSUME CheckInv, NEW r \in Readme, PrintHit(r)
    PROVE  CheckInv'
<1> DEFINE R == Report("typos", r)
           N == Len(hits)
<1>1. /\ UNCHANGED <<saved, checked, findings, batch, tool>> /\ tool = "typos"
      /\ r \in batch /\ unread[r] # <<>>
      /\ hits' = Append(hits, Head(unread[r]))
      /\ unread' = [unread EXCEPT ![r] = Tail(unread[r])]
  BY DEF PrintHit, Unread
<1>2. /\ hits \in Seq(HitRecord) /\ N \in Nat
      /\ R \in Seq(HitRecord) /\ Len(R) \in Nat
      /\ \A p \in 1 .. Len(R) : R[p] \in HitRecord /\ R[p].readme = r /\ R[p].source = "typos"
  BY ReportType, LenProperties DEF CheckInv, CheckType, Tool
<1>3. PICK d \in 0 .. Len(R) : unread[r] = SubSeq(R, d + 1, Len(R)) /\ ReadBy(R, d, N)
  BY <1>1 DEF CheckInv, Printing
<1>4. ReadAll("codespell", r, N)
  BY <1>1 DEF CheckInv, Printing
<1> HIDE DEF R, N
<1>5. d \in Nat /\ d + 1 \in 1 .. Len(R) /\ Len(R) \in d + 1 .. Len(R)
  <2>1. ~(Len(R) < d + 1)
    BY <1>1, <1>2, <1>3, SubSeqEmpty
  <2> QED BY <1>2, <2>1
<1>6. Head(unread[r]) = R[d + 1] /\ Tail(unread[r]) = SubSeq(R, d + 1 + 1, Len(R))
  BY <1>2, <1>3, <1>5, HeadTailOfSubSeq
<1>7. /\ hits' \in Seq(HitRecord) /\ Len(hits') = N + 1
      /\ \A i \in 1 .. N : hits'[i] = hits[i]
      /\ hits'[N + 1] = R[d + 1]
  BY <1>1, <1>2, <1>5, <1>6, AppendProperties DEF N
<1>8. CheckType'
  <2>1. unread[r] \in Seq(HitRecord)
    BY DEF CheckInv, CheckType
  <2>2. Tail(unread[r]) \in Seq(HitRecord)
    BY <1>1, <2>1, HeadTailProperties
  <2>3. unread' \in [Readme -> Seq(HitRecord)]
    BY <1>1, <2>2 DEF CheckInv, CheckType
  <2> QED BY <1>1, <1>7, <2>3 DEF CheckInv, CheckType
<1>9. /\ \A S, n : \A m \in 0 .. N : ReadBy(S, n, m) =>
            \A q \in 1 .. n : \E j \in 1 .. m : hits'[j] = S[q]
      /\ \A i \in 1 .. N : InOrder(i)'
  <2>1. N <= Len(hits')
    BY <1>2, <1>7
  <2> QED BY <1>1, <1>7, <2>1, OrderStays DEF CheckInv, N
<1>10. N \in 0 .. N /\ N + 1 \in 1 .. N + 1 /\ \A j \in 1 .. N : j \in 1 .. N + 1
  BY <1>2
<1>11. \A S, n : ReadBy(S, n, N) => \A q \in 1 .. n : \E j \in 1 .. N + 1 : hits'[j] = S[q]
  <2> SUFFICES ASSUME NEW S, NEW n, ReadBy(S, n, N), NEW q \in 1 .. n
               PROVE  \E j \in 1 .. N + 1 : hits'[j] = S[q]
    OBVIOUS
  <2>1. \E j \in 1 .. N : hits'[j] = S[q]
    BY <1>9, <1>10
  <2> QED BY <1>10, <2>1
<1>12. Printing'
  <2> SUFFICES ASSUME NEW s \in batch
               PROVE  LET C == Report("codespell", s)
                          T == Report("typos", s)
                      IN  /\ \A q \in 1 .. Len(C) : \E j \in 1 .. N + 1 : hits'[j] = C[q]
                          /\ \E e \in 0 .. Len(T) :
                                /\ unread'[s] = SubSeq(T, e + 1, Len(T))
                                /\ \A q \in 1 .. e : \E j \in 1 .. N + 1 : hits'[j] = T[q]
    <3>1. batch' = batch /\ tool' = "typos" /\ tool' # "codespell"
      BY <1>1
    <3> DEFINE J == 1 .. Len(hits')
    <3>2. J = 1 .. N + 1
      BY <1>7
    <3>3. ASSUME \A s \in batch :
                   LET C == Report("codespell", s)
                       T == Report("typos", s)
                   IN  /\ \A q \in 1 .. Len(C) : \E j \in J : hits'[j] = C[q]
                       /\ \E e \in 0 .. Len(T) :
                             /\ unread'[s] = SubSeq(T, e + 1, Len(T))
                             /\ \A q \in 1 .. e : \E j \in J : hits'[j] = T[q]
          PROVE  Printing'
      BY <3>1, <3>3, Zenon DEF Printing, ReadAll, ReadBy
    <3> HIDE DEF J
    <3> QED BY <3>2, <3>3
  <2>1. \A q \in 1 .. Len(Report("codespell", s)) : \E j \in 1 .. N + 1 :
           hits'[j] = Report("codespell", s)[q]
    <3>1. ReadAll("codespell", s, N)
      BY <1>1 DEF CheckInv, Printing, N
    <3> QED BY <1>11, <3>1 DEF ReadAll
  <2>2. CASE s = r
    <3>1. d + 1 \in 0 .. Len(R)
      BY <1>2, <1>5
    <3>2. unread'[r] = SubSeq(R, (d + 1) + 1, Len(R))
      BY <1>1, <1>6 DEF CheckInv, CheckType
    <3>3. ASSUME NEW q \in 1 .. d + 1 PROVE \E j \in 1 .. N + 1 : hits'[j] = R[q]
      <4>1. CASE q = d + 1
        BY <1>7, <1>10, <4>1
      <4>2. CASE q # d + 1
        <5>1. q \in 1 .. d
          BY <1>5, <4>2
        <5> QED BY <1>3, <1>11, <5>1
      <4> QED BY <4>1, <4>2
    <3>4. \E e \in 0 .. Len(R) : /\ unread'[r] = SubSeq(R, e + 1, Len(R))
                                 /\ \A q \in 1 .. e : \E j \in 1 .. N + 1 : hits'[j] = R[q]
      BY <3>1, <3>2, <3>3
    <3> QED BY <2>1, <2>2, <3>4 DEF R
  <2>3. CASE s # r
    <3> DEFINE T == Report("typos", s)
    <3>1. unread'[s] = unread[s]
      BY <1>1, <2>3 DEF CheckInv, CheckType
    <3>2. PICK e \in 0 .. Len(T) : unread[s] = SubSeq(T, e + 1, Len(T)) /\ ReadBy(T, e, N)
      BY <1>1 DEF CheckInv, Printing, N
    <3>3. \A q \in 1 .. e : \E j \in 1 .. N + 1 : hits'[j] = T[q]
      BY <1>11, <3>2
    <3> QED BY <2>1, <3>1, <3>2, <3>3
  <2> QED BY <2>2, <2>3
<1>13. HitsInOrder'
  <2> SUFFICES ASSUME NEW i \in 1 .. N + 1 PROVE InOrder(i)'
    BY <1>7 DEF HitsInOrder
  <2>1. CASE i \in 1 .. N
    BY <1>9, <2>1
  <2>2. CASE i \notin 1 .. N
    <3> DEFINE C == Report("codespell", r)
    <3>1. i = N + 1 /\ i - 1 = N /\ (d + 1) - 1 = d
      BY <1>2, <1>5, <2>2
    <3>2. hits'[i] = R[d + 1] /\ R[d + 1].readme = r /\ R[d + 1].source = "typos"
      BY <1>2, <1>5, <1>7, <3>1
    <3>3. \A q \in 1 .. Len(C) : \E j \in 1 .. i - 1 : hits'[j] = C[q]
      <4>1. ReadBy(C, Len(C), N)
        BY <1>4 DEF ReadAll
      <4> HIDE DEF C
      <4>2. \A q \in 1 .. Len(C) : \E j \in 1 .. N : hits'[j] = C[q]
        BY <1>9, <1>10, <4>1
      <4> QED BY <3>1, <4>2
    <3>4. \A q \in 1 .. (d + 1) - 1 : \E j \in 1 .. i - 1 : hits'[j] = R[q]
      <4>1. \A q \in 1 .. d : \E j \in 1 .. N : hits'[j] = R[q]
        BY <1>3, <1>9, <1>10
      <4> QED BY <3>1, <4>1
    <3>5. r \in batch'
      BY <1>1
    <3>6. \E p \in 1 .. Len(R) : hits'[i] = R[p] /\ \A q \in 1 .. p - 1 : \E j \in 1 .. i - 1 : hits'[j] = R[q]
      BY <1>5, <3>2, <3>4
    <3> HIDE DEF C
    <3> QED BY <3>2, <3>3, <3>5, <3>6 DEF InOrder, ReadAll, ReadBy, C, R
  <2> QED BY <2>1, <2>2
<1> QED BY <1>1, <1>8, <1>12, <1>13, RowsStay DEF CheckInv

\* With no batch under way there is nothing to say of one.
LEMMA DropInv ==
    ASSUME Drop
    PROVE  /\ Printing' /\ HitsInOrder'
           /\ batch' = {} /\ tool' = "none" /\ hits' \in Seq(HitRecord)
           /\ unread' \in [Readme -> Seq(HitRecord)]
<1>1. batch' = {} /\ tool' = "none" /\ hits' = <<>> /\ unread' = [r \in Readme |-> <<>>]
  BY DEF Drop
<1>2. Len(hits') = 0
  BY <1>1
<1>3. Printing' /\ HitsInOrder'
  BY <1>1, <1>2 DEF Printing, HitsInOrder
<1> QED BY <1>1, <1>3

LEMMA CommitBatchInv ==
    ASSUME CheckInv, CommitBatch
    PROVE  CheckInv'
<1>1. tool = "typos" /\ Unread = {} /\ checked' = checked \cup batch /\ Drop /\ UNCHANGED saved
  BY DEF CommitBatch
<1>2. UpsertFindings(Rows)
  BY DEF CommitBatch, Rows
<1>3. /\ findings' \subseteq RowRecord /\ IsFiniteSet(findings')
      /\ RowsFromReports' /\ ReportsHaveRows' /\ OneRowPerId'
  BY <1>1, <1>2, UpsertKeeps DEF CheckInv
<1>4. CheckType'
  BY <1>1, <1>3, DropInv DEF CheckInv, CheckType
<1> QED BY <1>1, <1>3, <1>4, DropInv DEF CheckInv

LEMMA LoseBatchInv ==
    ASSUME CheckInv, LoseBatch
    PROVE  CheckInv'
<1>1. Drop /\ UNCHANGED <<saved, checked, findings>>
  BY DEF LoseBatch
<1>2. CheckType'
  BY <1>1, DropInv DEF CheckInv, CheckType
<1> QED BY <1>1, <1>2, DropInv, RowsStay DEF CheckInv

\* Nothing is said of a snapshot that is not yet in a batch.
LEMMA MemoryStays ==
    ASSUME CheckInv, UNCHANGED memory
    PROVE  Printing' /\ HitsInOrder'
<1>1. batch' = batch /\ tool' = tool /\ unread' = unread /\ hits' = hits
  BY DEF memory
<1>2. Printing'
  BY <1>1 DEF CheckInv, Printing, ReadAll, ReadBy
<1>3. HitsInOrder'
  BY <1>1 DEF CheckInv, HitsInOrder, InOrder, ReadAll, ReadBy
<1> QED BY <1>2, <1>3

LEMMA FetchInv ==
    ASSUME CheckInv, NEW r \in Readme, Fetch(r)
    PROVE  CheckInv'
<1>1. saved' = saved \cup {r} /\ UNCHANGED <<checked, findings, memory>>
  BY DEF Fetch
<1>2. CheckType'
  <2>1. IsFiniteSet(saved')
    BY <1>1, FS_AddElement DEF CheckInv, CheckType
  <2> QED BY <1>1, <2>1 DEF CheckInv, CheckType, memory
<1> QED BY <1>1, <1>2, MemoryStays, RowsStay DEF CheckInv

LEMMA CheckInvStep == CheckInv /\ CheckNext => CheckInv'
<1> SUFFICES ASSUME CheckInv, CheckNext PROVE CheckInv'
  OBVIOUS
<1>1. ASSUME NEW r \in Readme, Fetch(r) PROVE CheckInv'
  BY <1>1, FetchInv
<1>2. ASSUME NEW r \in Readme, PrintFile(r) PROVE CheckInv'
  BY <1>2, PrintFileInv
<1>3. ASSUME NEW r \in Readme, PrintHit(r) PROVE CheckInv'
  BY <1>3, PrintHitInv
<1>4. ASSUME NEW B \in SUBSET Readme, StartBatch(B) PROVE CheckInv'
  BY <1>4, StartBatchInv
<1>5. CASE StartTypos
  BY <1>5, StartTyposInv
<1>6. CASE CommitBatch
  BY <1>6, CommitBatchInv
<1>7. CASE LoseBatch
  BY <1>7, LoseBatchInv
<1> QED BY <1>1, <1>2, <1>3, <1>4, <1>5, <1>6, <1>7 DEF CheckNext
=============================================================================
