--------------------------- MODULE LinkEditProofs ---------------------------
(* What encode of ld writes into the rebase, bind, weak bind and lazy bind    *)
(* tables is what dyld reads, proved for tables of any length and for any     *)
(* size of words, pages and immediates.  Two hypotheses on the images:        *)
(* FewSegments, and, for the bind and the weak table, Gaps; without either    *)
(* the code loses pointers, as the runs of LinkEditSegments.cfg and           *)
(* LinkEditAdjacent.cfg show.                                                 *)
(*                                                                            *)
(* The argument: during the translation, and during every pass over the       *)
(* array, there is a run of dyld over the opcodes that visits the first       *)
(* entries of the table; every step of encode replaces a piece of that run by *)
(* one with the same ends.  The bytes hold these opcodes one after the other, *)
(* so that dyld makes this run.                                               *)
(*                                                                            *)
(* Names that begin with R are about the rebase table, with B about the bind  *)
(* and the weak table, with L about the lazy table.                           *)
EXTENDS LinkEdit, FiniteSetTheorems, WellFoundedInduction, TLAPS

(****************************************************************************)
(* Words and lists.  dyld reduces every address to its word, ld to its own. *)
(****************************************************************************)

\* Quotient and remainder of an integer.
LEMMA DivDef ==
    ASSUME NEW W \in Nat \ {0}, NEW x \in Int
    PROVE  /\ x \div W \in Int /\ x % W \in 0..(W - 1)
           /\ x = W * (x \div W) + (x % W)
OBVIOUS

\* A remainder that is in range is the remainder.
LEMMA DivUnique ==
    ASSUME NEW W \in Nat \ {0}, NEW q \in Int, NEW r \in 0..(W - 1)
    PROVE  (W * q + r) % W = r /\ (W * q + r) \div W = q
OBVIOUS

\* What fits in a word is not changed by it.
LEMMA ModSmall ==
    ASSUME NEW W \in Nat \ {0}, NEW x \in 0..(W - 1)
    PROVE  x % W = x
OBVIOUS

\* Whole words do not change a residue.
LEMMA ModShift ==
    ASSUME NEW W \in Nat \ {0}, NEW q \in Int, NEW x \in Int
    PROVE  (W * q + x) % W = x % W
<1> DEFINE d == x \div W
           r == x % W
<1>1. x = W * d + r /\ d \in Int /\ r \in 0..(W - 1)
  BY DivDef
<1> HIDE DEF d, r
<1>2. W * q + x = W * (q + d) + r
  BY <1>1
<1>3. (W * (q + d) + r) % W = r
  BY <1>1, DivUnique
<1> QED BY <1>2, <1>3 DEF r

\* An addition may be reduced to a word before or after.
LEMMA ModAdd ==
    ASSUME NEW W \in Nat \ {0}, NEW x \in Int, NEW y \in Int
    PROVE  ((x % W) + y) % W = (x + y) % W /\ (x + (y % W)) % W = (x + y) % W
<1>1. ASSUME NEW v \in Int, NEW z \in Int
      PROVE  ((v % W) + z) % W = (v + z) % W
  <2> DEFINE d == v \div W
             r == v % W
  <2>1. v = W * d + r /\ d \in Int /\ r \in 0..(W - 1)
    BY DivDef
  <2> HIDE DEF d, r
  <2>2. v + z = W * d + (r + z) /\ r + z \in Int
    BY <2>1
  <2>3. (W * d + (r + z)) % W = (r + z) % W
    BY <2>1, <2>2, ModShift
  <2> QED BY <2>2, <2>3 DEF r
<1>2. ((y % W) + x) % W = (y + x) % W
  BY <1>1
<1>3. x + (y % W) = (y % W) + x /\ y + x = x + y
  BY DivDef
<1> QED BY <1>1, <1>2, <1>3

\* Reduced to ld's word and then to dyld's, which divides it: as if to dyld's only.
LEMMA ModMod ==
    ASSUME NEW W \in Nat \ {0}, NEW M \in Nat \ {0}, M % W = 0, NEW x \in Int
    PROVE  (x % M) % W = x % W
<1> DEFINE d == x \div M
           r == x % M
           k == M \div W
<1>1. x = M * d + r /\ d \in Int /\ r \in Int
  BY DivDef
<1>2. M = W * k /\ k \in Int
  BY DivDef
<1> HIDE DEF d, r, k
<1>3. x = W * (k * d) + r /\ k * d \in Int
  BY <1>1, <1>2
<1>4. (W * (k * d) + r) % W = r % W
  BY <1>1, <1>3, ModShift
<1> QED BY <1>3, <1>4 DEF r

\* A set of natural numbers has a least one.
LEMMA Least ==
    ASSUME NEW T, T \subseteq Nat, T # {}
    PROVE  \E m \in T : \A k \in T : m <= k
<1> DEFINE R == OpToRel(<, Nat)
<1>1. IsWellFoundedOn(R, Nat)
  BY NatLessThanWellFounded
<1>2. \A x, y \in Nat : x < y => <<x, y>> \in R
  BY DEF OpToRel
<1> HIDE DEF R
<1>3. PICK m \in T : \A y \in T : ~(<<y, m>> \in R)
  BY <1>1, WFMin
<1>4. \A y \in T : m <= y
  <2> TAKE y \in T
  <2>1. ~(y < m)
    BY <1>2, <1>3
  <2> QED BY <2>1
<1> QED BY <1>4

\* Induction over the natural numbers, for a set.
LEMMA SetInduction ==
    ASSUME NEW T, 0 \in T, \A k \in Nat : k \in T => k + 1 \in T
    PROVE  Nat \subseteq T
<1> SUFFICES ASSUME Nat \ T # {} PROVE FALSE
  OBVIOUS
<1>1. PICK m \in Nat \ T : \A k \in Nat \ T : m <= k
  BY Least
<1>2. m # 0 /\ m - 1 \in Nat
  BY <1>1
<1>3. m - 1 \in T
  BY <1>1, <1>2
<1> QED BY <1>1, <1>2, <1>3

\* The loops that look for the first opcode of some kind find it.
LEMMA MinLeast ==
    ASSUME NEW T, T \subseteq Nat, T # {}
    PROVE  First(T) \in T /\ \A k \in T : First(T) <= k
BY Least DEF First

\* A strict total order of U, as a set of pairs.
Total(R, U) ==
    /\ \A x \in U : <<x, x>> \notin R
    /\ \A x, y \in U : x = y \/ <<x, y>> \in R \/ <<y, x>> \in R
    /\ \A x, y, z \in U : <<x, y>> \in R /\ <<y, z>> \in R => <<x, z>> \in R

\* s lists U in the order R.
Lists(s, R, U) ==
    /\ s \in [1..Cardinality(U) -> U]
    /\ \A i, j \in 1..Cardinality(U) : i < j => <<s[i], s[j]>> \in R
    /\ \A x \in U : \E i \in 1..Cardinality(U) : s[i] = x

\* A finite set can be listed in a total order.
LEMMA SortedListExists ==
    ASSUME NEW R, NEW U, IsFiniteSet(U), Total(R, U)
    PROVE  \E s : Lists(s, R, U)
<1> DEFINE T == {m \in Nat : \A V \in SUBSET U : Cardinality(V) = m => \E s : Lists(s, R, V)}
<1>1. 0 \in T
  <2> SUFFICES ASSUME NEW V \in SUBSET U, Cardinality(V) = 0
               PROVE  \E s : Lists(s, R, V)
    OBVIOUS
  <2>1. V = {}
    BY FS_Subset, FS_EmptySet
  <2>2. Lists([i \in 1..0 |-> 0], R, V)
    BY <2>1 DEF Lists
  <2> QED BY <2>2
<1>2. ASSUME NEW m \in Nat, m \in T PROVE m + 1 \in T
  <2> SUFFICES ASSUME NEW V \in SUBSET U, Cardinality(V) = m + 1
               PROVE  \E s : Lists(s, R, V)
    OBVIOUS
  <2>1. IsFiniteSet(V) /\ V # {}
    BY FS_Subset, FS_EmptySet
  <2>2. PICK x \in V : TRUE
    BY <2>1
  <2> DEFINE V1 == V \ {x}
  <2>3. V1 \in SUBSET U /\ Cardinality(V1) = m
    <3>1. Cardinality(V1) = Cardinality(V) - 1
      BY <2>1, <2>2, FS_RemoveElement
    <3> QED BY <3>1
  <2>4. PICK s : Lists(s, R, V1)
    BY <1>2, <2>3
  <2> DEFINE A == {i \in 1..m : <<x, s[i]>> \in R} \cup {m + 1}
  <2>5. PICK q \in A : \A k \in A : q <= k
    <3>1. A \subseteq Nat /\ A # {}
      OBVIOUS
    <3> HIDE DEF A
    <3> QED BY <3>1, Least
  <2> DEFINE t == [i \in 1..(m + 1) |-> IF i < q THEN s[i] ELSE IF i = q THEN x ELSE s[i - 1]]
  <2>6. /\ s \in [1..m -> V1]
        /\ \A i, j \in 1..m : i < j => <<s[i], s[j]>> \in R
        /\ \A y \in V1 : \E i \in 1..m : s[i] = y
    BY <2>3, <2>4 DEF Lists
  <2>7. q \in 1..(m + 1)
    BY <2>5
  <2>8. \A i \in 1..m : i < q => <<s[i], x>> \in R
    <3> SUFFICES ASSUME NEW i \in 1..m, i < q PROVE <<s[i], x>> \in R
      OBVIOUS
    <3>1. i \notin A
      BY <2>5, <2>7
    <3>2. s[i] \in U /\ s[i] # x /\ x \in U
      BY <2>6, <2>3
    <3> QED BY <3>1, <3>2 DEF Total
  <2>9. \A i \in 1..m : i >= q => <<x, s[i]>> \in R
    <3> SUFFICES ASSUME NEW i \in 1..m, i >= q PROVE <<x, s[i]>> \in R
      OBVIOUS
    <3>1. q \in 1..m /\ <<x, s[q]>> \in R
      BY <2>5, <2>7
    <3>2. s[i] \in U /\ s[q] \in U /\ x \in U
      BY <3>1, <2>6, <2>3
    <3>3. i = q \/ <<s[q], s[i]>> \in R
      BY <3>1, <2>6
    <3> QED BY <3>1, <3>2, <3>3 DEF Total
  <2>10. t \in [1..(m + 1) -> V]
    BY <2>6, <2>7
  <2>11. ASSUME NEW i \in 1..(m + 1), NEW j \in 1..(m + 1), i < j
         PROVE  <<t[i], t[j]>> \in R
    <3>1. CASE j < q
      BY <3>1, <2>6, <2>7, <2>11
    <3>2. CASE j = q
      BY <3>2, <2>8, <2>7, <2>11
    <3>3. CASE j > q /\ i < q
      <4>1. i \in 1..m /\ j - 1 \in 1..m /\ i < j - 1
        BY <3>3, <2>7
      <4> QED BY <4>1, <3>3, <2>6
    <3>4. CASE j > q /\ i = q
      <4>1. j - 1 \in 1..m /\ j - 1 >= q
        BY <3>4, <2>7
      <4> QED BY <4>1, <3>4, <2>9
    <3>5. CASE j > q /\ i > q
      <4>1. i - 1 \in 1..m /\ j - 1 \in 1..m /\ i - 1 < j - 1
        BY <3>5, <2>7, <2>11
      <4> QED BY <4>1, <3>5, <2>6
    <3> QED BY <3>1, <3>2, <3>3, <3>4, <3>5, <2>7
  <2>12. ASSUME NEW y \in V PROVE \E i \in 1..(m + 1) : t[i] = y
    <3>1. CASE y = x
      BY <3>1, <2>7
    <3>2. CASE y # x
      <4>1. PICK i \in 1..m : s[i] = y
        BY <3>2, <2>6
      <4>2. CASE i < q
        BY <4>1, <4>2
      <4>3. CASE i >= q
        <5>1. i + 1 \in 1..(m + 1) /\ t[i + 1] = s[i]
          BY <4>3, <2>7
        <5> QED BY <5>1, <4>1
      <4> QED BY <4>2, <4>3, <2>7
    <3> QED BY <3>1, <3>2
  <2> HIDE DEF t
  <2>13. Lists(t, R, V)
    BY <2>10, <2>11, <2>12 DEF Lists
  <2> QED BY <2>13
<1>3. Nat \subseteq T
  <2> HIDE DEF T
  <2> QED BY <1>1, <1>2, SetInduction
<1>4. Cardinality(U) \in Nat
  BY FS_CardinalityType
<1> QED BY <1>3, <1>4

\* The element at place k of such a list has k - 1 before it.
LEMMA Ranks ==
    ASSUME NEW R, NEW U, IsFiniteSet(U), Total(R, U), NEW s, Lists(s, R, U),
           NEW k \in 1..Cardinality(U)
    PROVE  Cardinality({x \in U : <<x, s[k]>> \in R}) = k - 1
<1> DEFINE N == Cardinality(U)
           B == {x \in U : <<x, s[k]>> \in R}
           f == [i \in 1..(k - 1) |-> s[i]]
<1>1. N \in Nat
  BY FS_CardinalityType
<1>2. /\ s \in [1..N -> U]
      /\ \A i, j \in 1..N : i < j => <<s[i], s[j]>> \in R
      /\ \A x \in U : \E i \in 1..N : s[i] = x
  BY DEF Lists
<1> HIDE DEF N
<1>0. k \in 1..N
  BY DEF N
<1>3. \A i, j \in 1..N : s[i] = s[j] => i = j
  <2> SUFFICES ASSUME NEW i \in 1..N, NEW j \in 1..N, s[i] = s[j], i < j PROVE FALSE
    BY <1>1
  <2>1. <<s[i], s[j]>> \in R
    BY <1>2
  <2> QED BY <2>1, <1>2 DEF Total
<1>4. f \in [1..(k - 1) -> B]
  BY <1>0, <1>1, <1>2
<1>5. \A i, j \in 1..(k - 1) : f[i] = f[j] => i = j
  BY <1>0, <1>1, <1>3
<1>6. \A x \in B : \E i \in 1..(k - 1) : f[i] = x
  <2> TAKE x \in B
  <2>1. PICK i \in 1..N : s[i] = x
    BY <1>2
  <2>2. i < k
    <3> SUFFICES ASSUME i >= k PROVE FALSE
      BY <1>0, <1>1
    <3>1. <<s[i], s[k]>> \in R
      BY <2>1
    <3>2. i = k \/ <<s[k], s[i]>> \in R
      BY <1>0, <1>1, <1>2
    <3>3. s[i] \in U /\ s[k] \in U
      BY <1>0, <1>2
    <3> QED BY <3>1, <3>2, <3>3 DEF Total
  <2> QED BY <2>1, <2>2, <1>1
<1> HIDE DEF f, B
<1>7. f \in Bijection(1..(k - 1), B)
  BY <1>4, <1>5, <1>6 DEF Bijection, Injection, Surjection, IsInjective
<1>8. ExistsBijection(1..(k - 1), B)
  BY <1>7 DEF ExistsBijection
<1>9. IsFiniteSet(1..(k - 1)) /\ Cardinality(1..(k - 1)) = k - 1
  BY <1>0, <1>1, FS_Interval
<1> QED BY <1>8, <1>9, FS_Bijection DEF B

\* InOrder of DyldSegments, with the order as a set of pairs.
Listing(R, U) ==
    [k \in 1..Cardinality(U) |-> CHOOSE e \in U : Cardinality({f \in U : <<f, e>> \in R}) = k - 1]

\* The table that std::sort leaves is that list: InOrder picks the elements by their rank.
LEMMA InOrderLists ==
    ASSUME NEW R, NEW U, IsFiniteSet(U), Total(R, U)
    PROVE  Lists(Listing(R, U), R, U)
<1> DEFINE N == Cardinality(U)
           rank(e) == Cardinality({f \in U : <<f, e>> \in R})
           g == [k \in 1..N |-> CHOOSE e \in U : rank(e) = k - 1]
<1>1. PICK s : Lists(s, R, U)
  BY SortedListExists
<1>2. N \in Nat
  BY FS_CardinalityType
<1>3. /\ s \in [1..N -> U]
      /\ \A x \in U : \E i \in 1..N : s[i] = x
  BY <1>1 DEF Lists
<1>4. \A k \in 1..N : rank(s[k]) = k - 1
  BY <1>1, Ranks
<1> HIDE DEF N, rank
<1>5. \A k \in 1..N : g[k] = s[k]
  <2> TAKE k \in 1..N
  <2> DEFINE c == CHOOSE e \in U : rank(e) = k - 1
  <2>1. c \in U /\ rank(c) = k - 1
    BY <1>3, <1>4
  <2> HIDE DEF c
  <2>2. PICK i \in 1..N : s[i] = c
    BY <1>3, <2>1
  <2>3. i = k
    BY <1>2, <1>4, <2>1, <2>2
  <2> QED BY <2>2, <2>3 DEF c
<1>6. g = s
  BY <1>3, <1>5
<1>7. Listing(R, U) = s
  BY <1>6 DEF N, rank, Listing
<1> QED BY <1>1, <1>7

\* What appending one list to another makes.
LEMMA Concat ==
    ASSUME NEW X, NEW x \in Seq(X), NEW y \in Seq(X)
    PROVE  /\ x \o y \in Seq(X) /\ Len(x \o y) = Len(x) + Len(y)
           /\ \A i \in 1..(Len(x) + Len(y)) :
                 (x \o y)[i] = IF i <= Len(x) THEN x[i] ELSE y[i - Len(x)]
OBVIOUS

\* Lists are equal if they are as long and have the same elements.
LEMMA SeqEqual ==
    ASSUME NEW X, NEW x \in Seq(X), NEW y \in Seq(X), Len(x) = Len(y), \A i \in 1..Len(x) : x[i] = y[i]
    PROVE  x = y
OBVIOUS

\* Appending is associative.
LEMMA ConcatAssoc ==
    ASSUME NEW X, NEW x \in Seq(X), NEW y \in Seq(X), NEW z \in Seq(X)
    PROVE  (x \o y) \o z = x \o (y \o z)
OBVIOUS

\* The same for the cells of a table.
LEMMA ConcatInt ==
    ASSUME NEW x \in Seq(Int), NEW y \in Seq(Int), NEW z \in Seq(Int)
    PROVE  (x \o y) \o z = x \o (y \o z)
BY ConcatAssoc

\* A list and one more element.
LEMMA ConcatLast ==
    ASSUME NEW X, NEW x \in Seq(X), NEW y \in Seq(X), NEW z \in Seq(X),
           Len(y) = 1, Len(z) = Len(x) + 1,
           /\ \A i \in 1..Len(x) : x[i] = z[i]
           /\ y[1] = z[Len(x) + 1]
    PROVE  x \o y = z
<1> DEFINE m == Len(x)
           v == x \o y
<1>1. v \in Seq(X) /\ Len(v) = Len(x) + Len(y)
      /\ \A i \in 1..(Len(x) + Len(y)) : v[i] = IF i <= Len(x) THEN x[i] ELSE y[i - Len(x)]
  BY Concat, Zenon
<1>2. m \in Nat
  OBVIOUS
<1> HIDE DEF v, m
<1>4. \A i \in 1..(m + 1) : v[i] = z[i]
  <2> TAKE i \in 1..(m + 1)
  <2>1. v[i] = IF i <= m THEN x[i] ELSE y[i - m]
    BY <1>1, <1>2 DEF m
  <2>2. CASE i <= m
    <3>1. i \in 1..m
      BY <2>2
    <3>2. x[i] = z[i]
      BY <3>1 DEF m
    <3> QED BY <2>1, <2>2, <3>2
  <2>3. CASE i = m + 1
    <3>1. i - m = 1 /\ ~(i <= m)
      BY <2>3, <1>2
    <3> QED BY <3>1, <2>3, <2>1 DEF m
  <2>4. i <= m \/ i = m + 1
    BY <1>2
  <2> QED BY <2>2, <2>3, <2>4
<1>5. Len(v) = m + 1 /\ Len(z) = m + 1
  BY <1>1 DEF m
<1>6. v = z
  BY <1>1, <1>4, <1>5, SeqEqual
<1> QED BY <1>6 DEF v

\* f[k] is the concatenation of the first k lists.
Flattened(f, ss, j) == f[0] = << >> /\ \A i \in 1..j : f[i] = f[i - 1] \o ss[i]

\* The lists that concatenating one after the other makes.
LEMMA FlattenedExists ==
    ASSUME NEW X, NEW m \in Nat, NEW ss \in [1..m -> Seq(X)]
    PROVE  \E f \in [0..m -> Seq(X)] : Flattened(f, ss, m)
<1> DEFINE P(j) == j <= m => \E f \in [0..j -> Seq(X)] : Flattened(f, ss, j)
<1>1. P(0)
  <2> DEFINE f == [i \in 0..0 |-> << >>]
  <2>1. f \in [0..0 -> Seq(X)]
    OBVIOUS
  <2>2. Flattened(f, ss, 0)
    BY DEF Flattened
  <2> HIDE DEF f
  <2> QED BY <2>1, <2>2
<1>2. ASSUME NEW j \in Nat, P(j) PROVE P(j + 1)
  <2> SUFFICES ASSUME j + 1 <= m
               PROVE  \E f \in [0..(j + 1) -> Seq(X)] : Flattened(f, ss, j + 1)
    OBVIOUS
  <2>1. PICK f \in [0..j -> Seq(X)] : Flattened(f, ss, j)
    BY <1>2
  <2> DEFINE v == f[j] \o ss[j + 1]
             h == [i \in 0..(j + 1) |-> IF i = j + 1 THEN v ELSE f[i]]
  <2>2. v \in Seq(X)
    <3>1. ss[j + 1] \in Seq(X) /\ f[j] \in Seq(X)
      BY <2>1
    <3> QED BY <3>1
  <2> HIDE DEF v
  <2>3. h \in [0..(j + 1) -> Seq(X)] /\ h[0] = f[0]
    BY <2>2
  <2>4. ASSUME NEW i \in 1..(j + 1)
        PROVE  h[i] = h[i - 1] \o ss[i]
    <3>1. CASE i = j + 1
      <4>1. h[i] = v /\ h[i - 1] = f[j]
        BY <3>1
      <4> HIDE DEF h
      <4> QED BY <3>1, <4>1 DEF v
    <3>2. CASE i # j + 1
      <4>1. i \in 1..j /\ h[i] = f[i] /\ h[i - 1] = f[i - 1]
        BY <3>2
      <4> HIDE DEF h
      <4> QED BY <4>1, <2>1 DEF Flattened
    <3> QED BY <3>1, <3>2
  <2> HIDE DEF h
  <2>5. Flattened(h, ss, j + 1)
    BY <2>1, <2>3, <2>4 DEF Flattened
  <2> QED BY <2>3, <2>5
<1>3. \A j \in Nat : P(j)
  <2> DEFINE T == {j \in Nat : P(j)}
  <2> HIDE DEF P
  <2>1. 0 \in T /\ \A j \in Nat : j \in T => j + 1 \in T
    BY <1>1, <1>2
  <2> HIDE DEF T
  <2>2. Nat \subseteq T
    BY <2>1, SetInduction
  <2> QED BY <2>2 DEF T
<1> QED BY <1>3

\* Joined, which TLC evaluates recursively, returns the last of them.
LEMMA JoinedIs ==
    ASSUME NEW X, NEW m \in Nat, NEW ss \in [1..m -> Seq(X)],
           NEW f \in [0..m -> Seq(X)], Flattened(f, ss, m)
    PROVE  Joined(ss) = f[m]
<1> DEFINE g == CHOOSE g : g = [k \in 0..Len(ss) |-> IF k = 0 THEN << >> ELSE g[k - 1] \o ss[k]]
<1>0. Len(ss) = m
  OBVIOUS
<1>1. f = [k \in 0..Len(ss) |-> IF k = 0 THEN << >> ELSE f[k - 1] \o ss[k]]
  <2>1. ASSUME NEW k \in 0..m PROVE f[k] = IF k = 0 THEN << >> ELSE f[k - 1] \o ss[k]
    <3>1. k # 0 => k \in 1..m
      OBVIOUS
    <3> QED BY <3>1 DEF Flattened
  <2>2. f = [k \in 0..m |-> f[k]]
    OBVIOUS
  <2> QED BY <2>1, <2>2, <1>0, Zenon
<1>2. g = [k \in 0..Len(ss) |-> IF k = 0 THEN << >> ELSE g[k - 1] \o ss[k]]
  BY <1>1
<1>3. Joined(ss) = g[m]
  BY <1>0 DEF Joined
<1> HIDE DEF g
<1>4. \A k \in 0..m : g[k] = IF k = 0 THEN << >> ELSE g[k - 1] \o ss[k]
  BY <1>0, <1>2, Zenon
<1> DEFINE P(j) == j \in 0..m => g[j] = f[j]
<1>5. P(0)
  BY <1>4 DEF Flattened
<1>6. ASSUME NEW j \in Nat, P(j) PROVE P(j + 1)
  <2> SUFFICES ASSUME j + 1 \in 0..m PROVE g[j + 1] = f[j + 1]
    OBVIOUS
  <2>0. (j + 1) - 1 = j /\ j + 1 # 0 /\ j + 1 \in 1..m /\ j \in 0..m
    OBVIOUS
  <2>1. f[j + 1] = f[j] \o ss[j + 1]
    <3>1. f[j + 1] = f[(j + 1) - 1] \o ss[j + 1]
      BY <2>0 DEF Flattened
    <3> QED BY <3>1, <2>0
  <2>2. g[j + 1] = g[j] \o ss[j + 1]
    <3>1. g[j + 1] = g[(j + 1) - 1] \o ss[j + 1]
      BY <1>4, <2>0
    <3> QED BY <3>1, <2>0
  <2>3. g[j] = f[j]
    BY <1>6, <2>0
  <2> QED BY <2>1, <2>2, <2>3
<1>7. \A j \in Nat : P(j)
  <2> DEFINE T == {j \in Nat : P(j)}
  <2> HIDE DEF P
  <2>1. 0 \in T /\ \A j \in Nat : j \in T => j + 1 \in T
    BY <1>5, <1>6
  <2> HIDE DEF T
  <2>2. Nat \subseteq T
    BY <2>1, SetInduction
  <2> QED BY <2>2 DEF T
<1> QED BY <1>3, <1>7

\* d holds the first j lists, the k-th of them after off[k - 1].
Reads(d, off, ss, j) ==
    \A k \in 1..j : \A c \in 1..Len(ss[k]) :
        off[k - 1] + c \in 1..off[j] /\ d[off[k - 1] + c] = ss[k][c]

\* Where the bytes of each opcode are in the encoded data.
LEMMA Flatten ==
    ASSUME NEW X, NEW m \in Nat, NEW ss \in [1..m -> Seq(X)]
    PROVE  \E off \in [0..m -> Nat] :
             /\ off[0] = 0 /\ \A k \in 1..m : off[k] = off[k - 1] + Len(ss[k])
             /\ Joined(ss) \in Seq(X) /\ Len(Joined(ss)) = off[m]
             /\ Reads(Joined(ss), off, ss, m)
<1>1. PICK f \in [0..m -> Seq(X)] : Flattened(f, ss, m)
  BY FlattenedExists
<1>2. Joined(ss) = f[m]
  BY <1>1, JoinedIs
<1> DEFINE off == [j \in 0..m |-> Len(f[j])]
<1>3. off \in [0..m -> Nat] /\ \A j \in 0..m : off[j] = Len(f[j])
  BY <1>1
<1>4. off[0] = 0
  BY <1>1 DEF Flattened
<1> HIDE DEF off
<1>5. \A k \in 1..m : /\ k - 1 \in 0..m /\ f[k - 1] \in Seq(X) /\ ss[k] \in Seq(X)
                      /\ f[k] = f[k - 1] \o ss[k]
  <2> TAKE k \in 1..m
  <2>1. k - 1 \in 0..m
    OBVIOUS
  <2>2. f[k - 1] \in Seq(X) /\ ss[k] \in Seq(X)
    BY <2>1, <1>1
  <2>3. f[k] = f[k - 1] \o ss[k]
    BY <1>1 DEF Flattened
  <2> QED BY <2>1, <2>2, <2>3
<1>6. \A k \in 1..m : off[k] = off[k - 1] + Len(ss[k])
  <2> TAKE k \in 1..m
  <2>0. k \in 0..m /\ k - 1 \in 0..m /\ f[k - 1] \in Seq(X) /\ ss[k] \in Seq(X)
        /\ f[k] = f[k - 1] \o ss[k]
    BY <1>5
  <2>1. Len(f[k - 1] \o ss[k]) = Len(f[k - 1]) + Len(ss[k])
    BY <2>0
  <2>2. off[k] = Len(f[k]) /\ off[k - 1] = Len(f[k - 1])
    BY <2>0, <1>3
  <2> QED BY <2>0, <2>1, <2>2
<1> DEFINE P(j) == j \in 0..m => Reads(f[j], off, ss, j)
<1>7. P(0)
  BY DEF Reads
<1>8. ASSUME NEW j \in Nat, P(j) PROVE P(j + 1)
  <2> SUFFICES ASSUME j + 1 \in 0..m PROVE Reads(f[j + 1], off, ss, j + 1)
    OBVIOUS
  <2> SUFFICES ASSUME NEW k \in 1..(j + 1), NEW c \in 1..Len(ss[k])
               PROVE  /\ off[k - 1] + c \in 1..off[j + 1]
                      /\ f[j + 1][off[k - 1] + c] = ss[k][c]
    BY DEF Reads
  <2>0. /\ off[j + 1] = off[j] + Len(ss[j + 1]) /\ off[j] \in Nat /\ off[k - 1] \in Nat
        /\ Len(ss[j + 1]) \in Nat /\ Len(ss[k]) \in Nat /\ k \in 1..m
    <3>1. (j + 1) - 1 = j /\ j + 1 \in 1..m /\ j \in 0..m /\ k \in 1..m /\ k - 1 \in 0..m
      OBVIOUS
    <3>2. off[j + 1] = off[(j + 1) - 1] + Len(ss[j + 1])
      BY <3>1, <1>6
    <3>3. Len(ss[j + 1]) \in Nat /\ Len(ss[k]) \in Nat
      BY <3>1, <1>5
    <3> QED BY <3>1, <3>2, <3>3, <1>3
  <2>1. j \in 0..m /\ Reads(f[j], off, ss, j) /\ f[j + 1] = f[j] \o ss[j + 1]
    <3>1. j \in 0..m /\ j + 1 \in 1..m /\ (j + 1) - 1 = j
      OBVIOUS
    <3>2. f[j + 1] = f[(j + 1) - 1] \o ss[j + 1]
      BY <3>1, <1>5
    <3> QED BY <3>1, <3>2, <1>8
  <2>2. f[j] \in Seq(X) /\ ss[j + 1] \in Seq(X) /\ off[j] = Len(f[j])
    BY <2>1, <1>1, <1>3
  <2>3. \A i \in 1..(off[j] + Len(ss[j + 1])) :
           f[j + 1][i] = IF i <= off[j] THEN f[j][i] ELSE ss[j + 1][i - off[j]]
    BY <2>1, <2>2
  <2>4. CASE k = j + 1
    <3>0. \A x, y \in Nat : \A i \in 1..y : /\ x + i \in 1..(x + y)
                                          /\ (x + i) - x = i /\ ~(x + i <= x)
      OBVIOUS
    <3>a. c \in 1..Len(ss[j + 1]) /\ k - 1 = j
      BY <2>4
    <3>1. off[j] + c \in 1..(off[j] + Len(ss[j + 1])) /\ k - 1 = j
          /\ (off[j] + c) - off[j] = c /\ ~(off[j] + c <= off[j])
      BY <3>0, <3>a, <2>0
    <3>2. f[j + 1][off[j] + c] = ss[j + 1][(off[j] + c) - off[j]]
      BY <3>1, <2>3
    <3> QED BY <3>1, <3>2, <2>0, <2>4
  <2>5. CASE k # j + 1
    <3>1. off[k - 1] + c \in 1..off[j] /\ f[j][off[k - 1] + c] = ss[k][c]
      <4>1. k \in 1..j
        BY <2>5
      <4> QED BY <4>1, <2>1 DEF Reads
    <3>2. off[k - 1] + c \in 1..(off[j] + Len(ss[j + 1])) /\ off[k - 1] + c <= off[j]
      <4>1. \A x \in Int : \A y, z \in Nat : x \in 1..y => x \in 1..(y + z) /\ x <= y
        OBVIOUS
      <4>0. \A x \in Nat : \A i \in Int : x + i \in Int
        OBVIOUS
      <4>a. c \in Int
        OBVIOUS
      <4>2. off[k - 1] + c \in Int
        BY <4>0, <4>a, <2>0
      <4> QED BY <4>1, <4>2, <3>1, <2>0
    <3>3. f[j + 1][off[k - 1] + c] = f[j][off[k - 1] + c]
      BY <3>2, <2>3
    <3> QED BY <3>1, <3>2, <3>3, <2>0
  <2> QED BY <2>4, <2>5
<1>9. \A j \in Nat : P(j)
  <2> DEFINE T == {j \in Nat : P(j)}
  <2> HIDE DEF P
  <2>1. 0 \in T /\ \A j \in Nat : j \in T => j + 1 \in T
    BY <1>7, <1>8
  <2> HIDE DEF T
  <2>2. Nat \subseteq T
    BY <2>1, SetInduction
  <2> QED BY <2>2 DEF T
<1>10. Joined(ss) \in Seq(X) /\ Len(Joined(ss)) = off[m] /\ Reads(Joined(ss), off, ss, m)
  BY <1>1, <1>2, <1>3, <1>9
<1> QED BY <1>3, <1>4, <1>6, <1>10

\* The first elements are a beginning.
LEMMA SubSeqBegins ==
    ASSUME NEW X, NEW x \in Seq(X), NEW m \in 0..Len(x)
    PROVE  Begins(SubSeq(x, 1, m), x)
<1>1. Len(SubSeq(x, 1, m)) = m /\ m <= Len(x)
  OBVIOUS
<1> QED BY <1>1 DEF Begins

(****************************************************************************)
(* The rebase table: what its opcodes make dyld do                          *)
(****************************************************************************)

\* An entry of the rebase table, dyld's variables, and an opcode.
REntry == [type : Nat, address : Nat]
RState == [address : 0..(DyldWord - 1), segEnd : Nat, type : Nat, bad : BOOLEAN, rebased : Seq(REntry)]
ROp == [op : DOMAIN Rebasing!Codes, a : Nat, b : Nat]

\* The address after i steps of a loop over pointers that are skip apart.
At(s, i, skip) == (s.address + i * (skip + PtrSize)) % DyldWord

\* What such a loop rebases.
RList(s, count, skip) == [i \in 1..count |-> [type |-> s.type, address |-> At(s, i - 1, skip)]]

\* The opcodes of the rebase table.
LEMMA RCodes ==
    DOMAIN Rebasing!Codes =
        {"DONE", "SET_TYPE_IMM", "SET_SEGMENT_AND_OFFSET_ULEB", "ADD_ADDR_ULEB", "ADD_ADDR_IMM_SCALED",
         "DO_REBASE_IMM_TIMES", "DO_REBASE_ULEB_TIMES", "DO_REBASE_ADD_ADDR_ULEB",
         "DO_REBASE_ULEB_TIMES_SKIPPING_ULEB"}
BY DEF Rebasing!Codes

\* A multiple and the next one.
LEMMA Mult ==
    ASSUME NEW i \in Nat, NEW x \in Nat
    PROVE  i * x \in Nat /\ (i + 1) * x = i * x + x
OBVIOUS

\* The address dyld reaches after i steps fits in its word.
LEMMA AtType ==
    ASSUME NEW x \in Nat, NEW i \in Nat, NEW skip \in Nat
    PROVE  (x + i * (skip + PtrSize)) % DyldWord \in 0..(DyldWord - 1)
<1>1. skip + PtrSize \in Nat /\ DyldWord \in Nat \ {0}
  BY WidthAssumption
<1>2. i * (skip + PtrSize) \in Nat
  BY <1>1, Mult
<1> HIDE DEF WidthAssumption
<1> QED BY <1>1, <1>2, DivDef

\* One more step, although dyld reduces every address to its word.
LEMMA AtNext ==
    ASSUME NEW x \in Nat, NEW i \in Nat, NEW skip \in Nat
    PROVE  (((x + i * (skip + PtrSize)) % DyldWord) + (skip + PtrSize)) % DyldWord
                = (x + (i + 1) * (skip + PtrSize)) % DyldWord
<1> DEFINE y == skip + PtrSize
           z == i * y
<1>1. y \in Nat /\ DyldWord \in Nat \ {0}
  BY WidthAssumption
<1> HIDE DEF y
<1>2. z \in Nat /\ (i + 1) * y = z + y
  BY <1>1, Mult
<1> HIDE DEF z
<1>3. (((x + z) % DyldWord) + y) % DyldWord = ((x + z) + y) % DyldWord
  <2>1. x + z \in Int /\ y \in Int
    BY <1>1, <1>2
  <2> QED BY <2>1, <1>1, ModAdd
<1>4. (x + z) + y = x + (i + 1) * y
  BY <1>1, <1>2
<1> QED BY <1>3, <1>4 DEF y, z

\* r is what the loop makes of s.
RIsTimes(r, s, count, skip) ==
    /\ r \in RState /\ r.segEnd = s.segEnd /\ r.type = s.type
    /\ r.address = At(s, count, skip)
    /\ r.rebased = s.rebased \o RList(s, count, skip)
    /\ r.bad = (s.bad \/ \E i \in 1..count : At(s, i - 1, skip) >= s.segEnd)

\* What dyld's loop over one opcode does, with the addresses in closed form.
LEMMA RTimes ==
    ASSUME NEW s \in RState, NEW count \in Nat, NEW skip \in Nat
    PROVE  RIsTimes(Rebasing!RebaseTimes(s, count, skip), s, count, skip)
<1> DEFINE r == Rebasing!RebaseTimes(s, count, skip)
           b == s.bad \/ \E i \in 1..count : At(s, i - 1, skip) >= s.segEnd
<1>0. s.address \in Nat /\ s.type \in Nat
  BY WidthAssumption DEF RState
<1>1. \A i \in Nat : At(s, i, skip) \in 0..(DyldWord - 1)
  BY <1>0, AtType DEF At
<1>2. r = [s EXCEPT !.rebased = s.rebased \o RList(s, count, skip), !.bad = b,
                    !.address = At(s, count, skip)]
  BY DEF Rebasing!RebaseTimes, RList, At
<1>3. RList(s, count, skip) \in Seq(REntry)
  <2>1. \A i \in 1..count : [type |-> s.type, address |-> At(s, i - 1, skip)] \in REntry
    <3> TAKE i \in 1..count
    <3>1. At(s, i - 1, skip) \in 0..(DyldWord - 1)
      BY <1>1
    <3>2. At(s, i - 1, skip) \in Nat
      BY <3>1
    <3> QED BY <1>0, <3>2 DEF REntry
  <2> QED BY <2>1 DEF RList
<1>4. s.rebased \o RList(s, count, skip) \in Seq(REntry)
  BY <1>3 DEF RState
<1>5. b \in BOOLEAN
  BY DEF RState
<1> HIDE DEF b, r
<1>6. /\ r \in RState /\ r.segEnd = s.segEnd /\ r.type = s.type
      /\ r.address = At(s, count, skip) /\ r.rebased = s.rebased \o RList(s, count, skip)
      /\ r.bad = b
  BY <1>1, <1>2, <1>4, <1>5 DEF RState
<1> QED BY <1>6 DEF b, r, RIsTimes

\* dyld's variables, one by one.
LEMMA RStateEqual ==
    ASSUME NEW s \in RState, NEW t \in RState, s.address = t.address, s.segEnd = t.segEnd,
           s.type = t.type, s.bad = t.bad, s.rebased = t.rebased
    PROVE  s = t
BY DEF RState

\* A loop that runs no times does nothing.
LEMMA RTimesNone ==
    ASSUME NEW s \in RState, NEW skip \in Nat
    PROVE  Rebasing!RebaseTimes(s, 0, skip) = s
<1> DEFINE r == Rebasing!RebaseTimes(s, 0, skip)
<1>1. /\ r \in RState /\ r.segEnd = s.segEnd /\ r.type = s.type
      /\ r.address = At(s, 0, skip) /\ r.rebased = s.rebased \o RList(s, 0, skip)
      /\ r.bad = (s.bad \/ \E i \in 1..0 : At(s, i - 1, skip) >= s.segEnd)
  <2>1. RIsTimes(r, s, 0, skip)
    BY RTimes
  <2> HIDE DEF r
  <2> QED BY <2>1 DEF RIsTimes
<1> HIDE DEF r
<1>2. At(s, 0, skip) = s.address
  <2>1. s.address + 0 * (skip + PtrSize) = s.address /\ s.address \in 0..(DyldWord - 1)
    BY WidthAssumption DEF RState
  <2> QED BY <2>1, ModSmall, WidthAssumption DEF At
<1>3. s.rebased \o RList(s, 0, skip) = s.rebased
  <2>1. RList(s, 0, skip) = << >>
    BY DEF RList
  <2> QED BY <2>1 DEF RState
<1>4. r.bad = s.bad
  BY <1>1 DEF RState
<1>5. r = s
  BY <1>1, <1>2, <1>3, <1>4, RStateEqual
<1> QED BY <1>5 DEF r

\* A loop that runs once more.
LEMMA RTimesNext ==
    ASSUME NEW s \in RState, NEW j \in Nat, NEW skip \in Nat
    PROVE  Rebasing!RebaseTimes(Rebasing!RebaseTimes(s, j, skip), 1, skip)
                = Rebasing!RebaseTimes(s, j + 1, skip)
<1> DEFINE t == Rebasing!RebaseTimes(s, j, skip)
           r == Rebasing!RebaseTimes(t, 1, skip)
           q == Rebasing!RebaseTimes(s, j + 1, skip)
<1>1. /\ t \in RState /\ t.segEnd = s.segEnd /\ t.type = s.type
      /\ t.address = At(s, j, skip) /\ t.rebased = s.rebased \o RList(s, j, skip)
      /\ t.bad = (s.bad \/ \E i \in 1..j : At(s, i - 1, skip) >= s.segEnd)
  BY RTimes DEF RIsTimes
<1>2. /\ q \in RState /\ q.segEnd = s.segEnd /\ q.type = s.type
      /\ q.address = At(s, j + 1, skip) /\ q.rebased = s.rebased \o RList(s, j + 1, skip)
      /\ q.bad = (s.bad \/ \E i \in 1..(j + 1) : At(s, i - 1, skip) >= s.segEnd)
  <2>1. RIsTimes(q, s, j + 1, skip)
    BY RTimes
  <2> HIDE DEF q
  <2> QED BY <2>1 DEF RIsTimes
<1> HIDE DEF t
<1>3. /\ r \in RState /\ r.segEnd = t.segEnd /\ r.type = t.type
      /\ r.address = At(t, 1, skip) /\ r.rebased = t.rebased \o RList(t, 1, skip)
      /\ r.bad = (t.bad \/ \E i \in 1..1 : At(t, i - 1, skip) >= t.segEnd)
  <2>1. RIsTimes(r, t, 1, skip)
    BY <1>1, RTimes
  <2> HIDE DEF r
  <2> QED BY <2>1 DEF RIsTimes
<1> HIDE DEF r, q
<1>4. At(t, 0, skip) = At(s, j, skip)
  <2>1. t.address + 0 * (skip + PtrSize) = t.address /\ t.address \in 0..(DyldWord - 1)
    BY <1>1, WidthAssumption DEF RState
  <2>2. (t.address + 0 * (skip + PtrSize)) % DyldWord = t.address
    BY <2>1, ModSmall, WidthAssumption
  <2> QED BY <2>2, <1>1 DEF At
<1>5. At(t, 1, skip) = At(s, j + 1, skip)
  <2>1. skip + PtrSize \in Nat /\ 1 * (skip + PtrSize) = skip + PtrSize
    BY WidthAssumption
  <2>2. s.address \in Nat
    BY DEF RState
  <2>3. (s.address + j * (skip + PtrSize)) % DyldWord = t.address
    BY <1>1 DEF At
  <2>4. (t.address + (skip + PtrSize)) % DyldWord = (s.address + (j + 1) * (skip + PtrSize)) % DyldWord
    BY <2>2, <2>3, AtNext
  <2> QED BY <2>1, <2>4 DEF At
<1>6. r.bad = q.bad
  <2>1. (\E i \in 1..1 : At(t, i - 1, skip) >= t.segEnd) <=> At(s, j, skip) >= s.segEnd
    <3>1. 1 - 1 = 0 /\ 1..1 = {1}
      OBVIOUS
    <3> QED BY <3>1, <1>1, <1>4
  <2>2. (\E i \in 1..(j + 1) : At(s, i - 1, skip) >= s.segEnd)
           <=> (\E i \in 1..j : At(s, i - 1, skip) >= s.segEnd) \/ At(s, j, skip) >= s.segEnd
    <3>1. (j + 1) - 1 = j /\ 1..(j + 1) = (1..j) \cup {j + 1}
      OBVIOUS
    <3> QED BY <3>1
  <2>3. r.bad \in BOOLEAN /\ q.bad \in BOOLEAN /\ s.bad \in BOOLEAN /\ t.bad \in BOOLEAN
    BY <1>1, <1>2, <1>3 DEF RState
  <2>4. r.bad <=> q.bad
    BY <2>1, <2>2, <1>1, <1>2, <1>3
  <2> QED BY <2>3, <2>4
<1>7. r.rebased = q.rebased
  <2> DEFINE xs == RList(s, j, skip)
             ys == RList(t, 1, skip)
             zs == RList(s, j + 1, skip)
  <2>0. s.address \in Nat /\ s.type \in Nat /\ t.address \in Nat /\ t.type \in Nat
    BY <1>1, WidthAssumption DEF RState
  <2>1. \A i \in Nat : At(s, i, skip) \in Nat /\ At(t, i, skip) \in Nat
    <3> TAKE i \in Nat
    <3>1. At(s, i, skip) \in 0..(DyldWord - 1) /\ At(t, i, skip) \in 0..(DyldWord - 1)
      BY AtType, <2>0 DEF At
    <3> QED BY <3>1
  <2>2. xs \in Seq(REntry) /\ ys \in Seq(REntry) /\ zs \in Seq(REntry)
        /\ Len(xs) = j /\ Len(ys) = 1 /\ Len(zs) = j + 1
    <3>1. \A i \in 1..j : [type |-> s.type, address |-> At(s, i - 1, skip)] \in REntry
      BY <2>0, <2>1 DEF REntry
    <3>2. \A i \in 1..(j + 1) : [type |-> s.type, address |-> At(s, i - 1, skip)] \in REntry
      BY <2>0, <2>1 DEF REntry
    <3>3. \A i \in 1..1 : [type |-> t.type, address |-> At(t, i - 1, skip)] \in REntry
      BY <2>0, <2>1 DEF REntry
    <3> QED BY <3>1, <3>2, <3>3 DEF RList
  <2>3. \A i \in 1..j : xs[i] = zs[i]
    BY DEF RList
  <2>4. ys[1] = zs[j + 1]
    <3>1. ys[1] = [type |-> t.type, address |-> At(t, 1 - 1, skip)]
      BY DEF RList
    <3>2. zs[j + 1] = [type |-> s.type, address |-> At(s, (j + 1) - 1, skip)]
      BY DEF RList
    <3>3. 1 - 1 = 0 /\ (j + 1) - 1 = j
      OBVIOUS
    <3> QED BY <3>1, <3>2, <3>3, <1>1, <1>4
  <2> HIDE DEF xs, ys, zs
  <2>5. s.rebased \in Seq(REntry)
    BY DEF RState
  <2>6. (s.rebased \o xs) \o ys = s.rebased \o zs
    <3>1. xs \in Seq(REntry) /\ ys \in Seq(REntry) /\ zs \in Seq(REntry)
          /\ Len(ys) = 1 /\ Len(zs) = Len(xs) + 1
      BY <2>2
    <3>2. \A i \in 1..Len(xs) : xs[i] = zs[i]
      BY <2>2, <2>3
    <3>3. ys[1] = zs[Len(xs) + 1]
      BY <2>2, <2>4
    <3>4. xs \o ys = zs
      BY <3>1, <3>2, <3>3, ConcatLast, Zenon
    <3> DEFINE rb == s.rebased
    <3>5. rb \in Seq(REntry)
      BY <2>5
    <3>6. xs \in Seq(REntry) /\ ys \in Seq(REntry)
      BY <3>1
    <3> HIDE DEF rb
    <3>7. (rb \o xs) \o ys = rb \o (xs \o ys)
      BY <3>5, <3>6, ConcatAssoc
    <3> QED BY <3>4, <3>7 DEF rb
  <2> QED BY <2>6, <1>1, <1>2, <1>3 DEF xs, ys, zs
<1>8. r = q
  <2>1. r.address = q.address /\ r.segEnd = q.segEnd /\ r.type = q.type
    BY <1>1, <1>2, <1>3, <1>5
  <2>2. r \in RState /\ q \in RState
    BY <1>2, <1>3
  <2> QED BY <2>1, <2>2, <1>6, <1>7, RStateEqual
<1> QED BY <1>8 DEF t, r, q

\* An opcode that ld may write: what goes into its byte fits there.
ROk(l, o) ==
    /\ o \in ROp /\ o.op # "DONE"
    /\ o.op \in {"SET_TYPE_IMM", "ADD_ADDR_IMM_SCALED", "DO_REBASE_IMM_TIMES"} => o.a < Imm
    /\ o.op \notin {"SET_SEGMENT_AND_OFFSET_ULEB", "DO_REBASE_ULEB_TIMES_SKIPPING_ULEB"} => o.b = 0
    /\ o.op = "SET_SEGMENT_AND_OFFSET_ULEB" => o.a < Len(l) - 1

\* dyld has rebased the first entries of the table.
RStates(inf) ==
    {s \in RState : ~s.bad /\ \E m \in 0..Len(inf) : s.rebased = SubSeq(inf, 1, m)}

\* t follows the opcodes from i to j.
RTrace(l, inf, ops, t, i, j) ==
    \A k \in (i + 1)..j :
        ROk(l, ops[k]) /\ t[k] \in RStates(inf) /\ t[k] = Rebasing!Run1(l, t[k - 1], ops[k])

\* What each opcode makes rebase of dyld do.
LEMMA RRun ==
    ASSUME NEW l, NEW s, NEW o
    PROVE  /\ o.op = "SET_TYPE_IMM" => Rebasing!Run1(l, s, o) = [s EXCEPT !.type = o.a]
           /\ o.op = "ADD_ADDR_ULEB" =>
                Rebasing!Run1(l, s, o) = [s EXCEPT !.address = (s.address + (o.a % DyldWord)) % DyldWord]
           /\ o.op = "ADD_ADDR_IMM_SCALED" =>
                Rebasing!Run1(l, s, o) = [s EXCEPT !.address = (s.address + o.a * PtrSize) % DyldWord]
           /\ o.op \in {"DO_REBASE_IMM_TIMES", "DO_REBASE_ULEB_TIMES"} =>
                Rebasing!Run1(l, s, o) = Rebasing!RebaseTimes(s, o.a, 0)
           /\ o.op = "DO_REBASE_ADD_ADDR_ULEB" =>
                Rebasing!Run1(l, s, o) = Rebasing!RebaseTimes(s, 1, o.a % DyldWord)
           /\ o.op = "DO_REBASE_ULEB_TIMES_SKIPPING_ULEB" =>
                Rebasing!Run1(l, s, o) = Rebasing!RebaseTimes(s, o.a, o.b % DyldWord)
           /\ o.op = "DONE" => Rebasing!Run1(l, s, o) = s
BY DEF Rebasing!Run1, Rebasing!ReadUleb

\* k opcodes that rebase once do what one that rebases k times does.
LEMMA RCombine ==
    ASSUME NEW t, NEW i \in Nat, NEW k \in Nat, NEW skip \in Nat, t[i] \in RState,
           \A j \in 1..k : t[i + j] = Rebasing!RebaseTimes(t[i + j - 1], 1, skip)
    PROVE  t[i + k] = Rebasing!RebaseTimes(t[i], k, skip)
<1> DEFINE P(j) == j <= k => t[i + j] = Rebasing!RebaseTimes(t[i], j, skip)
<1>1. P(0)
  <2>1. i + 0 = i
    OBVIOUS
  <2> QED BY <2>1, RTimesNone
<1>2. ASSUME NEW j \in Nat, P(j) PROVE P(j + 1)
  <2> SUFFICES ASSUME j + 1 <= k PROVE t[i + (j + 1)] = Rebasing!RebaseTimes(t[i], j + 1, skip)
    OBVIOUS
  <2>1. t[i + j] = Rebasing!RebaseTimes(t[i], j, skip)
    BY <1>2
  <2>2. j + 1 \in 1..k /\ i + (j + 1) - 1 = i + j
    OBVIOUS
  <2>3. t[i + (j + 1)] = Rebasing!RebaseTimes(t[i + j], 1, skip)
    BY <2>2
  <2> QED BY <2>1, <2>3, RTimesNext
<1>3. \A j \in Nat : P(j)
  <2> DEFINE T == {j \in Nat : P(j)}
  <2> HIDE DEF P
  <2>1. 0 \in T /\ \A j \in Nat : j \in T => j + 1 \in T
    BY <1>1, <1>2
  <2> HIDE DEF T
  <2>2. Nat \subseteq T
    BY <2>1, SetInduction
  <2> QED BY <2>2 DEF T
<1> QED BY <1>3

\* The recursive function of Runs, as a constant operator.
SumOf(ops, q, k) ==
    CHOOSE sum : sum = [j \in 0..k |-> IF j = 0 THEN 0 ELSE sum[j - 1] + ops[q + j - 1].a]

\* The count that the pass of runs adds up, of opcodes that rebase once.
LEMMA SumOfOnes ==
    ASSUME NEW k \in Nat, NEW ops, NEW q \in Nat, \A j \in 1..k : ops[q + j - 1].a = 1
    PROVE  SumOf(ops, q, k)[k] = k
<1> DEFINE IsSum(f) == f = [j \in 0..k |-> IF j = 0 THEN 0 ELSE f[j - 1] + ops[q + j - 1].a]
           g == CHOOSE sum : IsSum(sum)
           h == [j \in 0..k |-> j]
<1>1. IsSum(h)
  <2>1. \A j \in 0..k : j # 0 => h[j - 1] + ops[q + j - 1].a = j
    <3> TAKE j \in 0..k
    <3>1. j # 0 => j - 1 \in 0..k /\ j \in 1..k /\ h[j - 1] = j - 1
      OBVIOUS
    <3> HIDE DEF h
    <3> QED BY <3>1
  <2> QED BY <2>1
<1>2. IsSum(g)
  <2> HIDE DEF IsSum
  <2> QED BY <1>1
<1> HIDE DEF g
<1>3. g[0] = 0 /\ \A j \in 1..k : g[j] = g[j - 1] + ops[q + j - 1].a
  <2>1. \A j \in 0..k : g[j] = IF j = 0 THEN 0 ELSE g[j - 1] + ops[q + j - 1].a
    BY <1>2, Zenon
  <2>2. 0 \in 0..k /\ \A j \in 1..k : j \in 0..k /\ j # 0
    OBVIOUS
  <2> QED BY <2>1, <2>2, Zenon
<1> DEFINE P(j) == j <= k => g[j] = j
<1>4. P(0)
  BY <1>3
<1>5. ASSUME NEW j \in Nat, P(j) PROVE P(j + 1)
  <2> SUFFICES ASSUME j + 1 <= k PROVE g[j + 1] = j + 1
    OBVIOUS
  <2>1. j + 1 \in 1..k /\ (j + 1) - 1 = j
    OBVIOUS
  <2>2. g[j + 1] = g[(j + 1) - 1] + ops[q + (j + 1) - 1].a
    BY <2>1, <1>3, Zenon
  <2>3. ops[q + (j + 1) - 1].a = 1
    BY <2>1, Zenon
  <2>4. g[j] = j
    BY <1>5
  <2> QED BY <2>1, <2>2, <2>3, <2>4
<1>6. \A j \in Nat : P(j)
  <2> DEFINE T == {j \in Nat : P(j)}
  <2> HIDE DEF P
  <2>1. 0 \in T /\ \A j \in Nat : j \in T => j + 1 \in T
    BY <1>4, <1>5
  <2> HIDE DEF T
  <2>2. Nat \subseteq T
    BY <2>1, SetInduction
  <2> QED BY <2>2 DEF T
<1>7. g[k] = k
  BY <1>6
<1> QED BY <1>7 DEF g, SumOf

\* The loop of a pass over opcodes that look alike ends before the array's DONE.
LEMMA RRunLength ==
    ASSUME NEW places, NEW D, mid \in Seq(ROp), src \in Nat, D \in src..Len(mid), D \notin places
    PROVE  /\ Rebasing!RunLength(places) \in 0..(D - src)
           /\ src + Rebasing!RunLength(places) \notin places
           /\ \A j \in 0..(Rebasing!RunLength(places) - 1) : src + j \in places
<1> DEFINE T == {k \in 0..(Len(mid) - src) : src + k \notin places}
           m == Rebasing!RunLength(places)
<1>0. Len(mid) \in Nat /\ D \in Nat /\ src <= D /\ D <= Len(mid)
  OBVIOUS
<1>1. D - src \in T
  <2>1. src + (D - src) = D
    BY <1>0
  <2> QED BY <2>1, <1>0
<1>2. T \subseteq Nat
  BY <1>0
<1>3. m = First(T)
  BY DEF Rebasing!RunLength, Rebasing!First, First
<1> HIDE DEF m, T
<1>4. m \in T /\ \A k \in T : m <= k
  BY <1>1, <1>2, <1>3, MinLeast
<1>5. m \in 0..(Len(mid) - src) /\ src + m \notin places
  BY <1>4 DEF T
<1>6. m <= D - src
  BY <1>1, <1>4
<1>7. \A j \in 0..(m - 1) : src + j \in places
  <2> TAKE j \in 0..(m - 1)
  <2>1. j \in Nat /\ ~(m <= j) /\ j \in 0..(Len(mid) - src)
    BY <1>0, <1>5
  <2>2. j \notin T
    BY <2>1, <1>4
  <2> QED BY <2>1, <2>2 DEF T
<1>8. m \in 0..(D - src)
  BY <1>0, <1>5, <1>6
<1> QED BY <1>5, <1>7, <1>8 DEF m

(****************************************************************************)
(* The rebase table: the passes of encode                                   *)
(****************************************************************************)

\* A pass reads at src, and D is the first DONE from there on.
RReads(u, D) ==
    /\ mid \in Seq(ROp) /\ src \in Nat \ {0} /\ D \in (src + 1)..Len(mid) /\ mid[D].op = "DONE"
    /\ u[src - 1] \in RStates(info) /\ RTrace(layout, info, mid, u, src - 1, D - 1)

\* A step of a pass that keeps the meaning: what it writes does what it has read.
RStepOk(r, u, D) ==
    /\ r.take \in Nat \ {0} /\ src + r.take <= D /\ ROk(layout, r.put)
    /\ Rebasing!Run1(layout, u[src - 1], r.put) = u[src + r.take - 1]

\* What is known of an opcode that a pass has still to read.
LEMMA RReadsAt ==
    ASSUME NEW u, NEW D, RReads(u, D), NEW k \in src..(D - 1)
    PROVE  /\ k \in 1..Len(mid) /\ mid[k] \in ROp /\ ROk(layout, mid[k])
           /\ u[k] \in RState /\ u[k - 1] \in RState
           /\ u[k] = Rebasing!Run1(layout, u[k - 1], mid[k])
<1>1. D \in Nat /\ Len(mid) \in Nat /\ src \in Nat /\ src >= 1 /\ D <= Len(mid)
  BY DEF RReads
<1>2. k \in 1..Len(mid) /\ k \in ((src - 1) + 1)..(D - 1)
  BY <1>1
<1>3. ROk(layout, mid[k]) /\ u[k] \in RStates(info) /\ u[k] = Rebasing!Run1(layout, u[k - 1], mid[k])
  BY <1>2 DEF RReads, RTrace
<1>4. u[k - 1] \in RStates(info)
  <2>1. CASE k = src
    BY <2>1 DEF RReads
  <2>2. CASE k # src
    <3>1. k - 1 \in ((src - 1) + 1)..(D - 1)
      BY <2>2, <1>1
    <3> QED BY <3>1 DEF RReads, RTrace
  <2> QED BY <2>1, <2>2
<1> QED BY <1>2, <1>3, <1>4 DEF RStates, ROk

\* A pass that copies an opcode keeps its meaning.
LEMMA ROneStep ==
    ASSUME NEW u, NEW D, RReads(u, D)
    PROVE  RStepOk(Rebasing!One, u, D)
<1>1. src \in src..(D - 1) /\ src \in Nat /\ D \in Nat /\ src + 1 <= D /\ src + 1 - 1 = src
  BY DEF RReads
<1>2. ROk(layout, mid[src]) /\ u[src] = Rebasing!Run1(layout, u[src - 1], mid[src])
  BY <1>1, RReadsAt
<1>3. Rebasing!One.take = 1 /\ Rebasing!One.put = mid[src]
  BY DEF Rebasing!One
<1> QED BY <1>1, <1>2, <1>3 DEF RStepOk

\* Phase 1 of encode keeps the meaning: a run of rebases becomes one opcode.
LEMMA RRunsStep ==
    ASSUME NEW u, NEW D, RReads(u, D),
           \A k \in src..(D - 1) : mid[k].op = "DO_REBASE_ULEB_TIMES" => mid[k].a = 1
    PROVE  RStepOk(Rebasing!Runs, u, D)
<1>1. CASE ~(mid[src].op = "DO_REBASE_ULEB_TIMES" /\ mid[src].a = 1)
  <2>1. Rebasing!Runs = Rebasing!One
    BY <1>1 DEF Rebasing!Runs
  <2> QED BY <2>1, ROneStep
<1>2. CASE mid[src].op = "DO_REBASE_ULEB_TIMES" /\ mid[src].a = 1
  <2> DEFINE places == {j \in DOMAIN mid : mid[j].op = "DO_REBASE_ULEB_TIMES"}
             k == Rebasing!RunLength(places)
             total == SumOf(mid, src, k)[k]
             i == src - 1
  <2>1. mid \in Seq(ROp) /\ src \in Nat /\ D \in Nat /\ src >= 1 /\ src + 1 <= D /\ D <= Len(mid)
        /\ D \in src..Len(mid) /\ Len(mid) \in Nat /\ mid[D].op = "DONE"
    BY DEF RReads
  <2>2. D \notin places /\ src \in places
    BY <2>1, <1>2
  <2>3. /\ k \in 0..(D - src) /\ src + k \notin places
        /\ \A j \in 0..(k - 1) : src + j \in places
    <3> HIDE DEF places
    <3> QED BY <2>1, <2>2, RRunLength
  <2>4. Rebasing!Runs = [take |-> k, put |-> Rebasing!Op("DO_REBASE_ULEB_TIMES", total, 0)]
    BY <1>2 DEF Rebasing!Runs, SumOf
  <2> HIDE DEF k
  <2>5. k # 0 /\ k \in Nat /\ src + k <= D
    <3>1. k \in Nat /\ src + k <= D
      BY <2>1, <2>3
    <3>2. k = 0 => src + k = src
      BY <2>1
    <3> QED BY <3>1, <3>2, <2>2, <2>3
  <2>6. \A j \in 1..k : i + j \in src..(D - 1) /\ i + j \in places
                        /\ src + j - 1 = i + j
    <3> TAKE j \in 1..k
    <3>1. j - 1 \in 0..(k - 1) /\ src + (j - 1) = i + j /\ src + j - 1 = i + j
          /\ i + j \in src..(D - 1)
      BY <2>1, <2>5
    <3> QED BY <3>1, <2>3
  <2> HIDE DEF i
  <2>7. \A j \in 1..k : mid[i + j].op = "DO_REBASE_ULEB_TIMES" /\ mid[i + j].a = 1
    BY <2>6
  <2>8. total = k
    <3>1. \A j \in 1..k : mid[src + j - 1].a = 1
      BY <2>6, <2>7
    <3> QED BY <3>1, <2>1, <2>5, SumOfOnes
  <2> HIDE DEF total
  <2> DEFINE put == Rebasing!Op("DO_REBASE_ULEB_TIMES", k, 0)
  <2>10. u[i] \in RState /\ i \in Nat
    BY <2>1 DEF RReads, RStates, i
  <2>9. \A j \in 1..k : u[i + j] = Rebasing!RebaseTimes(u[i + j - 1], 1, 0)
    <3> TAKE j \in 1..k
    <3> DEFINE q == i + j
    <3>1. q \in src..(D - 1) /\ mid[q].op = "DO_REBASE_ULEB_TIMES" /\ mid[q].a = 1
      BY <2>6, <2>7
    <3> HIDE DEF q
    <3>2. u[q] = Rebasing!Run1(layout, u[q - 1], mid[q])
      BY <3>1, RReadsAt
    <3>3. u[q] = Rebasing!RebaseTimes(u[q - 1], 1, 0)
      BY <3>1, <3>2, RRun
    <3> QED BY <3>3, <2>10 DEF q
  <2>11. u[i + k] = Rebasing!RebaseTimes(u[i], k, 0)
    <3>1. k \in Nat /\ 0 \in Nat
      BY <2>5
    <3> HIDE DEF RReads, places, put
    <3> QED BY <3>1, <2>9, <2>10, RCombine, ZenonT(60)
  <2>12. put.op = "DO_REBASE_ULEB_TIMES" /\ put.a = k /\ put.b = 0 /\ put \in ROp
    BY <2>5, RCodes DEF Rebasing!Op, ROp
  <2> HIDE DEF put
  <2>13. ROk(layout, put)
    BY <2>12 DEF ROk
  <2>14. Rebasing!Run1(layout, u[i], put) = Rebasing!RebaseTimes(u[i], k, 0)
    BY <2>12, RRun
  <2>15. Rebasing!Runs.take = k /\ Rebasing!Runs.put = put
    BY <2>4, <2>8 DEF put
  <2>16. src + k - 1 = i + k
    BY <2>1, <2>5 DEF i
  <2> QED BY <2>5, <2>11, <2>13, <2>14, <2>15, <2>16 DEF RStepOk, i
<1> QED BY <1>1, <1>2

\* Phase 2 keeps the meaning: a rebase and the addition after it become one opcode.
LEMMA RPairsStep ==
    ASSUME NEW u, NEW D, RReads(u, D)
    PROVE  RStepOk(Rebasing!Pairs, u, D)
<1> DEFINE c == mid[src].op = "DO_REBASE_ULEB_TIMES" /\ mid[src].a = 1 /\ mid[src + 1].op = "ADD_ADDR_ULEB"
<1>1. CASE ~c
  <2>1. Rebasing!Pairs = Rebasing!One
    BY <1>1 DEF Rebasing!Pairs
  <2> QED BY <2>1, ROneStep
<1>2. CASE c
  <2> DEFINE a == mid[src + 1].a
             s == u[src - 1]
             put == Rebasing!Op("DO_REBASE_ADD_ADDR_ULEB", a, 0)
  <2>1. Rebasing!Pairs = [take |-> 2, put |-> put]
    BY <1>2 DEF Rebasing!Pairs
  <2>2. src \in Nat /\ D \in Nat /\ src >= 1 /\ src + 1 <= D /\ src \in src..(D - 1) /\ mid[D].op = "DONE"
    BY DEF RReads
  <2>3. src + 1 \in src..(D - 1) /\ src + 2 <= D /\ (src + 1) - 1 = src /\ src + 2 - 1 = src + 1
    <3>1. src + 1 # D
      BY <1>2, <2>2
    <3> QED BY <3>1, <2>2
  <2>4. /\ s \in RState /\ u[src] \in RState /\ u[src] = Rebasing!Run1(layout, s, mid[src])
    BY <2>2, RReadsAt
  <2>5. /\ mid[src + 1] \in ROp /\ u[src + 1] \in RState
        /\ u[src + 1] = Rebasing!Run1(layout, u[src], mid[src + 1])
    BY <2>3, RReadsAt
  <2>6. a \in Nat
    BY <2>5 DEF ROp
  <2>7. u[src] = Rebasing!RebaseTimes(s, 1, 0)
    BY <1>2, <2>4, RRun
  <2>8. u[src + 1] = [u[src] EXCEPT !.address = (u[src].address + (a % DyldWord)) % DyldWord]
    BY <1>2, <2>5, RRun
  <2>9. put.op = "DO_REBASE_ADD_ADDR_ULEB" /\ put.a = a /\ put.b = 0 /\ put \in ROp
    BY <2>6, RCodes DEF Rebasing!Op, ROp
  <2> HIDE DEF put, a, s, c
  <2>10. ROk(layout, put)
    BY <2>9 DEF ROk
  <2>11. Rebasing!Run1(layout, s, put) = Rebasing!RebaseTimes(s, 1, a % DyldWord)
    BY <2>9, RRun
  <2> DEFINE x == u[src]
             y == u[src + 1]
             z == Rebasing!RebaseTimes(s, 1, a % DyldWord)
             b == a % DyldWord
  <2>12. b \in Nat
    <3>1. b \in 0..(DyldWord - 1)
      BY <2>6, DivDef, WidthAssumption
    <3> QED BY <3>1
  <2> HIDE DEF b
  <2>13. RIsTimes(x, s, 1, 0)
    BY <2>4, <2>7, RTimes
  <2>14. RIsTimes(z, s, 1, b)
    BY <2>4, <2>12, RTimes DEF b
  <2> HIDE DEF x, z
  <2>15. y = [x EXCEPT !.address = (x.address + b) % DyldWord]
    BY <2>8 DEF x, b
  <2>16. y \in RState
    BY <2>5
  <2> HIDE DEF y
  <2>17. x \in RState /\ y.segEnd = x.segEnd /\ y.type = x.type /\ y.bad = x.bad /\ y.rebased = x.rebased
        /\ y.address = (x.address + b) % DyldWord
    BY <2>13, <2>15 DEF RIsTimes, RState
  <2>18. At(s, 0, 0) = At(s, 0, b)
    <3>1. 0 * (0 + PtrSize) = 0 /\ 0 * (b + PtrSize) = 0
      BY <2>12, WidthAssumption
    <3> QED BY <3>1 DEF At
  <2>19. \A i \in 1..1 : At(s, i - 1, 0) = At(s, i - 1, b)
    <3>1. \A i \in 1..1 : i - 1 = 0
      OBVIOUS
    <3> QED BY <3>1, <2>18
  <2>20. RList(s, 1, 0) = RList(s, 1, b)
    BY <2>19 DEF RList
  <2>21. x.bad = z.bad
    BY <2>13, <2>14, <2>19 DEF RIsTimes
  <2>22. x.rebased = z.rebased /\ x.segEnd = z.segEnd /\ x.type = z.type /\ z \in RState
    BY <2>13, <2>14, <2>20 DEF RIsTimes
  <2>23. (x.address + b) % DyldWord = z.address
    <3>1. x.address = At(s, 1, 0) /\ z.address = At(s, 1, b)
      BY <2>13, <2>14 DEF RIsTimes
    <3>2. s.address \in Nat /\ PtrSize \in Nat /\ DyldWord \in Nat \ {0}
      BY <2>4, WidthAssumption DEF RState
    <3>3. At(s, 1, 0) = (s.address + PtrSize) % DyldWord
      BY <3>2 DEF At
    <3>4. At(s, 1, b) = ((s.address + PtrSize) + b) % DyldWord
      <4>1. s.address + 1 * (b + PtrSize) = (s.address + PtrSize) + b
        BY <3>2, <2>12
      <4> QED BY <4>1 DEF At
    <3>5. (((s.address + PtrSize) % DyldWord) + b) % DyldWord = ((s.address + PtrSize) + b) % DyldWord
      <4>1. s.address + PtrSize \in Int /\ b \in Int
        BY <3>2, <2>12
      <4> QED BY <4>1, <3>2, ModAdd
    <3> QED BY <3>1, <3>3, <3>4, <3>5
  <2>24. y = z
    BY <2>16, <2>17, <2>21, <2>22, <2>23, RStateEqual
  <2>25. Rebasing!Pairs.take = 2 /\ Rebasing!Pairs.put = put
    BY <2>1
  <2>26. Rebasing!Run1(layout, u[src - 1], put) = u[src + 1]
    BY <2>11, <2>24 DEF s, y, z
  <2> QED BY <2>2, <2>3, <2>10, <2>25, <2>26 DEF RStepOk
<1> QED BY <1>1, <1>2

\* Phase 3 keeps the meaning: opcodes with one delta become one that skips.
LEMMA RSkipsStep ==
    ASSUME NEW u, NEW D, RReads(u, D)
    PROVE  RStepOk(Rebasing!Skips, u, D)
<1> DEFINE c == \A k \in 0..2 : src + k <= Len(mid) /\ Rebasing!IsSkip(mid[src + k], mid[src].a)
<1>1. CASE ~c
  <2>1. Rebasing!Skips = Rebasing!One
    BY <1>1 DEF Rebasing!Skips
  <2> QED BY <2>1, ROneStep
<1>2. CASE c
  <2> DEFINE a == mid[src].a
             places == {j \in DOMAIN mid : Rebasing!IsSkip(mid[j], a)}
             k == Rebasing!RunLength(places)
             i == src - 1
             put == Rebasing!Op("DO_REBASE_ULEB_TIMES_SKIPPING_ULEB", k, a)
  <2>1. mid \in Seq(ROp) /\ src \in Nat /\ D \in Nat /\ src >= 1 /\ src + 1 <= D /\ D <= Len(mid)
        /\ D \in src..Len(mid) /\ Len(mid) \in Nat /\ mid[D].op = "DONE" /\ src \in src..(D - 1)
    BY DEF RReads
  <2>2. D \notin places /\ src \in places
    <3>1. 0 \in 0..2 /\ src + 0 = src
      BY <2>1
    <3>2. Rebasing!IsSkip(mid[src + 0], mid[src].a)
      BY <3>1, <1>2, Zenon
    <3>3. Rebasing!IsSkip(mid[src], a)
      BY <3>1, <3>2
    <3>4. ~Rebasing!IsSkip(mid[D], a)
      BY <2>1 DEF Rebasing!IsSkip
    <3>5. src \in DOMAIN mid
      BY <2>1
    <3> QED BY <3>3, <3>4, <3>5
  <2>3. /\ k \in 0..(D - src) /\ src + k \notin places
        /\ \A j \in 0..(k - 1) : src + j \in places
    <3> HIDE DEF places
    <3> QED BY <2>1, <2>2, RRunLength
  <2>4. Rebasing!Skips = [take |-> k, put |-> put]
    BY <1>2 DEF Rebasing!Skips
  <2> HIDE DEF k, c
  <2>5. k # 0 /\ k \in Nat /\ src + k <= D
    <3>1. k \in Nat /\ src + k <= D
      BY <2>1, <2>3
    <3>2. k = 0 => src + k = src
      BY <2>1
    <3> QED BY <3>1, <3>2, <2>2, <2>3
  <2>6. \A j \in 1..k : i + j \in src..(D - 1) /\ i + j \in places
    <3> TAKE j \in 1..k
    <3>1. j - 1 \in 0..(k - 1) /\ src + (j - 1) = i + j /\ i + j \in src..(D - 1)
      BY <2>1, <2>5
    <3> QED BY <3>1, <2>3
  <2>7. u[i] \in RState /\ i \in Nat /\ a \in Nat
    <3>1. mid[src] \in ROp
      BY <2>1, RReadsAt
    <3>2. a \in Nat
      BY <3>1 DEF ROp
    <3> QED BY <2>1, <3>2 DEF RReads, RStates
  <2> HIDE DEF i, a
  <2>8. \A j \in 1..k : mid[i + j].op = "DO_REBASE_ADD_ADDR_ULEB" /\ mid[i + j].a = a
    BY <2>6 DEF Rebasing!IsSkip
  <2> DEFINE b == a % DyldWord
  <2>9. b \in Nat
    <3>1. b \in 0..(DyldWord - 1)
      BY <2>7, DivDef, WidthAssumption
    <3> QED BY <3>1
  <2>10. \A j \in 1..k : u[i + j] = Rebasing!RebaseTimes(u[i + j - 1], 1, b)
    <3> TAKE j \in 1..k
    <3> DEFINE q == i + j
    <3>1. q \in src..(D - 1) /\ mid[q].op = "DO_REBASE_ADD_ADDR_ULEB" /\ mid[q].a = a
      BY <2>6, <2>8
    <3> HIDE DEF q
    <3>2. u[q] = Rebasing!Run1(layout, u[q - 1], mid[q])
      BY <3>1, RReadsAt
    <3>3. u[q] = Rebasing!RebaseTimes(u[q - 1], 1, b)
      BY <3>1, <3>2, RRun
    <3> HIDE DEF b
    <3> QED BY <3>3, <2>7 DEF q
  <2>11. Rebasing!Run1(layout, u[i], put) = Rebasing!RebaseTimes(u[i], k, b)
    <3>1. put.op = "DO_REBASE_ULEB_TIMES_SKIPPING_ULEB" /\ put.a = k /\ put.b = a
      BY DEF Rebasing!Op
    <3> HIDE DEF put
    <3> QED BY <3>1, RRun
  <2> HIDE DEF b
  <2>12. u[i + k] = Rebasing!RebaseTimes(u[i], k, b)
    <3>1. k \in Nat
      BY <2>5
    <3> HIDE DEF places, put
    <3> QED BY <3>1, <2>7, <2>9, <2>10, RCombine, Zenon
  <2>13. ROk(layout, put)
    <3>1. put.op = "DO_REBASE_ULEB_TIMES_SKIPPING_ULEB" /\ put \in ROp
      BY <2>5, <2>7, RCodes DEF Rebasing!Op, ROp
    <3> HIDE DEF put
    <3> QED BY <3>1 DEF ROk
  <2>14. Rebasing!Skips.take = k /\ Rebasing!Skips.put = put
    BY <2>4
  <2>15. src + k - 1 = i + k
    BY <2>1, <2>5 DEF i
  <2> QED BY <2>5, <2>11, <2>12, <2>13, <2>14, <2>15 DEF RStepOk, i
<1> QED BY <1>1, <1>2

\* A multiple of the pointer size fits the immediate when encode says so.
LEMMA Scaled ==
    ASSUME NEW a \in Nat, a < (Imm - 1) * PtrSize, a % PtrSize = 0
    PROVE  a \div PtrSize \in Nat /\ a \div PtrSize < Imm /\ (a \div PtrSize) * PtrSize = a
<1> DEFINE q == a \div PtrSize
<1>1. PtrSize \in Nat \ {0} /\ Imm \in Nat
  BY WidthAssumption
<1>2. q \in Int /\ a = PtrSize * q
  BY <1>1, DivDef
<1> HIDE DEF q
<1>3. q >= 0
  <2> SUFFICES ASSUME q < 0 PROVE FALSE
    BY <1>2
  <2>1. PtrSize * q < 0
    BY <1>1, <1>2
  <2> QED BY <2>1, <1>2
<1>4. q < Imm - 1
  <2> SUFFICES ASSUME q >= Imm - 1 PROVE FALSE
    BY <1>1, <1>2
  <2>1. PtrSize * q >= PtrSize * (Imm - 1)
    BY <1>1, <1>2
  <2>2. PtrSize * (Imm - 1) = (Imm - 1) * PtrSize
    BY <1>1
  <2> QED BY <2>1, <2>2, <1>1, <1>2
<1>5. q * PtrSize = a
  BY <1>1, <1>2
<1> QED BY <1>1, <1>2, <1>3, <1>4, <1>5 DEF q

\* Phase 4 keeps the meaning: small operands go into the byte of the opcode.
LEMMA RImmediatesStep ==
    ASSUME NEW u, NEW D, RReads(u, D)
    PROVE  RStepOk(Rebasing!Immediates, u, D)
<1> DEFINE o == mid[src]
           s == u[src - 1]
           add == o.op = "ADD_ADDR_ULEB" /\ o.a < (Imm - 1) * PtrSize /\ o.a % PtrSize = 0
           few == o.op = "DO_REBASE_ULEB_TIMES" /\ o.a < Imm - 1
           scaled == Rebasing!Op("ADD_ADDR_IMM_SCALED", o.a \div PtrSize, 0)
           short == [o EXCEPT !.op = "DO_REBASE_IMM_TIMES"]
           put == Rebasing!Immediates.put
<1>1. /\ Rebasing!Immediates.take = 1
      /\ put = IF add THEN scaled ELSE IF few THEN short ELSE o
  BY DEF Rebasing!Immediates
<1>2. src \in src..(D - 1) /\ src \in Nat /\ D \in Nat /\ src + 1 <= D /\ src + 1 - 1 = src
  BY DEF RReads
<1>3. o \in ROp /\ ROk(layout, o) /\ s \in RState /\ u[src] = Rebasing!Run1(layout, s, o)
  BY <1>2, RReadsAt
<1>4. o.a \in Nat /\ o.b \in Nat
  BY <1>3 DEF ROp
<1>5. CASE add
  <2>1. o.a \div PtrSize \in Nat /\ o.a \div PtrSize < Imm /\ (o.a \div PtrSize) * PtrSize = o.a
    BY <1>4, <1>5, Scaled
  <2>2. scaled.op = "ADD_ADDR_IMM_SCALED" /\ scaled.a = o.a \div PtrSize /\ scaled.b = 0 /\ scaled \in ROp
    BY <2>1, RCodes DEF Rebasing!Op, ROp
  <2> HIDE DEF scaled
  <2>3. ROk(layout, scaled)
    BY <2>1, <2>2 DEF ROk
  <2>4. Rebasing!Run1(layout, s, scaled) = [s EXCEPT !.address = (s.address + o.a) % DyldWord]
    BY <2>1, <2>2, RRun
  <2>5. u[src] = [s EXCEPT !.address = (s.address + (o.a % DyldWord)) % DyldWord]
    BY <1>3, <1>5, RRun
  <2>6. (s.address + (o.a % DyldWord)) % DyldWord = (s.address + o.a) % DyldWord
    <3>1. s.address \in Int /\ o.a \in Int /\ DyldWord \in Nat \ {0}
      BY <1>3, <1>4, WidthAssumption DEF RState
    <3> QED BY <3>1, ModAdd
  <2>7. put = scaled
    BY <1>1, <1>5
  <2> QED BY <1>1, <1>2, <2>3, <2>4, <2>5, <2>6, <2>7 DEF RStepOk
<1>6. CASE ~add /\ few
  <2>1. short.op = "DO_REBASE_IMM_TIMES" /\ short.a = o.a /\ short.b = o.b /\ short \in ROp
    BY <1>3, RCodes DEF ROp
  <2>2. o.b = 0
    BY <1>3, <1>6 DEF ROk
  <2> HIDE DEF short
  <2>3. ROk(layout, short)
    BY <1>4, <1>6, <2>1, <2>2, WidthAssumption DEF ROk
  <2>4. Rebasing!Run1(layout, s, short) = u[src]
    BY <1>3, <1>6, <2>1, RRun
  <2>5. put = short
    BY <1>1, <1>6
  <2> QED BY <1>1, <1>2, <2>3, <2>4, <2>5 DEF RStepOk
<1>7. CASE ~add /\ ~few
  <2>1. put = o
    BY <1>1, <1>7
  <2> QED BY <1>1, <1>2, <1>3, <2>1 DEF RStepOk
<1> QED BY <1>5, <1>6, <1>7

\* w follows the opcodes that a pass has written before ds, u the ones from sr
\* to the DONE at D that it has still to read.
RPass(l, inf, ops, sr, ds, w, u, D) ==
    /\ ops \in Seq(ROp) /\ sr \in Nat \ {0} /\ ds \in 1..sr /\ D \in sr..Len(ops) /\ ops[D].op = "DONE"
    /\ w[0] = Rebasing!Dyld0(l) /\ w[0] \in RStates(inf) /\ RTrace(l, inf, ops, w, 0, ds - 1)
    /\ u[sr - 1] = w[ds - 1] /\ RTrace(l, inf, ops, u, sr - 1, D - 1)
    /\ u[D - 1].rebased = inf

\* Every state that the opcodes lead to is one of dyld reading the table.
LEMMA RPassStates ==
    ASSUME NEW l, NEW inf, NEW ops, NEW sr, NEW ds, NEW w, NEW u, NEW D,
           RPass(l, inf, ops, sr, ds, w, u, D)
    PROVE  /\ \A k \in 0..(ds - 1) : w[k] \in RStates(inf)
           /\ \A k \in (sr - 1)..(D - 1) : u[k] \in RStates(inf)
<1>1. sr \in Nat \ {0} /\ ds \in Nat \ {0} /\ D \in Nat /\ sr <= D /\ Len(ops) \in Nat
  BY DEF RPass
<1>2. ASSUME NEW k \in 0..(ds - 1) PROVE w[k] \in RStates(inf)
  <2>1. CASE k = 0
    BY <2>1 DEF RPass
  <2>2. CASE k # 0
    <3>1. k \in (0 + 1)..(ds - 1)
      BY <1>1, <2>2
    <3> QED BY <3>1 DEF RPass, RTrace
  <2> QED BY <2>1, <2>2
<1>3. ASSUME NEW k \in (sr - 1)..(D - 1) PROVE u[k] \in RStates(inf)
  <2>1. CASE k = sr - 1
    <3>1. ds - 1 \in 0..(ds - 1)
      BY <1>1
    <3>2. w[ds - 1] \in RStates(inf)
      BY <1>2, <3>1
    <3> QED BY <2>1, <3>2 DEF RPass
  <2>2. CASE k # sr - 1
    <3>1. k \in ((sr - 1) + 1)..(D - 1)
      BY <1>1, <2>2
    <3> QED BY <3>1 DEF RPass, RTrace
  <2> QED BY <2>1, <2>2
<1> QED BY <1>2, <1>3

\* Where a pass is when it reads an opcode.
LEMMA RPassReads ==
    ASSUME NEW w, NEW u, NEW D, RPass(layout, info, mid, src, dst, w, u, D), mid[src].op # "DONE"
    PROVE  RReads(u, D)
<1>2. src \in Nat \ {0} /\ D \in src..Len(mid) /\ D # src /\ Len(mid) \in Nat
  BY DEF RPass
<1>3. D \in (src + 1)..Len(mid) /\ src - 1 \in (src - 1)..(D - 1)
  BY <1>2
<1>4. u[src - 1] \in RStates(info)
  BY <1>3, RPassStates
<1> QED BY <1>2, <1>3, <1>4 DEF RPass, RReads

\* The DONE that ends a pass is the first.
LEMMA RPassAtDone ==
    ASSUME NEW l, NEW inf, NEW ops, NEW sr, NEW ds, NEW w, NEW u, NEW D,
           RPass(l, inf, ops, sr, ds, w, u, D), ops[sr].op = "DONE"
    PROVE  sr = D
<1>1. sr \in Nat \ {0} /\ D \in sr..Len(ops) /\ Len(ops) \in Nat
  BY DEF RPass
<1> SUFFICES ASSUME sr # D PROVE FALSE
  OBVIOUS
<1>2. sr \in ((sr - 1) + 1)..(D - 1)
  BY <1>1
<1> QED BY <1>2 DEF RPass, RTrace, ROk

\* A step of a pass: the opcode it writes has the meaning of those it reads.
LEMMA RPassOptimize ==
    ASSUME NEW l, NEW inf, NEW ops, NEW sr, NEW ds, NEW w, NEW u, NEW D,
           RPass(l, inf, ops, sr, ds, w, u, D),
           NEW take \in Nat \ {0}, sr + take <= D, NEW put, ROk(l, put),
           Rebasing!Run1(l, u[sr - 1], put) = u[sr + take - 1]
    PROVE  \E v : RPass(l, inf, [ops EXCEPT ![ds] = put], sr + take, ds + 1, v, u, D)
<1> DEFINE v == [k \in 0..ds |-> IF k = ds THEN u[sr + take - 1] ELSE w[k]]
           new == [ops EXCEPT ![ds] = put]
<1>1. /\ sr \in Nat \ {0} /\ ds \in Nat \ {0} /\ ds <= sr /\ D \in Nat /\ sr <= D
      /\ Len(ops) \in Nat /\ D <= Len(ops) /\ ops \in Seq(ROp) /\ put \in ROp
  BY DEF RPass, ROk
<1>2. new \in Seq(ROp) /\ Len(new) = Len(ops) /\ new[ds] = put
      /\ \A k \in 1..Len(ops) : k # ds => new[k] = ops[k]
  <2>1. ds \in 1..Len(ops)
    BY <1>1
  <2> QED BY <1>1, <2>1
<1>3. v[ds] = u[sr + take - 1] /\ \A k \in 0..(ds - 1) : v[k] = w[k]
  BY <1>1
<1> HIDE DEF v, new
<1>4. new[D].op = "DONE"
  <2>1. D \in 1..Len(ops) /\ D # ds
    BY <1>1
  <2> QED BY <2>1, <1>2 DEF RPass
<1>5. sr + take - 1 \in (sr - 1)..(D - 1) /\ ds - 1 \in 0..(ds - 1) /\ 0 \in 0..(ds - 1)
  BY <1>1
<1>6. u[sr + take - 1] \in RStates(inf) /\ u[sr - 1] = w[ds - 1]
  BY <1>5, RPassStates DEF RPass
<1>7. v[0] = Rebasing!Dyld0(l) /\ v[0] \in RStates(inf)
  BY <1>3, <1>5 DEF RPass
<1>8. RTrace(l, inf, new, v, 0, ds)
  <2> SUFFICES ASSUME NEW k \in (0 + 1)..ds
               PROVE  ROk(l, new[k]) /\ v[k] \in RStates(inf) /\ v[k] = Rebasing!Run1(l, v[k - 1], new[k])
    BY DEF RTrace
  <2>1. CASE k = ds
    BY <2>1, <1>2, <1>3, <1>5, <1>6
  <2>2. CASE k # ds
    <3>1. k \in (0 + 1)..(ds - 1) /\ k \in 0..(ds - 1) /\ k - 1 \in 0..(ds - 1) /\ k \in 1..Len(ops)
      BY <1>1, <2>2
    <3>2. ROk(l, ops[k]) /\ w[k] \in RStates(inf) /\ w[k] = Rebasing!Run1(l, w[k - 1], ops[k])
      BY <3>1 DEF RPass, RTrace
    <3>3. new[k] = ops[k] /\ v[k] = w[k] /\ v[k - 1] = w[k - 1]
      BY <3>1, <2>2, <1>2, <1>3
    <3> QED BY <3>2, <3>3
  <2> QED BY <2>1, <2>2
<1>9. RTrace(l, inf, new, u, sr + take - 1, D - 1)
  <2> SUFFICES ASSUME NEW k \in (sr + take - 1 + 1)..(D - 1)
               PROVE  ROk(l, new[k]) /\ u[k] \in RStates(inf) /\ u[k] = Rebasing!Run1(l, u[k - 1], new[k])
    BY DEF RTrace
  <2>1. k \in ((sr - 1) + 1)..(D - 1) /\ k \in 1..Len(ops) /\ k # ds
    BY <1>1
  <2>2. ROk(l, ops[k]) /\ u[k] \in RStates(inf) /\ u[k] = Rebasing!Run1(l, u[k - 1], ops[k])
    BY <2>1 DEF RPass, RTrace
  <2> QED BY <2>1, <2>2, <1>2
<1>10. sr + take \in Nat \ {0} /\ ds + 1 \in 1..(sr + take) /\ D \in (sr + take)..Len(new) /\ ds + 1 - 1 = ds
  BY <1>1, <1>2
<1>11. u[D - 1].rebased = inf
  BY DEF RPass
<1>12. RPass(l, inf, new, sr + take, ds + 1, v, u, D)
  BY <1>2, <1>3, <1>4, <1>7, <1>8, <1>9, <1>10, <1>11 DEF RPass
<1> QED BY <1>12 DEF new

\* The end of a pass: the DONE that is written cuts off what is left of the old array.
LEMMA RPassEnd ==
    ASSUME NEW l, NEW inf, NEW ops, NEW sr, NEW ds, NEW w, NEW u, NEW D,
           RPass(l, inf, ops, sr, ds, w, u, D), ops[sr].op = "DONE"
    PROVE  RPass(l, inf, [ops EXCEPT ![ds].op = "DONE"], 1, 1, w, w, ds)
<1> DEFINE new == [ops EXCEPT ![ds].op = "DONE"]
<1>1. /\ sr \in Nat \ {0} /\ ds \in Nat \ {0} /\ ds <= sr /\ D \in Nat /\ sr = D
      /\ Len(ops) \in Nat /\ D <= Len(ops) /\ ops \in Seq(ROp)
  <2>1. sr = D
    BY RPassAtDone
  <2> QED BY <2>1 DEF RPass
<1>2. new \in Seq(ROp) /\ Len(new) = Len(ops) /\ new[ds].op = "DONE"
      /\ \A k \in 1..Len(ops) : k # ds => new[k] = ops[k]
  <2>1. ds \in 1..Len(ops) /\ ops[ds] \in ROp
    BY <1>1
  <2>2. [ops[ds] EXCEPT !.op = "DONE"] \in ROp
    BY <2>1, RCodes DEF ROp
  <2> QED BY <1>1, <2>1, <2>2 DEF ROp
<1> HIDE DEF new
<1>3. u[D - 1] = w[ds - 1]
  BY <1>1 DEF RPass
<1>4. RTrace(l, inf, new, w, 0, ds - 1)
  <2> SUFFICES ASSUME NEW k \in (0 + 1)..(ds - 1)
               PROVE  ROk(l, new[k]) /\ w[k] \in RStates(inf) /\ w[k] = Rebasing!Run1(l, w[k - 1], new[k])
    BY DEF RTrace
  <2>1. k \in 1..Len(ops) /\ k # ds
    BY <1>1
  <2>2. ROk(l, ops[k]) /\ w[k] \in RStates(inf) /\ w[k] = Rebasing!Run1(l, w[k - 1], ops[k])
    BY DEF RPass, RTrace
  <2> QED BY <2>1, <2>2, <1>2
<1>5. RTrace(l, inf, new, w, 0, 0)
  BY DEF RTrace
<1>6. 1 - 1 = 0 /\ 1 \in 1..1 /\ ds \in 1..Len(new) /\ 1 \in Nat \ {0}
  BY <1>1, <1>2
<1>7. w[ds - 1].rebased = inf /\ w[0] = Rebasing!Dyld0(l) /\ w[0] \in RStates(inf)
  BY <1>3 DEF RPass
<1>8. RPass(l, inf, new, 1, 1, w, w, ds)
  BY <1>2, <1>4, <1>5, <1>6, <1>7 DEF RPass
<1> QED BY <1>8 DEF new

\* The recursive function of Meaning, as a constant operator.
RRunTo(l, ops, m) ==
    CHOOSE run : run = [k \in 0..m |-> IF k = 0 THEN Rebasing!Dyld0(l) ELSE Rebasing!Run1(l, run[k - 1], ops[k])]

\* A run of the opcodes is determined by its first state.
LEMMA RRunToIs ==
    ASSUME NEW l, NEW ops, NEW m \in Nat, NEW t, t[0] = Rebasing!Dyld0(l),
           \A k \in 1..m : t[k] = Rebasing!Run1(l, t[k - 1], ops[k])
    PROVE  RRunTo(l, ops, m)[m] = t[m]
<1> DEFINE IsRun(f) == f = [k \in 0..m |-> IF k = 0 THEN Rebasing!Dyld0(l)
                                           ELSE Rebasing!Run1(l, f[k - 1], ops[k])]
           g == CHOOSE run : IsRun(run)
           h == [k \in 0..m |-> t[k]]
<1>1. IsRun(h)
  <2>1. \A k \in 0..m : h[k] = IF k = 0 THEN Rebasing!Dyld0(l) ELSE Rebasing!Run1(l, h[k - 1], ops[k])
    <3> TAKE k \in 0..m
    <3>1. CASE k = 0
      BY <3>1
    <3>2. CASE k # 0
      <4>1. k - 1 \in 0..m /\ k \in 1..m
        BY <3>2
      <4>2. h[k - 1] = t[k - 1] /\ h[k] = t[k]
        BY <4>1
      <4> HIDE DEF h
      <4> QED BY <4>1, <4>2, <3>2
    <3> QED BY <3>1, <3>2
  <2>2. h = [k \in 0..m |-> h[k]]
    OBVIOUS
  <2> HIDE DEF h
  <2> QED BY <2>1, <2>2
<1>2. IsRun(g)
  <2> HIDE DEF IsRun
  <2> QED BY <1>1
<1> HIDE DEF g
<1>3. g[0] = t[0] /\ \A k \in 1..m : g[k] = Rebasing!Run1(l, g[k - 1], ops[k])
  <2>1. \A k \in 0..m : g[k] = IF k = 0 THEN Rebasing!Dyld0(l) ELSE Rebasing!Run1(l, g[k - 1], ops[k])
    BY <1>2, Zenon
  <2>2. 0 \in 0..m /\ \A k \in 1..m : k \in 0..m /\ k # 0
    OBVIOUS
  <2> QED BY <2>1, <2>2, Zenon
<1> DEFINE P(k) == k <= m => g[k] = t[k]
<1>4. P(0)
  BY <1>3
<1>5. ASSUME NEW k \in Nat, P(k) PROVE P(k + 1)
  <2> SUFFICES ASSUME k + 1 <= m PROVE g[k + 1] = t[k + 1]
    OBVIOUS
  <2>1. k + 1 \in 1..m /\ (k + 1) - 1 = k
    OBVIOUS
  <2>2. g[k + 1] = Rebasing!Run1(l, g[(k + 1) - 1], ops[k + 1])
    BY <2>1, <1>3, Zenon
  <2>3. t[k + 1] = Rebasing!Run1(l, t[(k + 1) - 1], ops[k + 1])
    BY <2>1, Zenon
  <2>4. g[k] = t[k]
    BY <1>5
  <2> QED BY <2>1, <2>2, <2>3, <2>4
<1>6. \A k \in Nat : P(k)
  <2> DEFINE T == {k \in Nat : P(k)}
  <2> HIDE DEF P
  <2>1. 0 \in T /\ \A k \in Nat : k \in T => k + 1 \in T
    BY <1>4, <1>5
  <2> HIDE DEF T
  <2>2. Nat \subseteq T
    BY <2>1, SetInduction
  <2> QED BY <2>2 DEF T
<1>7. g[m] = t[m]
  BY <1>6
<1> QED BY <1>7 DEF g, RRunTo

\* Meaning ends at the first DONE.
LEMMA RMeaning ==
    ASSUME NEW ops, NEW m \in Nat, NEW t, Len(ops) \in Nat, t[0] = Rebasing!Dyld0(layout),
           \A k \in 1..m : ops[k].op # "DONE" /\ t[k] = Rebasing!Run1(layout, t[k - 1], ops[k]),
           m = Len(ops) \/ (m < Len(ops) /\ ops[m + 1].op = "DONE")
    PROVE  Rebasing!Meaning(ops) = t[m]
<1> DEFINE last == {k \in 1..Len(ops) : ops[k].op = "DONE"}
           upTo == IF last = {} THEN Len(ops) ELSE First(last)
<1>1. Rebasing!Meaning(ops) = RRunTo(layout, ops, upTo)[upTo]
  BY DEF Rebasing!Meaning, RRunTo, Rebasing!First, First
<1>2. CASE m = Len(ops)
  <2>1. last = {}
    BY <1>2
  <2>2. upTo = m
    BY <2>1, <1>2
  <2> HIDE DEF upTo, last
  <2>3. RRunTo(layout, ops, m)[m] = t[m]
    BY RRunToIs
  <2> QED BY <2>2, <2>3, <1>1
<1>3. CASE m < Len(ops) /\ ops[m + 1].op = "DONE"
  <2> DEFINE h == [k \in 0..(m + 1) |-> IF k = m + 1 THEN t[m] ELSE t[k]]
  <2>1. m + 1 \in last /\ last \subseteq Nat /\ \A k \in last : m + 1 <= k
    BY <1>3
  <2>2. First(last) \in last /\ \A k \in last : First(last) <= k
    <3> HIDE DEF last
    <3> QED BY <2>1, MinLeast
  <2>3. upTo = m + 1
    <3> HIDE DEF last
    <3> DEFINE x == First(last)
    <3>0. x \in Nat /\ x <= m + 1 /\ m + 1 <= x
      BY <2>1, <2>2
    <3> HIDE DEF x
    <3>1. x = m + 1
      BY <3>0
    <3> QED BY <2>1, <3>1 DEF x
  <2> HIDE DEF upTo, last
  <2>4. h[0] = t[0] /\ h[m + 1] = t[m] /\ h[m] = t[m] /\ \A k \in 0..m : h[k] = t[k]
    OBVIOUS
  <2> HIDE DEF h
  <2>5. \A k \in 1..(m + 1) : h[k] = Rebasing!Run1(layout, h[k - 1], ops[k])
    <3> TAKE k \in 1..(m + 1)
    <3>1. CASE k = m + 1
      <4>1. (m + 1) - 1 = m
        OBVIOUS
      <4>2. Rebasing!Run1(layout, t[m], ops[m + 1]) = t[m]
        BY <1>3, RRun
      <4> QED BY <3>1, <4>1, <4>2, <2>4
    <3>2. CASE k # m + 1
      <4>1. k \in 1..m /\ k \in 0..m /\ k - 1 \in 0..m
        BY <3>2
      <4> QED BY <4>1, <2>4
    <3> QED BY <3>1, <3>2
  <2>6. m + 1 \in Nat
    OBVIOUS
  <2>7. RRunTo(layout, ops, m + 1)[m + 1] = h[m + 1]
    BY <2>4, <2>5, <2>6, RRunToIs
  <2> QED BY <1>1, <2>3, <2>4, <2>7
<1> QED BY <1>2, <1>3

\* In the middle of a pass: the opcodes written and those still to be read mean the table.
LEMMA RPassMeaning ==
    ASSUME NEW w, NEW u, NEW D, RPass(layout, info, mid, src, dst, w, u, D)
    PROVE  Rebasing!Meaning(SubSeq(mid, 1, dst - 1) \o SubSeq(mid, src, Len(mid))) = u[D - 1]
<1> DEFINE x == SubSeq(mid, 1, dst - 1)
           y == SubSeq(mid, src, Len(mid))
           ops == x \o y
           m == (dst - 1) + (D - src)
           t == [k \in 0..m |-> IF k < dst THEN w[k] ELSE u[(k - dst) + src]]
<1>1. /\ src \in Nat \ {0} /\ dst \in Nat \ {0} /\ dst <= src /\ D \in Nat /\ src <= D
      /\ Len(mid) \in Nat /\ D <= Len(mid) /\ mid \in Seq(ROp)
  BY DEF RPass
<1>2. /\ x \in Seq(ROp) /\ Len(x) = dst - 1 /\ \A k \in 1..(dst - 1) : x[k] = mid[k]
      /\ y \in Seq(ROp) /\ Len(y) = Len(mid) - src + 1
      /\ \A k \in 1..(Len(mid) - src + 1) : y[k] = mid[k + src - 1]
  BY <1>1
<1> HIDE DEF x, y
<1>3. /\ ops \in Seq(ROp) /\ Len(ops) = Len(x) + Len(y)
      /\ \A k \in 1..(Len(x) + Len(y)) : ops[k] = IF k <= Len(x) THEN x[k] ELSE y[k - Len(x)]
  <2>1. x \in Seq(ROp) /\ y \in Seq(ROp)
    BY <1>2
  <2> QED BY <2>1, Concat
<1> HIDE DEF ops
<1>4. /\ \A k \in 1..(dst - 1) : ops[k] = mid[k]
      /\ \A k \in dst..(m + 1) : ops[k] = mid[(k - dst) + src]
  <2>1. ASSUME NEW k \in 1..(dst - 1) PROVE ops[k] = mid[k]
    <3>1. k \in 1..(Len(x) + Len(y)) /\ k <= Len(x)
      BY <1>1, <1>2
    <3> QED BY <3>1, <1>2, <1>3
  <2>2. ASSUME NEW k \in dst..(m + 1) PROVE ops[k] = mid[(k - dst) + src]
    <3>1. k \in 1..(Len(x) + Len(y)) /\ ~(k <= Len(x)) /\ k - Len(x) \in 1..(Len(mid) - src + 1)
          /\ (k - Len(x)) + src - 1 = (k - dst) + src
      BY <1>1, <1>2
    <3> QED BY <3>1, <1>2, <1>3
  <2> QED BY <2>1, <2>2
<1>5. m \in Nat /\ m < Len(ops) /\ Len(ops) \in Nat
  BY <1>1, <1>2, <1>3
<1>6. ops[m + 1].op = "DONE"
  <2>1. m + 1 \in dst..(m + 1) /\ ((m + 1) - dst) + src = D
    BY <1>1
  <2> QED BY <2>1, <1>4 DEF RPass
<1>7. /\ \A k \in 0..(dst - 1) : k \in 0..m => t[k] = w[k]
      /\ \A k \in dst..m : t[k] = u[(k - dst) + src]
  BY <1>1
<1> HIDE DEF t
<1>8. t[0] = Rebasing!Dyld0(layout)
  <2>1. 0 \in 0..(dst - 1) /\ 0 \in 0..m
    BY <1>1, <1>5
  <2> QED BY <2>1, <1>7 DEF RPass
<1>9. t[m] = u[D - 1]
  <2>1. CASE D = src
    <3>1. m = dst - 1 /\ m \in 0..(dst - 1) /\ m \in 0..m
      BY <2>1, <1>1, <1>5
    <3> QED BY <3>1, <2>1, <1>7 DEF RPass
  <2>2. CASE D # src
    <3>1. m \in dst..m /\ (m - dst) + src = D - 1
      BY <2>2, <1>1
    <3> QED BY <3>1, <1>7
  <2> QED BY <2>1, <2>2
<1>10. \A k \in 1..m : ops[k].op # "DONE" /\ t[k] = Rebasing!Run1(layout, t[k - 1], ops[k])
  <2> TAKE k \in 1..m
  <2>1. CASE k < dst
    <3>1. k \in (0 + 1)..(dst - 1) /\ k \in 0..(dst - 1) /\ k - 1 \in 0..(dst - 1) /\ k \in 0..m /\ k - 1 \in 0..m
          /\ k \in 1..(dst - 1)
      BY <2>1, <1>1
    <3>2. ROk(layout, mid[k]) /\ w[k] = Rebasing!Run1(layout, w[k - 1], mid[k])
      BY <3>1 DEF RPass, RTrace
    <3>3. t[k] = w[k] /\ t[k - 1] = w[k - 1] /\ ops[k] = mid[k]
      BY <3>1, <1>4, <1>7
    <3> QED BY <3>2, <3>3 DEF ROk
  <2>2. CASE k >= dst
    <3> DEFINE j == (k - dst) + src
    <3>1. j \in ((src - 1) + 1)..(D - 1) /\ k \in dst..m /\ k \in dst..(m + 1)
      BY <2>2, <1>1
    <3>2. ROk(layout, mid[j]) /\ u[j] = Rebasing!Run1(layout, u[j - 1], mid[j])
      BY <3>1 DEF RPass, RTrace
    <3>3. t[k] = u[j] /\ ops[k] = mid[j]
      BY <3>1, <1>4, <1>7
    <3>4. t[k - 1] = u[j - 1]
      <4>1. CASE k = dst
        <5>1. k - 1 \in 0..(dst - 1) /\ k - 1 \in 0..m /\ k - 1 = dst - 1 /\ j - 1 = src - 1
          BY <4>1, <1>1, <1>5
        <5> HIDE DEF j
        <5> QED BY <5>1, <1>7 DEF RPass
      <4>2. CASE k # dst
        <5>1. k - 1 \in dst..m /\ ((k - 1) - dst) + src = j - 1
          BY <4>2, <2>2, <1>1, <1>5
        <5> HIDE DEF j
        <5> QED BY <5>1, <1>7
      <4> QED BY <4>1, <4>2
    <3> HIDE DEF j
    <3> QED BY <3>2, <3>3, <3>4 DEF ROk
  <2> QED BY <2>1, <2>2, <1>1
<1> HIDE DEF m
<1>11. Rebasing!Meaning(ops) = t[m]
  BY <1>5, <1>6, <1>8, <1>10, RMeaning
<1> QED BY <1>9, <1>11 DEF ops, x, y

(****************************************************************************)
(* The rebase table: its bytes                                              *)
(****************************************************************************)

\* An opcode with no operand in its byte.
LEMMA OrNone ==
    ASSUME NEW code \in 0..15
    PROVE  Or(code, 0) = code
<1>1. (0 \div 1) % 2 = 0 /\ (0 \div 2) % 2 = 0 /\ (0 \div 4) % 2 = 0 /\ (0 \div 8) % 2 = 0
  OBVIOUS
<1>2. code \in {0, 1, 2, 3, 4, 5, 6, 7, 8, 9, 10, 11, 12, 13, 14, 15}
  OBVIOUS
<1> QED BY <1>1, <1>2 DEF Or

\* Opcode and immediate are read back from the byte, while the immediate fits.
LEMMA ByteReads ==
    ASSUME NEW code \in 0..15, NEW operand \in 0..(Imm - 1)
    PROVE  Byte(code, operand) \in Nat /\ CodeOf(Byte(code, operand)) = code
           /\ ImmediateOf(Byte(code, operand)) = operand
<1>1. Imm \in Nat \ {0}
  BY WidthAssumption
<1>2. operand \div Imm = 0 /\ operand % Imm = operand
  <2>1. Imm * 0 + operand = operand /\ 0 \in Int /\ operand \in 0..(Imm - 1)
    BY <1>1
  <2> QED BY <1>1, <2>1, DivUnique
<1>3. Byte(code, operand) = code * Imm + operand
  BY <1>2, OrNone DEF Byte
<1>4. code * Imm = Imm * code /\ Imm * code \in Nat
  BY <1>1
<1>5. (Imm * code + operand) % Imm = operand /\ (Imm * code + operand) \div Imm = code
  <2>1. code \in Int
    OBVIOUS
  <2> QED BY <1>1, <2>1, DivUnique
<1> QED BY <1>1, <1>3, <1>4, <1>5 DEF CodeOf, ImmediateOf

\* No two opcodes have one code.
LEMMA RCodesDiffer ==
    ASSUME NEW op \in DOMAIN Rebasing!Codes
    PROVE  Rebasing!Codes[op] \in 0..8 /\ Rebasing!OpNamed(Rebasing!Codes[op]) = op
<1>1. \A x \in DOMAIN Rebasing!Codes : Rebasing!Codes[x] = Rebasing!Codes[op] => x = op
  BY RCodes DEF Rebasing!Codes
<1>2. Rebasing!Codes[op] \in 0..8
  BY RCodes DEF Rebasing!Codes
<1> QED BY <1>1, <1>2 DEF Rebasing!OpNamed

\* The operand in the byte of an opcode.
RInByte(o) == IF o.op \in {"SET_TYPE_IMM", "SET_SEGMENT_AND_OFFSET_ULEB", "ADD_ADDR_IMM_SCALED",
                           "DO_REBASE_IMM_TIMES"} THEN o.a ELSE 0

\* dyld reads the opcode and the operand that encode put into a byte.
LEMMA RByte ==
    ASSUME NEW l, Len(l) \in Nat, Len(l) <= Imm + 1, NEW o, ROk(l, o)
    PROVE  /\ Rebasing!Byte(Rebasing!Codes[o.op], RInByte(o)) \in Nat
           /\ CodeOf(Rebasing!Byte(Rebasing!Codes[o.op], RInByte(o))) = Rebasing!Codes[o.op]
           /\ ImmediateOf(Rebasing!Byte(Rebasing!Codes[o.op], RInByte(o))) = RInByte(o)
<1>1. o \in ROp /\ Imm \in Nat \ 0..2 /\ o.op \in DOMAIN Rebasing!Codes /\ o.a \in Nat
  BY WidthAssumption DEF ROk, ROp
<1>2. RInByte(o) \in 0..(Imm - 1)
  <2>1. o.op = "SET_SEGMENT_AND_OFFSET_ULEB" => o.a < Imm
    BY <1>1 DEF ROk
  <2> QED BY <1>1, <2>1 DEF ROk, RInByte
<1>3. Rebasing!Codes[o.op] \in 0..15
  BY <1>1, RCodesDiffer
<1>4. Rebasing!Byte(Rebasing!Codes[o.op], RInByte(o)) = Byte(Rebasing!Codes[o.op], RInByte(o))
  BY DEF Rebasing!Byte, Byte, Rebasing!Or, Or
<1> QED BY <1>2, <1>3, <1>4, ByteReads

\* The operands after an opcode.
LEMMA RUlebs ==
    ASSUME NEW op \in DOMAIN Rebasing!Codes
    PROVE  Rebasing!Ulebs(op) \in Nat
BY DEF Rebasing!Ulebs

\* The cells of an opcode.
LEMMA RBytes ==
    ASSUME NEW l, Len(l) \in Nat, Len(l) <= Imm + 1, NEW o, ROk(l, o)
    PROVE  /\ Rebasing!Bytes(o) \in Seq(Nat) /\ Len(Rebasing!Bytes(o)) = 1 + Rebasing!Ulebs(o.op)
           /\ CodeOf(Rebasing!Bytes(o)[1]) = Rebasing!Codes[o.op]
           /\ ImmediateOf(Rebasing!Bytes(o)[1]) = RInByte(o)
           /\ o.op = "SET_SEGMENT_AND_OFFSET_ULEB" => Rebasing!Bytes(o)[2] = o.b
           /\ o.op \in {"ADD_ADDR_ULEB", "DO_REBASE_ULEB_TIMES", "DO_REBASE_ADD_ADDR_ULEB",
                        "DO_REBASE_ULEB_TIMES_SKIPPING_ULEB"} => Rebasing!Bytes(o)[2] = o.a
           /\ o.op = "DO_REBASE_ULEB_TIMES_SKIPPING_ULEB" => Rebasing!Bytes(o)[3] = o.b
<1> DEFINE first == Rebasing!Byte(Rebasing!Codes[o.op], RInByte(o))
<1>1. first \in Nat /\ CodeOf(first) = Rebasing!Codes[o.op] /\ ImmediateOf(first) = RInByte(o)
  BY RByte
<1>2. o \in ROp /\ o.op \in DOMAIN Rebasing!Codes /\ o.a \in Nat /\ o.b \in Nat
  BY DEF ROk, ROp
<1>3. Rebasing!Bytes(o) =
        CASE o.op = "SET_SEGMENT_AND_OFFSET_ULEB" -> <<first, o.b>>
          [] o.op \in {"ADD_ADDR_ULEB", "DO_REBASE_ULEB_TIMES", "DO_REBASE_ADD_ADDR_ULEB"} -> <<first, o.a>>
          [] o.op = "DO_REBASE_ULEB_TIMES_SKIPPING_ULEB" -> <<first, o.a, o.b>>
          [] OTHER -> <<first>>
  BY DEF Rebasing!Bytes, RInByte
<1> HIDE DEF first
<1>4. CASE o.op = "SET_SEGMENT_AND_OFFSET_ULEB"
  <2>1. Rebasing!Bytes(o) = <<first, o.b>> /\ Rebasing!Ulebs(o.op) = 1
    BY <1>3, <1>4 DEF Rebasing!Ulebs
  <2> QED BY <2>1, <1>1, <1>2, <1>4
<1>5. CASE o.op \in {"ADD_ADDR_ULEB", "DO_REBASE_ULEB_TIMES", "DO_REBASE_ADD_ADDR_ULEB"}
  <2>1. Rebasing!Bytes(o) = <<first, o.a>> /\ Rebasing!Ulebs(o.op) = 1
    BY <1>3, <1>5 DEF Rebasing!Ulebs
  <2> QED BY <2>1, <1>1, <1>2, <1>5
<1>6. CASE o.op = "DO_REBASE_ULEB_TIMES_SKIPPING_ULEB"
  <2>1. Rebasing!Bytes(o) = <<first, o.a, o.b>> /\ Rebasing!Ulebs(o.op) = 2
    BY <1>3, <1>6 DEF Rebasing!Ulebs
  <2> QED BY <2>1, <1>1, <1>2, <1>6
<1>7. CASE o.op \notin {"SET_SEGMENT_AND_OFFSET_ULEB", "ADD_ADDR_ULEB", "DO_REBASE_ULEB_TIMES",
                        "DO_REBASE_ADD_ADDR_ULEB", "DO_REBASE_ULEB_TIMES_SKIPPING_ULEB"}
  <2>1. Rebasing!Bytes(o) = <<first>> /\ Rebasing!Ulebs(o.op) = 0
    BY <1>3, <1>7 DEF Rebasing!Ulebs
  <2> QED BY <2>1, <1>1, <1>2, <1>7
<1> QED BY <1>4, <1>5, <1>6, <1>7

\* dyld reads an opcode where it was written.
LEMMA RDecodes ==
    ASSUME NEW l, Len(l) \in Nat, Len(l) <= Imm + 1, NEW o, ROk(l, o), NEW at \in Nat, Len(data) \in Nat,
           at + Rebasing!Ulebs(o.op) <= Len(data),
           \A c \in 1..Len(Rebasing!Bytes(o)) : data[at + c - 1] = Rebasing!Bytes(o)[c]
    PROVE  Rebasing!Readable(at) /\ Rebasing!OpAt(at) = o
<1> DEFINE bs == Rebasing!Bytes(o)
<1>1. o \in ROp /\ o.op \in DOMAIN Rebasing!Codes /\ o.a \in Nat /\ o.b \in Nat
  BY DEF ROk, ROp
<1>2. /\ Len(bs) = 1 + Rebasing!Ulebs(o.op)
      /\ CodeOf(bs[1]) = Rebasing!Codes[o.op] /\ ImmediateOf(bs[1]) = RInByte(o)
      /\ o.op = "SET_SEGMENT_AND_OFFSET_ULEB" => bs[2] = o.b
      /\ o.op \in {"ADD_ADDR_ULEB", "DO_REBASE_ULEB_TIMES", "DO_REBASE_ADD_ADDR_ULEB",
                   "DO_REBASE_ULEB_TIMES_SKIPPING_ULEB"} => bs[2] = o.a
      /\ o.op = "DO_REBASE_ULEB_TIMES_SKIPPING_ULEB" => bs[3] = o.b
  BY RBytes
<1>3. Rebasing!Codes[o.op] \in 0..8 /\ Rebasing!OpNamed(Rebasing!Codes[o.op]) = o.op
  BY <1>1, RCodesDiffer
<1>4. at + 1 - 1 = at /\ at + 2 - 1 = at + 1 /\ at + 3 - 1 = at + 2
  OBVIOUS
<1> HIDE DEF bs
<1>5. \A c \in 1..Len(bs) : data[at + c - 1] = bs[c]
  BY DEF bs
<1>6. Rebasing!Ulebs(o.op) \in Nat
  BY <1>1, RUlebs
<1>7. data[at] = bs[1]
  BY <1>2, <1>4, <1>5, <1>6
<1>8. Rebasing!Ulebs(o.op) \in {1, 2} => data[at + 1] = bs[2]
  BY <1>2, <1>4, <1>5, <1>6
<1>9. Rebasing!Ulebs(o.op) = 2 => data[at + 2] = bs[3]
  BY <1>2, <1>4, <1>5, <1>6
<1>10. Rebasing!CodeOf(data[at]) = Rebasing!Codes[o.op] /\ Rebasing!ImmediateOf(data[at]) = RInByte(o)
  BY <1>2, <1>7 DEF Rebasing!CodeOf, CodeOf, Rebasing!ImmediateOf, ImmediateOf
<1>11. Rebasing!Readable(at)
  BY <1>3, <1>10 DEF Rebasing!Readable
<1>12. Rebasing!OpNamed(Rebasing!CodeOf(data[at])) = o.op
  BY <1>3, <1>10
<1>13. o = Rebasing!Op(o.op, o.a, o.b)
  BY <1>1 DEF ROp, Rebasing!Op
<1>14. CASE o.op = "SET_SEGMENT_AND_OFFSET_ULEB"
  <2>1. Rebasing!Ulebs(o.op) = 1 /\ RInByte(o) = o.a
    BY <1>14 DEF Rebasing!Ulebs, RInByte
  <2>2. Rebasing!OpAt(at) = Rebasing!Op(o.op, RInByte(o), data[at + 1])
    BY <1>10, <1>12, <1>14 DEF Rebasing!OpAt
  <2>3. data[at + 1] = o.b
    BY <2>1, <1>2, <1>8, <1>14
  <2> QED BY <2>1, <2>2, <2>3, <1>11, <1>13
<1>15. CASE o.op \in {"ADD_ADDR_ULEB", "DO_REBASE_ULEB_TIMES", "DO_REBASE_ADD_ADDR_ULEB"}
  <2>1. Rebasing!Ulebs(o.op) = 1 /\ o.op # "SET_SEGMENT_AND_OFFSET_ULEB" /\ o.b = 0
    BY <1>15 DEF Rebasing!Ulebs, ROk
  <2>2. Rebasing!OpAt(at) = Rebasing!Op(o.op, data[at + 1], 0)
    BY <1>10, <1>12, <2>1 DEF Rebasing!OpAt
  <2>3. data[at + 1] = o.a
    BY <2>1, <1>2, <1>8, <1>15
  <2> QED BY <2>1, <2>2, <2>3, <1>11, <1>13
<1>16. CASE o.op = "DO_REBASE_ULEB_TIMES_SKIPPING_ULEB"
  <2>1. Rebasing!Ulebs(o.op) = 2 /\ o.op # "SET_SEGMENT_AND_OFFSET_ULEB"
    BY <1>16 DEF Rebasing!Ulebs
  <2>2. Rebasing!OpAt(at) = Rebasing!Op(o.op, data[at + 1], data[at + 2])
    BY <1>10, <1>12, <2>1 DEF Rebasing!OpAt
  <2>3. data[at + 1] = o.a /\ data[at + 2] = o.b
    BY <2>1, <1>2, <1>8, <1>9, <1>16
  <2> QED BY <2>2, <2>3, <1>11, <1>13
<1>17. CASE o.op \notin {"SET_SEGMENT_AND_OFFSET_ULEB", "ADD_ADDR_ULEB", "DO_REBASE_ULEB_TIMES",
                        "DO_REBASE_ADD_ADDR_ULEB", "DO_REBASE_ULEB_TIMES_SKIPPING_ULEB"}
  <2>1. Rebasing!Ulebs(o.op) = 0 /\ o.b = 0 /\ RInByte(o) = o.a
    BY <1>17, <1>1, RCodes DEF Rebasing!Ulebs, ROk, RInByte
  <2>2. Rebasing!OpAt(at) = Rebasing!Op(o.op, RInByte(o), 0)
    BY <1>10, <1>12, <2>1, <1>17 DEF Rebasing!OpAt
  <2> QED BY <2>1, <2>2, <1>11, <1>13
<1> QED BY <1>14, <1>15, <1>16, <1>17

\* The padding that aligns the table reads as DONE.
LEMMA RDecodesPadding ==
    ASSUME NEW at \in Nat, at <= Len(data), Len(data) \in Nat, data[at] = 0
    PROVE  Rebasing!Readable(at) /\ Rebasing!OpAt(at).op = "DONE"
<1>1. CodeOf(0) = 0 /\ ImmediateOf(0) = 0
  <2>1. Imm \in Nat \ {0} /\ Imm * 0 + 0 = 0 /\ 0 \in 0..(Imm - 1) /\ 0 \in Int
    BY WidthAssumption
  <2> QED BY <2>1, DivUnique DEF CodeOf, ImmediateOf
<1>2. "DONE" \in DOMAIN Rebasing!Codes /\ Rebasing!Codes["DONE"] = 0
  BY RCodes DEF Rebasing!Codes
<1>3. Rebasing!OpNamed(0) = "DONE" /\ Rebasing!Ulebs("DONE") = 0
  BY <1>2, RCodesDiffer DEF Rebasing!Ulebs
<1>4. Rebasing!CodeOf(data[at]) = 0 /\ Rebasing!ImmediateOf(data[at]) = 0
  BY <1>1 DEF Rebasing!CodeOf, CodeOf, Rebasing!ImmediateOf, ImmediateOf
<1> QED BY <1>3, <1>4 DEF Rebasing!Readable, Rebasing!OpAt, Rebasing!Op

\* The data d are the bytes of the first m opcodes, whose effect u follows, and
\* perhaps one byte of padding; the opcode k begins at off[k - 1] + 1.
RLoaded(l, inf, ops, d, m, u, off) ==
    /\ m \in Nat /\ d \in Seq(Nat) /\ off \in [0..m -> Nat] /\ off[0] = 0
    /\ u[0] = Rebasing!Dyld0(l) /\ u[0] \in RStates(inf)
    /\ RTrace(l, inf, ops, u, 0, m) /\ u[m].rebased = inf
    /\ \A k \in 1..m : off[k] = off[k - 1] + 1 + Rebasing!Ulebs(ops[k].op)
    /\ \A k \in 1..m : \A c \in 1..Len(Rebasing!Bytes(ops[k])) :
          off[k - 1] + c \in 1..off[m] /\ d[off[k - 1] + c] = Rebasing!Bytes(ops[k])[c]
    /\ Len(d) = off[m] \/ (Len(d) = off[m] + 1 /\ d[off[m] + 1] = 0)

\* encode converts the opcodes before the first DONE.
LEMMA RFirstDone ==
    ASSUME NEW l, NEW inf, NEW ops, NEW w, NEW u, NEW D, RPass(l, inf, ops, 1, 1, w, u, D)
    PROVE  Rebasing!First({k \in 1..Len(ops) : ops[k].op = "DONE"}) = D
<1> DEFINE T == {k \in 1..Len(ops) : ops[k].op = "DONE"}
           x == First(T)
<1>0. D \in 1..Len(ops) /\ Len(ops) \in Nat /\ ops[D].op = "DONE" /\ 1 - 1 = 0
  BY DEF RPass
<1>1. D \in T /\ T \subseteq Nat
  BY <1>0
<1>2. \A k \in T : D <= k
  <2> SUFFICES ASSUME NEW k \in T, k < D PROVE FALSE
    BY <1>0
  <2>1. k \in ((1 - 1) + 1)..(D - 1) /\ ops[k].op = "DONE"
    BY <1>0
  <2> QED BY <2>1 DEF RPass, RTrace, ROk
<1> HIDE DEF T
<1>3. x \in T /\ \A k \in T : x <= k
  BY <1>1, MinLeast
<1>4. x \in Nat /\ x <= D /\ D <= x /\ D \in Nat
  BY <1>0, <1>1, <1>2, <1>3
<1> HIDE DEF x
<1>5. x = D
  BY <1>4
<1> QED BY <1>5 DEF x, T, First, Rebasing!First

\* The encoded data hold the opcodes one after the other.
LEMMA RConverts ==
    ASSUME NEW l, Len(l) \in Nat, Len(l) <= Imm + 1, NEW inf, NEW ops, NEW w, NEW u, NEW D,
           RPass(l, inf, ops, 1, 1, w, u, D), NEW padding \in {<<>>, << 0 >>}
    PROVE  \E off : RLoaded(l, inf, ops,
                      Rebasing!Joined([k \in 1..(D - 1) |-> Rebasing!Bytes(ops[k])]) \o padding,
                      D - 1, u, off)
<1> DEFINE m == D - 1
           ss == [k \in 1..m |-> Rebasing!Bytes(ops[k])]
           f == Joined(ss)
           d == f \o padding
<1>0. D \in 1..Len(ops) /\ Len(ops) \in Nat /\ 1 - 1 = 0 /\ m \in Nat /\ D \in Nat
  BY DEF RPass
<1>1. RTrace(l, inf, ops, u, 0, m) /\ u[0] = Rebasing!Dyld0(l) /\ u[0] \in RStates(inf) /\ u[m].rebased = inf
  BY <1>0 DEF RPass
<1> HIDE DEF m
<1>2. \A k \in 1..m : ROk(l, ops[k])
  <2> TAKE k \in 1..m
  <2>1. k \in (0 + 1)..m
    BY <1>0
  <2> QED BY <2>1, <1>1 DEF RTrace
<1>3. \A k \in 1..m : Rebasing!Bytes(ops[k]) \in Seq(Nat)
                      /\ Len(Rebasing!Bytes(ops[k])) = 1 + Rebasing!Ulebs(ops[k].op)
  BY <1>2, RBytes
<1>4. ss \in [1..m -> Seq(Nat)] /\ \A k \in 1..m : ss[k] = Rebasing!Bytes(ops[k])
  BY <1>3
<1>5. Rebasing!Joined([k \in 1..m |-> Rebasing!Bytes(ops[k])]) = f
  BY DEF Rebasing!Joined, Joined
<1> HIDE DEF ss, f
<1>6. PICK off \in [0..m -> Nat] :
             /\ off[0] = 0 /\ \A k \in 1..m : off[k] = off[k - 1] + Len(ss[k])
             /\ f \in Seq(Nat) /\ Len(f) = off[m]
             /\ Reads(f, off, ss, m)
  BY <1>0, <1>4, Flatten DEF f
<1>7. padding \in Seq(Nat) /\ (Len(padding) = 0 \/ (Len(padding) = 1 /\ padding[1] = 0))
  <2>1. CASE padding = <<>>
    BY <2>1
  <2>2. CASE padding = << 0 >>
    BY <2>2
  <2> QED BY <2>1, <2>2
<1>8. /\ d \in Seq(Nat) /\ Len(d) = Len(f) + Len(padding)
      /\ \A i \in 1..(Len(f) + Len(padding)) : d[i] = IF i <= Len(f) THEN f[i] ELSE padding[i - Len(f)]
  <2>1. f \in Seq(Nat)
    BY <1>6
  <2>2. padding \in Seq(Nat)
    BY <1>7
  <2> QED BY <2>1, <2>2, Concat
<1> HIDE DEF d
<1>9. off[m] \in Nat /\ m \in 0..m
  BY <1>0, <1>6
<1>10. Len(d) = off[m] \/ (Len(d) = off[m] + 1 /\ d[off[m] + 1] = 0)
  <2>1. CASE Len(padding) = 0
    BY <2>1, <1>6, <1>8, <1>9
  <2>2. CASE Len(padding) = 1 /\ padding[1] = 0
    <3>1. off[m] + 1 \in 1..(Len(f) + Len(padding)) /\ ~(off[m] + 1 <= Len(f)) /\ (off[m] + 1) - Len(f) = 1
      BY <2>2, <1>6, <1>9
    <3> QED BY <3>1, <2>2, <1>6, <1>8
  <2> QED BY <2>1, <2>2, <1>7
<1>11. \A k \in 1..m : off[k] = off[k - 1] + 1 + Rebasing!Ulebs(ops[k].op)
  <2> TAKE k \in 1..m
  <2>1. off[k] = off[k - 1] + Len(ss[k]) /\ Len(ss[k]) = 1 + Rebasing!Ulebs(ops[k].op)
    BY <1>3, <1>4, <1>6
  <2>2. k - 1 \in 0..m /\ ops[k].op \in DOMAIN Rebasing!Codes
    BY <1>0, <1>2 DEF ROk, ROp
  <2>3. off[k - 1] \in Nat /\ Rebasing!Ulebs(ops[k].op) \in Nat
    BY <2>2, <1>6, RUlebs
  <2> QED BY <2>1, <2>3, SMTT(60)
<1>12. \A k \in 1..m : \A c \in 1..Len(Rebasing!Bytes(ops[k])) :
          off[k - 1] + c \in 1..off[m] /\ d[off[k - 1] + c] = Rebasing!Bytes(ops[k])[c]
  <2> TAKE k \in 1..m
  <2> TAKE c \in 1..Len(Rebasing!Bytes(ops[k]))
  <2>1. off[k - 1] + c \in 1..off[m] /\ f[off[k - 1] + c] = ss[k][c] /\ ss[k] = Rebasing!Bytes(ops[k])
    BY <1>4, <1>6 DEF Reads
  <2>2. off[k - 1] + c \in 1..(Len(f) + Len(padding)) /\ off[k - 1] + c <= Len(f)
    BY <2>1, <1>6, <1>7, <1>9
  <2> QED BY <2>1, <2>2, <1>8
<1>13. RLoaded(l, inf, ops, d, m, u, off)
  BY <1>0, <1>1, <1>6, <1>8, <1>10, <1>11, <1>12 DEF RLoaded
<1> QED BY <1>5, <1>13 DEF d, m

\* At the place where an opcode begins, dyld reads it and comes to the next.
LEMMA RLoadedReads ==
    ASSUME NEW m, NEW u, NEW off, RLoaded(layout, info, mid, data, m, u, off),
           Len(layout) \in Nat, Len(layout) <= Imm + 1, NEW j \in 0..m
    PROVE  /\ u[j] \in RStates(info) /\ off[j] \in Nat /\ Len(data) \in Nat
           /\ j < m => /\ off[j] + 1 <= Len(data)
                       /\ Rebasing!Readable(off[j] + 1) /\ Rebasing!OpAt(off[j] + 1) = mid[j + 1]
                       /\ ROk(layout, mid[j + 1])
                       /\ Rebasing!Run1(layout, u[j], mid[j + 1]) = u[j + 1] /\ u[j + 1] \in RStates(info)
                       /\ off[j] + 1 + 1 + Rebasing!Ulebs(mid[j + 1].op) = off[j + 1] + 1
<1>1. /\ m \in Nat /\ data \in Seq(Nat) /\ off \in [0..m -> Nat] /\ u[0] \in RStates(info)
      /\ \A k \in (0 + 1)..m : ROk(layout, mid[k]) /\ u[k] \in RStates(info)
                               /\ u[k] = Rebasing!Run1(layout, u[k - 1], mid[k])
      /\ Len(data) \in {off[m], off[m] + 1}
  BY DEF RLoaded, RTrace
<1>2. off[j] \in Nat /\ Len(data) \in Nat /\ off[m] \in Nat
  BY <1>1
<1>3. u[j] \in RStates(info)
  <2>1. CASE j = 0
    BY <2>1, <1>1
  <2>2. CASE j # 0
    <3>1. j \in (0 + 1)..m
      BY <2>2, <1>1
    <3> QED BY <3>1, <1>1
  <2> QED BY <2>1, <2>2
<1>4. ASSUME j < m
      PROVE  /\ off[j] + 1 <= Len(data)
             /\ Rebasing!Readable(off[j] + 1) /\ Rebasing!OpAt(off[j] + 1) = mid[j + 1]
             /\ ROk(layout, mid[j + 1])
             /\ Rebasing!Run1(layout, u[j], mid[j + 1]) = u[j + 1] /\ u[j + 1] \in RStates(info)
             /\ off[j] + 1 + 1 + Rebasing!Ulebs(mid[j + 1].op) = off[j + 1] + 1
  <2> DEFINE k == j + 1
             o == mid[k]
             at == off[j] + 1
  <2>1. k \in (0 + 1)..m /\ k \in 1..m /\ k - 1 = j /\ k \in 0..m
    BY <1>1, <1>4
  <2>2. ROk(layout, o) /\ u[k] \in RStates(info) /\ u[k] = Rebasing!Run1(layout, u[j], o)
    BY <2>1, <1>1
  <2>3. off[k] = off[j] + 1 + Rebasing!Ulebs(o.op)
    BY <2>1 DEF RLoaded
  <2>4. \A c \in 1..Len(Rebasing!Bytes(o)) : off[j] + c \in 1..off[m] /\ data[off[j] + c] = Rebasing!Bytes(o)[c]
    BY <2>1 DEF RLoaded
  <2>5. Len(Rebasing!Bytes(o)) = 1 + Rebasing!Ulebs(o.op)
    BY <2>2, RBytes
  <2>6. Rebasing!Ulebs(o.op) \in Nat
    BY <2>2, RUlebs DEF ROk, ROp
  <2> HIDE DEF k, o
  <2>7. at \in Nat /\ at + Rebasing!Ulebs(o.op) <= Len(data) /\ at <= Len(data)
    <3>1. 1 + Rebasing!Ulebs(o.op) \in 1..Len(Rebasing!Bytes(o))
      BY <2>5, <2>6
    <3>2. off[j] + (1 + Rebasing!Ulebs(o.op)) \in 1..off[m]
      BY <3>1, <2>4
    <3> DEFINE x == Rebasing!Ulebs(o.op)
    <3>3. x \in Nat /\ off[j] \in Nat /\ off[m] \in Nat /\ off[j] + (1 + x) <= off[m]
          /\ Len(data) \in Nat /\ off[m] <= Len(data)
      BY <3>2, <1>1, <1>2, <2>6
    <3> HIDE DEF x
    <3>4. off[j] + 1 + x <= Len(data) /\ off[j] + 1 <= Len(data)
      BY <3>3
    <3> QED BY <3>3, <3>4 DEF x
  <2>8. \A c \in 1..Len(Rebasing!Bytes(o)) : data[at + c - 1] = Rebasing!Bytes(o)[c]
    <3> TAKE c \in 1..Len(Rebasing!Bytes(o))
    <3>1. at + c - 1 = off[j] + c
      BY <1>2, <2>5, <2>6
    <3> QED BY <3>1, <2>4
  <2> HIDE DEF at
  <2>9. Rebasing!Readable(at) /\ Rebasing!OpAt(at) = o
    BY <2>2, <2>7, <2>8, <1>2, RDecodes
  <2>10. off[k] + 1 = at + 1 + Rebasing!Ulebs(o.op)
    BY <2>3, <2>6, <1>2 DEF at
  <2> QED BY <2>2, <2>7, <2>9, <2>10 DEF k, o, at
<1> QED BY <1>2, <1>3, <1>4

(****************************************************************************)
(* Segments                                                                 *)
(****************************************************************************)

\* dyld's word is not larger than ld's.
LEMMA WordsNest ==
    DyldWord \in Nat \ {0} /\ LdWord \in Nat \ {0} /\ DyldWord <= LdWord /\ PtrSize \in Nat \ {0}
<1>1. DyldWord \in Nat \ {0} /\ LdWord \in Nat \ {0} /\ LdWord % DyldWord = 0 /\ PtrSize \in Nat \ {0}
  BY WidthAssumption
<1>2. DyldWord <= LdWord
  <2> SUFFICES ASSUME LdWord < DyldWord PROVE FALSE
    BY <1>1
  <2>1. LdWord \in 0..(DyldWord - 1)
    BY <1>1
  <2>2. LdWord % DyldWord = LdWord
    BY <1>1, <2>1, ModSmall
  <2> QED BY <1>1, <2>2
<1> QED BY <1>1, <1>2

\* A pointer at a lies in the sections of segment k of the layout.
Within(l, k, a) == k \in 1..(Len(l) - 1) /\ l[k].start <= a /\ a + PtrSize <= l[k].end

\* What a layout of segments is.
LEMMA SegmentFacts ==
    ASSUME NEW l, WellFormed(l)
    PROVE  /\ Len(l) \in Nat \ {0}
           /\ \A k \in 1..Len(l) :
                /\ l[k] \in Segment /\ l[k].start \in Nat /\ l[k].end \in Nat /\ l[k].limit \in Nat
                /\ l[k].writable \in BOOLEAN
                /\ l[k].start < l[k].end /\ l[k].end <= l[k].limit /\ l[k].limit < DyldWord
           /\ \A j, k \in 1..Len(l) : j < k => l[j].limit <= l[k].start
<1>1. l \in Seq(Segment) /\ l # <<>>
  BY DEF WellFormed
<1>2. Len(l) \in Nat \ {0} /\ \A k \in 1..Len(l) : l[k] \in Segment
  BY <1>1
<1>3. \A j, k \in 1..Len(l) : j < k => l[j].limit <= l[k].start
  <2> SUFFICES ASSUME NEW j \in 1..Len(l), NEW k \in 1..Len(l), j < k PROVE l[j].limit <= l[k].start
    OBVIOUS
  <2>1. j \in 1..(k - 1)
    BY <1>2
  <2> QED BY <2>1 DEF WellFormed
<1> QED BY <1>2, <1>3 DEF WellFormed, Segment

\* Segments do not overlap.
LEMMA WithinOne ==
    ASSUME NEW l, WellFormed(l), NEW a \in Nat, NEW j \in 1..Len(l), NEW k \in 1..Len(l),
           l[j].start <= a, a < l[j].end, l[k].start <= a, a < l[k].end
    PROVE  j = k
<1>1. /\ Len(l) \in Nat
      /\ l[j].start \in Nat /\ l[j].end \in Nat /\ l[j].limit \in Nat /\ l[j].end <= l[j].limit
      /\ l[k].start \in Nat /\ l[k].end \in Nat /\ l[k].limit \in Nat /\ l[k].end <= l[k].limit
      /\ j < k => l[j].limit <= l[k].start
      /\ k < j => l[k].limit <= l[j].start
  BY SegmentFacts
<1>2. ~(j < k) /\ ~(k < j)
  BY <1>1
<1> QED BY <1>1, <1>2

\* The addresses of a pointer in a segment fit in every word.
LEMMA WithinFacts ==
    ASSUME NEW l, WellFormed(l), NEW k, NEW a \in Nat, Within(l, k, a)
    PROVE  /\ k \in 1..Len(l) /\ k \in Nat /\ k - 1 \in Nat /\ k - 1 < Len(l) - 1 /\ k - 1 < Len(l) /\ (k - 1) + 1 = k
           /\ l[k].start \in Nat /\ l[k].end \in Nat /\ l[k].limit \in Nat
           /\ l[k].start <= a /\ a < l[k].end /\ a < l[k].limit
           /\ a + PtrSize <= l[k].end /\ a + PtrSize <= l[k].limit /\ l[k].limit < DyldWord
           /\ a + PtrSize < DyldWord /\ a + PtrSize < LdWord /\ a < LdWord - 1 /\ a \in 0..(DyldWord - 1)
           /\ a + PtrSize \in 0..(DyldWord - 1)
<1>1. PtrSize \in Nat \ {0} /\ DyldWord \in Nat /\ LdWord \in Nat /\ DyldWord <= LdWord
  BY WordsNest
<1>2. Len(l) \in Nat \ {0} /\ k \in 1..(Len(l) - 1)
  BY SegmentFacts DEF Within
<1>3. k \in 1..Len(l) /\ k \in Nat /\ k - 1 \in Nat /\ k - 1 < Len(l) - 1 /\ k - 1 < Len(l) /\ (k - 1) + 1 = k
  BY <1>2
<1>4. l[k].start \in Nat /\ l[k].end \in Nat /\ l[k].limit \in Nat /\ l[k].end <= l[k].limit /\ l[k].limit < DyldWord
  BY <1>3, SegmentFacts
<1>5. l[k].start <= a /\ a + PtrSize <= l[k].end
  BY DEF Within
<1> HIDE DEF Within
<1> DEFINE st == l[k].start
           en == l[k].end
           li == l[k].limit
<1>6. st \in Nat /\ en \in Nat /\ li \in Nat /\ en <= li /\ li < DyldWord /\ st <= a /\ a + PtrSize <= en
  BY <1>4, <1>5
<1> HIDE DEF st, en, li
<1>7. /\ st <= a /\ a < en /\ a < li
      /\ a + PtrSize <= en /\ a + PtrSize <= li /\ li < DyldWord
      /\ a + PtrSize < DyldWord /\ a + PtrSize < LdWord /\ a < LdWord - 1 /\ a \in 0..(DyldWord - 1)
      /\ a + PtrSize \in 0..(DyldWord - 1)
  BY <1>1, <1>6
<1> QED BY <1>3, <1>6, <1>7 DEF st, en, li

\* The record findSegment returns for segment k.
SegmentAt(l, k) == [start |-> l[k].start, end |-> l[k].end, index |-> k - 1]

\* findSegment of ld returns the segment of the pointer, and does not throw.
LEMMA FindsSegment ==
    ASSUME NEW l, WellFormed(l), NEW k, NEW a \in Nat, Within(l, k, a)
    PROVE  findSegment(l, a) = SegmentAt(l, k) /\ Covered(l, a)
<1> DEFINE good(i) == l[i].start <= a /\ a < l[i].end
           x == CHOOSE i \in 1..(Len(l) - 1) : good(i)
<1>1. k \in 1..(Len(l) - 1) /\ good(k) /\ k \in 1..Len(l)
  BY WithinFacts DEF Within
<1>2. x \in 1..(Len(l) - 1) /\ good(x)
  <2> HIDE DEF good
  <2> QED BY <1>1
<1> HIDE DEF x
<1>3. x \in 1..Len(l)
  BY <1>2, SegmentFacts
<1>4. x = k
  BY <1>1, <1>2, <1>3, WithinOne
<1>5. findSegment(l, a) = SegmentAt(l, x)
  BY DEF findSegment, SegmentAt, x
<1> QED BY <1>1, <1>4, <1>5 DEF Covered

\* The uleb128 that encode writes leads dyld from one address to the other, in either
\* direction.
LEMMA Steps ==
    ASSUME NEW a \in 0..(DyldWord - 1), NEW b \in 0..(DyldWord - 1)
    PROVE  /\ (a + (((b - a) % LdWord) % DyldWord)) % DyldWord = b
           /\ b >= a => (a + ((b - a) % DyldWord)) % DyldWord = b
<1>1. DyldWord \in Nat \ {0} /\ LdWord \in Nat \ {0} /\ LdWord % DyldWord = 0
  BY WidthAssumption
<1>2. b - a \in Int /\ a \in Int /\ a + (b - a) = b
  BY <1>1
<1>3. ((b - a) % LdWord) % DyldWord = (b - a) % DyldWord
  BY <1>1, <1>2, ModMod
<1>4. (a + ((b - a) % DyldWord)) % DyldWord = (a + (b - a)) % DyldWord
  BY <1>1, <1>2, ModAdd
<1>5. b % DyldWord = b
  BY <1>1, ModSmall
<1> QED BY <1>2, <1>3, <1>4, <1>5

(****************************************************************************)
(* The rebase table: the translation of its entries                         *)
(****************************************************************************)

\* An entry of the rebase table, in segment k.
RIn(l, k, e) ==
    Within(l, k, e.address) /\ e.address > 0 /\ e.type = IF l[k].writable THEN 1 ELSE 2

\* The table ld sorts.
RTable(l, inf) ==
    /\ l \in RebaseLayouts /\ inf \in Seq(REntry)
    /\ \A i \in 1..Len(inf) : \E k : RIn(l, k, inf[i])
    /\ \A i, j \in 1..Len(inf) : i < j =>
          /\ inf[i].type <= inf[j].type
          /\ inf[i].type = inf[j].type => inf[i].address + PtrSize <= inf[j].address

\* The entries that ld may have to rebase.
LEMMA REntriesIn ==
    ASSUME NEW l, WellFormed(l), NEW e \in Rebasing!Entries(l)
    PROVE  e \in REntry /\ \E k : RIn(l, k, e)
<1>1. PICK k \in 1..(Len(l) - 1) : \E a \in Rebasing!Slots(l[k]) :
            /\ k > 1 \/ a >= l[1].start + PtrSize
            /\ e = [type |-> IF l[k].writable THEN 1 ELSE 2, address |-> a]
  BY DEF Rebasing!Entries, Rebasing!Pointer, Rebasing!TextAbsolute32
<1>2. PICK a \in Rebasing!Slots(l[k]) :
            /\ k > 1 \/ a >= l[1].start + PtrSize
            /\ e = [type |-> IF l[k].writable THEN 1 ELSE 2, address |-> a]
  BY <1>1
<1>3. a \in l[k].start..(l[k].end - PtrSize)
  BY DEF Rebasing!Slots
<1>4. Len(l) \in Nat \ {0} /\ PtrSize \in Nat \ {0} /\ 1 \in 1..Len(l) /\ k \in 1..Len(l)
  BY SegmentFacts, WordsNest
<1>5. /\ l[k].start \in Nat /\ l[k].end \in Nat /\ l[1].start \in Nat /\ l[1].limit \in Nat
      /\ l[1].start < l[1].end /\ l[1].end <= l[1].limit /\ l[1].end \in Nat
      /\ 1 < k => l[1].limit <= l[k].start
  BY <1>4, SegmentFacts
<1>6. a \in Nat /\ Within(l, k, a)
  BY <1>3, <1>4, <1>5 DEF Within
<1>7. a > 0
  <2>1. CASE k > 1
    BY <2>1, <1>3, <1>5
  <2>2. CASE a >= l[1].start + PtrSize
    BY <2>2, <1>4, <1>5, <1>6
  <2> QED BY <2>1, <2>2, <1>2
<1>8. e.address = a /\ e.type = (IF l[k].writable THEN 1 ELSE 2) /\ e \in REntry
  BY <1>2, <1>6 DEF REntry
<1> QED BY <1>6, <1>7, <1>8 DEF RIn

\* The table that encode begins with is sorted and its pointers do not overlap.
LEMMA RSortedTable ==
    ASSUME NEW l \in RebaseLayouts, WellFormed(l), NEW S \in SUBSET Rebasing!Entries(l), Rebasing!Apart(S)
    PROVE  RTable(l, Rebasing!InOrder(S, Rebasing!Before))
<1> DEFINE R == {x \in S \X S : Rebasing!Before(x[1], x[2])}
           inf == Listing(R, S)
<1>1. \A e \in S : e \in REntry /\ \E k : RIn(l, k, e)
  BY REntriesIn
<1>2. \A e \in S : e.type \in Nat /\ e.address \in Nat /\ e = [type |-> e.type, address |-> e.address]
  BY <1>1 DEF REntry
<1>3. \A e, f \in S : e = f \/ e.address + PtrSize <= f.address \/ f.address + PtrSize <= e.address
  BY DEF Rebasing!Apart
<1>4. PtrSize \in Nat \ {0} /\ DyldWord \in Nat
  BY WordsNest
<1>5. IsFiniteSet(S)
  <2> DEFINE f == [e \in S |-> e.address]
             T == 0..(DyldWord - 1)
  <2>1. \A e \in S : e.address \in T
    <3> TAKE e \in S
    <3>1. PICK k : RIn(l, k, e)
      BY <1>1
    <3> QED BY <3>1, <1>2, WithinFacts DEF RIn
  <2>2. \A e, g \in S : f[e] = f[g] => e = g
    BY <1>2, <1>3, <1>4
  <2>3. f \in [S -> T]
    BY <2>1
  <2>4. IsFiniteSet(T)
    BY <1>4, FS_Interval
  <2> HIDE DEF f, T
  <2>5. f \in Injection(S, T)
    BY <2>2, <2>3 DEF Injection, IsInjective
  <2> QED BY <2>4, <2>5, FS_Injection
<1>6. \A e, f \in S : <<e, f>> \in R <=>
            e.type < f.type \/ (e.type = f.type /\ e.address < f.address)
  BY DEF Rebasing!Before
<1>7. Total(R, S)
  <2> HIDE DEF R
  <2>1. \A x \in S : <<x, x>> \notin R
    BY <1>2, <1>6
  <2>2. \A x, y \in S : x = y \/ <<x, y>> \in R \/ <<y, x>> \in R
    <3> TAKE x, y \in S
    <3>1. CASE x.type = y.type /\ x.address = y.address
      BY <3>1, <1>2
    <3>2. CASE x.type # y.type \/ x.address # y.address
      BY <3>2, <1>2, <1>6
    <3> QED BY <3>1, <3>2
  <2>3. \A x, y, z \in S : <<x, y>> \in R /\ <<y, z>> \in R => <<x, z>> \in R
    <3> TAKE x, y, z \in S
    <3> QED BY <1>2, <1>6
  <2> QED BY <2>1, <2>2, <2>3 DEF Total
<1>8. Rebasing!InOrder(S, Rebasing!Before) = inf
  <2>1. \A e \in S : {f \in S : Rebasing!Before(f, e)} = {f \in S : <<f, e>> \in R}
    BY DEF Rebasing!Before
  <2> HIDE DEF R
  <2>2. \A k : (CHOOSE e \in S : Cardinality({f \in S : Rebasing!Before(f, e)}) = k - 1)
               = (CHOOSE e \in S : Cardinality({f \in S : <<f, e>> \in R}) = k - 1)
    BY <2>1
  <2>3. Rebasing!InOrder(S, Rebasing!Before)
          = [k \in 1..Cardinality(S) |->
                CHOOSE e \in S : Cardinality({f \in S : Rebasing!Before(f, e)}) = k - 1]
    BY DEF Rebasing!Cardinality, Cardinality, Rebasing!InOrder
  <2> QED BY <2>2, <2>3 DEF Listing
<1> HIDE DEF R
<1>9. Lists(inf, R, S)
  BY <1>5, <1>7, InOrderLists
<1>10. Cardinality(S) \in Nat
  BY <1>5, FS_CardinalityType
<1> HIDE DEF inf
<1>11. /\ inf \in [1..Cardinality(S) -> S]
       /\ \A i, j \in 1..Cardinality(S) : i < j => <<inf[i], inf[j]>> \in R
  BY <1>9 DEF Lists
<1>12. inf \in Seq(REntry) /\ Len(inf) = Cardinality(S)
  <2>1. inf \in [1..Cardinality(S) -> REntry]
    BY <1>1, <1>11
  <2> QED BY <2>1, <1>10
<1>13. \A i \in 1..Len(inf) : \E k : RIn(l, k, inf[i])
  BY <1>1, <1>11, <1>12
<1>14. \A i, j \in 1..Len(inf) : i < j =>
          /\ inf[i].type <= inf[j].type
          /\ inf[i].type = inf[j].type => inf[i].address + PtrSize <= inf[j].address
  <2> SUFFICES ASSUME NEW i \in 1..Len(inf), NEW j \in 1..Len(inf), i < j
               PROVE  /\ inf[i].type <= inf[j].type
                      /\ inf[i].type = inf[j].type => inf[i].address + PtrSize <= inf[j].address
    OBVIOUS
  <2> DEFINE e == inf[i]
             f == inf[j]
  <2>1. e \in S /\ f \in S /\ <<e, f>> \in R
    BY <1>11, <1>12
  <2> HIDE DEF e, f
  <2>2. e.type < f.type \/ (e.type = f.type /\ e.address < f.address)
    BY <2>1, <1>6
  <2>3. e.type \in Nat /\ f.type \in Nat /\ e.address \in Nat /\ f.address \in Nat
    BY <2>1, <1>2
  <2>4. e = f \/ e.address + PtrSize <= f.address \/ f.address + PtrSize <= e.address
    BY <2>1, <1>3
  <2>5. e # f
    BY <2>2, <2>3
  <2>6. /\ e.type <= f.type
        /\ e.type = f.type => e.address + PtrSize <= f.address
    BY <2>2, <2>3, <2>4, <2>5, <1>4
  <2> QED BY <2>6 DEF e, f
<1>15. RTable(l, inf)
  BY <1>12, <1>13, <1>14 DEF RTable
<1> QED BY <1>8, <1>15

\* The opcodes lead dyld to the state s; the linker has not yet combined any.
RFollows(l, inf, ops, s) ==
    /\ ops \in Seq(ROp) /\ \A k \in 1..Len(ops) : ops[k].op = "DO_REBASE_ULEB_TIMES" => ops[k].a = 1
    /\ \E u : /\ u[0] = Rebasing!Dyld0(l) /\ u[0] \in RStates(inf)
              /\ RTrace(l, inf, ops, u, 0, Len(ops)) /\ u[Len(ops)] = s

\* One more opcode.
LEMMA RFollowsOne ==
    ASSUME NEW l, NEW inf, NEW ops, NEW s, RFollows(l, inf, ops, s), NEW o, ROk(l, o),
           o.op = "DO_REBASE_ULEB_TIMES" => o.a = 1,
           NEW r, r = Rebasing!Run1(l, s, o), r \in RStates(inf)
    PROVE  RFollows(l, inf, ops \o <<o>>, r)
<1>1. PICK u : /\ u[0] = Rebasing!Dyld0(l) /\ u[0] \in RStates(inf)
               /\ RTrace(l, inf, ops, u, 0, Len(ops)) /\ u[Len(ops)] = s
  BY DEF RFollows
<1> DEFINE m == Len(ops)
           new == ops \o <<o>>
           v == [k \in 0..(m + 1) |-> IF k = m + 1 THEN r ELSE u[k]]
<1>2. ops \in Seq(ROp) /\ o \in ROp /\ m \in Nat
  BY DEF RFollows, ROk
<1>3. new \in Seq(ROp) /\ Len(new) = m + 1 /\ new[m + 1] = o /\ \A k \in 1..m : new[k] = ops[k]
  BY <1>2
<1>4. v[m + 1] = r /\ \A k \in 0..m : v[k] = u[k]
  BY <1>2
<1> HIDE DEF new, v, m
<1>5. RTrace(l, inf, new, v, 0, m + 1)
  <2> SUFFICES ASSUME NEW k \in (0 + 1)..(m + 1)
               PROVE  ROk(l, new[k]) /\ v[k] \in RStates(inf) /\ v[k] = Rebasing!Run1(l, v[k - 1], new[k])
    BY DEF RTrace
  <2>1. CASE k = m + 1
    <3>1. k - 1 = m /\ m \in 0..m
      BY <2>1, <1>2
    <3>2. v[k - 1] = s
      BY <3>1, <1>1, <1>4 DEF m
    <3> QED BY <2>1, <3>2, <1>3, <1>4
  <2>2. CASE k # m + 1
    <3>1. k \in (0 + 1)..m /\ k \in 1..m /\ k \in 0..m /\ k - 1 \in 0..m
      BY <2>2, <1>2
    <3>2. ROk(l, ops[k]) /\ u[k] \in RStates(inf) /\ u[k] = Rebasing!Run1(l, u[k - 1], ops[k])
      BY <3>1, <1>1 DEF RTrace, m
    <3> QED BY <3>1, <3>2, <1>3, <1>4
  <2> QED BY <2>1, <2>2
<1>6. \A k \in 1..(m + 1) : new[k].op = "DO_REBASE_ULEB_TIMES" => new[k].a = 1
  <2> TAKE k \in 1..(m + 1)
  <2>1. CASE k = m + 1
    BY <2>1, <1>3
  <2>2. CASE k # m + 1
    <3>1. k \in 1..m
      BY <2>2, <1>2
    <3> QED BY <3>1, <1>3 DEF RFollows, m
  <2> QED BY <2>1, <2>2
<1>7. v[0] = u[0] /\ v[m + 1] = r
  BY <1>2, <1>4
<1>8. RFollows(l, inf, new, r)
  BY <1>1, <1>3, <1>5, <1>6, <1>7 DEF RFollows
<1> QED BY <1>8 DEF new

\* No opcode.
LEMMA RFollowsNone ==
    ASSUME NEW l, NEW inf, NEW ops, NEW s, RFollows(l, inf, ops, s)
    PROVE  RFollows(l, inf, ops \o <<>>, s)
<1>1. ops \in Seq(ROp)
  BY DEF RFollows
<1>2. ops \o <<>> = ops
  BY <1>1
<1> QED BY <1>2

\* The opcode that sets the type.
LEMMA RSetType ==
    ASSUME NEW l, NEW inf, NEW s \in RStates(inf), NEW t \in {1, 2}, NEW o, o = Rebasing!Op("SET_TYPE_IMM", t, 0)
    PROVE  /\ ROk(l, o) /\ o.op = "SET_TYPE_IMM"
           /\ Rebasing!Run1(l, s, o) \in RStates(inf)
           /\ Rebasing!Run1(l, s, o) = [s EXCEPT !.type = t]
<1>1. o \in ROp /\ o.op = "SET_TYPE_IMM" /\ o.a = t /\ o.b = 0
  BY RCodes DEF ROp, Rebasing!Op
<1>2. ROk(l, o)
  BY <1>1, WidthAssumption DEF ROk
<1>3. Rebasing!Run1(l, s, o) = [s EXCEPT !.type = t]
  BY <1>1, RRun
<1>4. t \in Nat
  OBVIOUS
<1>5. s \in RState /\ ~s.bad /\ \E m \in 0..Len(inf) : s.rebased = SubSeq(inf, 1, m)
  BY DEF RStates
<1>6. [s EXCEPT !.type = t] \in RState /\ [s EXCEPT !.type = t].bad = s.bad /\ [s EXCEPT !.type = t].rebased = s.rebased
  BY <1>4, <1>5 DEF RState
<1> QED BY <1>1, <1>2, <1>3, <1>5, <1>6 DEF RStates

\* The opcode that sets segment and offset leads dyld to the pointer.
LEMMA RFollowsSegment ==
    ASSUME NEW l, WellFormed(l), NEW inf, NEW ops, NEW s \in RStates(inf), RFollows(l, inf, ops, s),
           NEW k, NEW a \in Nat, Within(l, k, a)
    PROVE  /\ RFollows(l, inf, ops \o <<Rebasing!Op("SET_SEGMENT_AND_OFFSET_ULEB", k - 1, a - l[k].start)>>,
                       [s EXCEPT !.address = a, !.segEnd = l[k].limit])
           /\ [s EXCEPT !.address = a, !.segEnd = l[k].limit] \in RStates(inf)
<1> DEFINE o == Rebasing!Op("SET_SEGMENT_AND_OFFSET_ULEB", k - 1, a - l[k].start)
           r == Rebasing!Run1(l, s, o)
<1>1. /\ k - 1 \in Nat /\ k - 1 < Len(l) - 1 /\ k - 1 < Len(l) /\ (k - 1) + 1 = k /\ Len(l) \in Nat
      /\ l[k].start \in Nat /\ l[k].limit \in Nat /\ l[k].start <= a /\ a \in 0..(DyldWord - 1)
      /\ DyldWord \in Nat \ {0}
  BY WithinFacts, SegmentFacts, WordsNest
<1>2. o \in ROp /\ o.op = "SET_SEGMENT_AND_OFFSET_ULEB" /\ o.a = k - 1 /\ o.b = a - l[k].start
  BY <1>1, RCodes DEF ROp, Rebasing!Op
<1>3. ROk(l, o)
  BY <1>1, <1>2 DEF ROk
<1>4. (l[k].start + ((a - l[k].start) % DyldWord)) % DyldWord = a
  <2> DEFINE st == l[k].start
  <2>1. st \in 0..(DyldWord - 1) /\ a >= st /\ a \in 0..(DyldWord - 1)
    BY <1>1
  <2> HIDE DEF st
  <2>2. (st + ((a - st) % DyldWord)) % DyldWord = a
    BY <2>1, Steps
  <2> QED BY <2>2 DEF st
<1>5. ~(o.a >= Len(l))
  BY <1>1, <1>2
<1>6. Rebasing!Run1(l, s, o) = [s EXCEPT !.address = (l[k].start + ((a - l[k].start) % DyldWord)) % DyldWord,
                                         !.segEnd = l[k].limit]
  BY <1>1, <1>2, <1>5 DEF Rebasing!Run1, Rebasing!ReadUleb, Rebasing!segActualLoadAddress,
                    Rebasing!segActualEndAddress
<1>7. Rebasing!Run1(l, s, o) = [s EXCEPT !.address = a, !.segEnd = l[k].limit]
  BY <1>4, <1>6
<1>8. r \in RStates(inf)
  BY <1>1, <1>2, <1>3, <1>7 DEF RStates, RState
<1>10. o.op # "DO_REBASE_ULEB_TIMES"
  BY <1>2, <1>3
<1> HIDE DEF o
<1>11. r = Rebasing!Run1(l, s, o)
  OBVIOUS
<1> HIDE DEF r
<1>12. RFollows(l, inf, ops \o <<o>>, r)
  BY <1>3, <1>4, <1>8, <1>10, <1>11, RFollowsOne
<1> QED BY <1>7, <1>8, <1>11, <1>12 DEF o

\* The opcode that adds to the address leads dyld to the pointer.
LEMMA RFollowsAdd ==
    ASSUME NEW l, NEW inf, NEW ops, NEW s \in RStates(inf), RFollows(l, inf, ops, s),
           NEW a \in 0..(DyldWord - 1)
    PROVE  /\ RFollows(l, inf, ops \o <<Rebasing!Op("ADD_ADDR_ULEB", (a - s.address) % LdWord, 0)>>,
                       [s EXCEPT !.address = a])
           /\ [s EXCEPT !.address = a] \in RStates(inf)
<1> DEFINE o == Rebasing!Op("ADD_ADDR_ULEB", (a - s.address) % LdWord, 0)
           r == Rebasing!Run1(l, s, o)
<1>1. s.address \in 0..(DyldWord - 1) /\ DyldWord \in Nat \ {0} /\ LdWord \in Nat \ {0}
  BY WordsNest DEF RStates, RState
<1>2. (a - s.address) % LdWord \in Nat
  <2> DEFINE x == a - s.address
  <2>1. x \in Int
    BY <1>1
  <2> HIDE DEF x
  <2>2. x % LdWord \in 0..(LdWord - 1)
    BY <2>1, <1>1, DivDef
  <2> QED BY <2>2, <1>1 DEF x
<1>3. o \in ROp /\ o.op = "ADD_ADDR_ULEB" /\ o.a = (a - s.address) % LdWord /\ o.b = 0
  BY <1>2, RCodes DEF ROp, Rebasing!Op
<1>4. ROk(l, o)
  BY <1>3 DEF ROk
<1>5. (s.address + (((a - s.address) % LdWord) % DyldWord)) % DyldWord = a
  <2> DEFINE x == s.address
  <2>1. x \in 0..(DyldWord - 1)
    BY <1>1
  <2> HIDE DEF x
  <2>2. (x + (((a - x) % LdWord) % DyldWord)) % DyldWord = a
    BY <2>1, Steps
  <2> QED BY <2>2 DEF x
<1>6. Rebasing!Run1(l, s, o) = [s EXCEPT !.address = (s.address + (o.a % DyldWord)) % DyldWord]
  BY <1>3, RRun
<1>7. Rebasing!Run1(l, s, o) = [s EXCEPT !.address = a]
  BY <1>3, <1>5, <1>6
<1>8. r \in RStates(inf)
  BY <1>3, <1>4, <1>7 DEF RStates, RState
<1>10. o.op # "DO_REBASE_ULEB_TIMES"
  BY <1>2, <1>3
<1> HIDE DEF o
<1>11. r = Rebasing!Run1(l, s, o)
  OBVIOUS
<1> HIDE DEF r
<1>12. RFollows(l, inf, ops \o <<o>>, r)
  BY <1>3, <1>4, <1>8, <1>10, <1>11, RFollowsOne
<1> QED BY <1>7, <1>8, <1>11, <1>12 DEF o

\* The opcode that rebases does so at the next entry, and inside the segment.
LEMMA RDoRebase ==
    ASSUME NEW l, WellFormed(l), NEW inf, inf \in Seq(REntry), NEW s \in RStates(inf),
           NEW i \in Nat, i < Len(inf), s.rebased = SubSeq(inf, 1, i),
           s.type = inf[i + 1].type, s.address = inf[i + 1].address,
           NEW k, Within(l, k, inf[i + 1].address), s.segEnd = l[k].limit,
           NEW o, o = Rebasing!Op("DO_REBASE_ULEB_TIMES", 1, 0), NEW r, r = Rebasing!Run1(l, s, o)
    PROVE  /\ ROk(l, o) /\ o.op = "DO_REBASE_ULEB_TIMES" /\ o.a = 1
           /\ r \in RStates(inf) /\ r.rebased = SubSeq(inf, 1, i + 1)
           /\ r.type = s.type /\ r.segEnd = s.segEnd /\ r.address = inf[i + 1].address + PtrSize
<1> DEFINE e == inf[i + 1]
<1>1. o \in ROp /\ o.op = "DO_REBASE_ULEB_TIMES" /\ o.a = 1 /\ o.b = 0
  BY RCodes DEF ROp, Rebasing!Op
<1>2. ROk(l, o)
  BY <1>1 DEF ROk
<1>3. i + 1 \in 1..Len(inf) /\ Len(inf) \in Nat
  OBVIOUS
<1>4. e \in REntry /\ e.address \in Nat /\ e.type \in Nat
  <2>1. e \in REntry
    BY <1>3
  <2> QED BY <2>1 DEF REntry
<1>5. /\ e.address < l[k].limit /\ l[k].limit \in Nat /\ e.address \in 0..(DyldWord - 1)
      /\ e.address + PtrSize \in 0..(DyldWord - 1) /\ DyldWord \in Nat \ {0} /\ PtrSize \in Nat
  BY <1>4, WithinFacts, WordsNest
<1> HIDE DEF e
<1>6. s \in RState /\ ~s.bad
  BY DEF RStates
<1>7. RIsTimes(r, s, 1, 0)
  <2>1. r = Rebasing!RebaseTimes(s, 1, 0)
    BY <1>1, RRun
  <2> QED BY <2>1, <1>6, RTimes
<1>8. At(s, 0, 0) = e.address /\ At(s, 1, 0) = e.address + PtrSize
  <2>1. s.address = e.address
    BY DEF e
  <2>2. s.address + 0 * (0 + PtrSize) = e.address /\ s.address + 1 * (0 + PtrSize) = e.address + PtrSize
    BY <2>1, <1>4, <1>5
  <2>3. e.address % DyldWord = e.address /\ (e.address + PtrSize) % DyldWord = e.address + PtrSize
    BY <1>5, ModSmall
  <2> QED BY <2>2, <2>3 DEF At
<1>9. RList(s, 1, 0) = <<e>>
  <2>1. e = [type |-> e.type, address |-> e.address] /\ s.type = e.type
    BY <1>4 DEF REntry, e
  <2>2. RList(s, 1, 0) = [j \in 1..1 |-> [type |-> s.type, address |-> At(s, j - 1, 0)]]
    BY DEF RList
  <2>3. \A j \in 1..1 : j - 1 = 0
    OBVIOUS
  <2>4. RList(s, 1, 0) = [j \in 1..1 |-> e]
    BY <2>1, <2>2, <2>3, <1>8
  <2> QED BY <2>4
<1>10. r.rebased = SubSeq(inf, 1, i + 1)
  <2>1. r.rebased = SubSeq(inf, 1, i) \o <<e>>
    BY <1>7, <1>9 DEF RIsTimes
  <2>2. SubSeq(inf, 1, i) \o <<e>> = SubSeq(inf, 1, i + 1)
    <3> DEFINE x == SubSeq(inf, 1, i)
               y == <<e>>
               z == SubSeq(inf, 1, i + 1)
    <3>1. x \in Seq(REntry) /\ Len(x) = i /\ \A j \in 1..i : x[j] = inf[j]
      BY <1>3
    <3>2. z \in Seq(REntry) /\ Len(z) = i + 1 /\ \A j \in 1..(i + 1) : z[j] = inf[j]
      BY <1>3
    <3>3. y \in Seq(REntry) /\ Len(y) = 1 /\ y[1] = e
      BY <1>4
    <3> HIDE DEF x, y, z
    <3>4. /\ \A j \in 1..Len(x) : x[j] = z[j]
          /\ y[1] = z[Len(x) + 1] /\ Len(z) = Len(x) + 1
      BY <3>1, <3>2, <3>3, <1>3 DEF e
    <3>5. x \o y = z
      BY <3>1, <3>2, <3>3, <3>4, ConcatLast
    <3> QED BY <3>5 DEF x, y, z
  <2> QED BY <2>1, <2>2
<1>11. ~r.bad
  <2>1. \A j \in 1..1 : ~(At(s, j - 1, 0) >= s.segEnd)
    <3>1. \A j \in 1..1 : j - 1 = 0
      OBVIOUS
    <3> QED BY <3>1, <1>5, <1>8
  <2> QED BY <2>1, <1>6, <1>7 DEF RIsTimes
<1>12. i + 1 \in 0..Len(inf)
  BY <1>3
<1> QED BY <1>1, <1>2, <1>7, <1>8, <1>10, <1>11, <1>12 DEF RIsTimes, RStates, e

\* Where the translation of the first i entries leaves the linker's variables
\* and dyld's.
RPlace(l, inf, i, cu, ty, ad, s) ==
    /\ i \in 0..Len(inf) /\ s \in RStates(inf) /\ s.rebased = SubSeq(inf, 1, i) /\ s.type = ty
    /\ i = 0 => cu = NoSegment /\ ad = LdWord - 1
    /\ i > 0 => \E k : /\ RIn(l, k, inf[i]) /\ cu = SegmentAt(l, k) /\ s.segEnd = l[k].limit
                       /\ s.type = inf[i].type /\ s.address = inf[i].address + PtrSize
                       /\ ad = IF s.address >= l[k].end THEN 0 ELSE s.address

\* Where encode believes that it is in the right segment, it is, and so is dyld.
LEMMA RWhereFrom ==
    ASSUME NEW l, WellFormed(l), NEW inf, RTable(l, inf), NEW i \in Nat, i < Len(inf),
           NEW cu, NEW ty, NEW ad, NEW s, RPlace(l, inf, i, cu, ty, ad, s),
           NEW k, RIn(l, k, inf[i + 1]),
           NEW a, a = inf[i + 1].address,
           ad = a \/ ~(a < cu.start \/ a >= cu.end)
    PROVE  ad = s.address /\ cu = SegmentAt(l, k) /\ s.segEnd = l[k].limit
<1>0. Len(inf) \in Nat /\ i + 1 \in 1..Len(inf) /\ inf[i + 1] \in REntry
  BY DEF RTable
<1>1. a \in Nat /\ a > 0 /\ Within(l, k, a)
  BY <1>0 DEF RIn, REntry
<1>2. k \in 1..Len(l) /\ l[k].start <= a /\ a < l[k].end /\ a < LdWord - 1 /\ l[k].end \in Nat /\ l[k].start \in Nat
  BY <1>1, WithinFacts
<1>3. i # 0
  <2> SUFFICES ASSUME i = 0 PROVE FALSE
    OBVIOUS
  <2>1. cu.end = 0 /\ ad = LdWord - 1
    BY DEF RPlace, NoSegment
  <2> QED BY <2>1, <1>1, <1>2, WordsNest
<1>4. PICK j : /\ RIn(l, j, inf[i]) /\ cu = SegmentAt(l, j) /\ s.segEnd = l[j].limit
               /\ s.type = inf[i].type /\ s.address = inf[i].address + PtrSize
               /\ ad = IF s.address >= l[j].end THEN 0 ELSE s.address
  BY <1>3 DEF RPlace
<1>5. i \in 1..Len(inf) /\ inf[i] \in REntry
  BY <1>0, <1>3 DEF RTable
<1> DEFINE b == inf[i].address
<1>6. b \in Nat /\ Within(l, j, b)
  BY <1>4, <1>5 DEF RIn, REntry
<1>7. j \in 1..Len(l) /\ l[j].start \in Nat /\ l[j].end \in Nat /\ l[j].start <= b /\ b < l[j].end
  BY <1>6, WithinFacts
<1>8. s.address = b + PtrSize /\ PtrSize \in Nat \ {0}
  BY <1>4, WordsNest
<1>9. cu.start = l[j].start /\ cu.end = l[j].end
  BY <1>4 DEF SegmentAt
<1> HIDE DEF b
<1>10. l[j].start <= a /\ a < l[j].end
  <2>1. CASE ad = a
    <3>1. ~(s.address >= l[j].end) /\ a = s.address
      BY <2>1, <1>1, <1>4
    <3> DEFINE x == s.address
               st == l[j].start
               en == l[j].end
    <3>2. st \in Nat /\ en \in Nat /\ st <= b /\ x = b + PtrSize /\ ~(x >= en) /\ a = x /\ b \in Nat
      BY <3>1, <1>6, <1>7, <1>8
    <3> HIDE DEF x, st, en
    <3>3. st <= a /\ a < en
      BY <3>2, <1>8
    <3> QED BY <3>3 DEF st, en
  <2>2. CASE ~(a < cu.start \/ a >= cu.end)
    BY <2>2, <1>9, <1>1, <1>7
  <2> QED BY <2>1, <2>2
<1>11. j = k
  BY <1>1, <1>2, <1>7, <1>10, WithinOne
<1>12. inf[i].type = inf[i + 1].type
  BY <1>4, <1>11 DEF RIn
<1>13. b + PtrSize <= a
  <2>1. i < i + 1
    OBVIOUS
  <2> QED BY <2>1, <1>0, <1>5, <1>12 DEF RTable, b
<1>14. ~(s.address >= l[j].end)
  BY <1>13, <1>10, <1>8, <1>1, <1>7, <1>6
<1> QED BY <1>4, <1>11, <1>14

\* The type of the next entry.
LEMMA RFollowsType ==
    ASSUME NEW l, NEW inf, NEW ops, NEW s \in RStates(inf), RFollows(l, inf, ops, s), NEW t \in {1, 2}
    PROVE  /\ RFollows(l, inf, ops \o <<Rebasing!Op("SET_TYPE_IMM", t, 0)>>, [s EXCEPT !.type = t])
           /\ [s EXCEPT !.type = t] \in RStates(inf)
<1> DEFINE o == Rebasing!Op("SET_TYPE_IMM", t, 0)
           r == Rebasing!Run1(l, s, o)
<1>1. ROk(l, o) /\ o.op = "SET_TYPE_IMM" /\ r \in RStates(inf) /\ r = [s EXCEPT !.type = t]
  BY RSetType
<1>2. r = Rebasing!Run1(l, s, o)
  OBVIOUS
<1> HIDE DEF o, r
<1>3. RFollows(l, inf, ops \o <<o>>, r)
  BY <1>1, <1>2, RFollowsOne
<1> QED BY <1>1, <1>3 DEF o

\* What encode computes for entry i + 1.
RTranslates(l, inf, i, cu, ty, ad, e, out, seg, typed, moved) ==
    /\ e = inf[i + 1] /\ out = (e.address < cu.start \/ e.address >= cu.end)
    /\ seg = (IF ad # e.address /\ out THEN findSegment(l, e.address) ELSE cu)
    /\ typed = (IF ty # e.type THEN <<Rebasing!Op("SET_TYPE_IMM", e.type, 0)>> ELSE <<>>)
    /\ moved = (IF ad = e.address THEN <<>>
                ELSE IF out
                THEN <<Rebasing!Op("SET_SEGMENT_AND_OFFSET_ULEB", seg.index, e.address - seg.start)>>
                ELSE <<Rebasing!Op("ADD_ADDR_ULEB", (e.address - ad) % LdWord, 0)>>)

\* The translation of one entry: dyld is led to it and rebases it.
LEMMA RTranslateStep ==
    ASSUME NEW l, WellFormed(l), NEW inf, RTable(l, inf), NEW i \in Nat, i < Len(inf),
           NEW cu, NEW ty, NEW ad, NEW ops, NEW s,
           RFollows(l, inf, ops, s), RPlace(l, inf, i, cu, ty, ad, s),
           NEW e, NEW out, NEW seg, NEW typed, NEW moved, RTranslates(l, inf, i, cu, ty, ad, e, out, seg, typed, moved)
    PROVE  \E r : /\ RFollows(l, inf, ((ops \o typed) \o moved) \o <<Rebasing!Op("DO_REBASE_ULEB_TIMES", 1, 0)>>, r)
                  /\ RPlace(l, inf, i + 1, seg, e.type, Rebasing!Advance(e.address, seg), r)
<1> USE DEF RTranslates
<1>0. Len(inf) \in Nat /\ i + 1 \in 1..Len(inf) /\ inf \in Seq(REntry)
  BY DEF RTable
<1>1. PICK k : RIn(l, k, e)
  BY <1>0 DEF RTable
<1>2. e \in REntry
  BY <1>0
<1>3. e.address \in Nat /\ e.type \in {1, 2} /\ Within(l, k, e.address)
  BY <1>1, <1>2 DEF RIn, REntry
<1>4. /\ e.address \in 0..(DyldWord - 1) /\ e.address + PtrSize < LdWord
      /\ e.address + PtrSize \in Nat /\ l[k].limit \in Nat /\ PtrSize \in Nat
  <2>1. PtrSize \in Nat
    BY WordsNest
  <2> DEFINE a == e.address
  <2>2. a \in Nat /\ Within(l, k, a)
    BY <1>3
  <2> HIDE DEF a
  <2>3. a \in 0..(DyldWord - 1) /\ a + PtrSize < LdWord /\ l[k].limit \in Nat
    BY <2>2, WithinFacts, Zenon
  <2>4. a + PtrSize \in Nat
    BY <2>1, <2>2
  <2> QED BY <2>1, <2>3, <2>4 DEF a
<1>5. findSegment(l, e.address) = SegmentAt(l, k)
  BY <1>3, FindsSegment
<1>6. s \in RStates(inf) /\ s.rebased = SubSeq(inf, 1, i) /\ s.type = ty
  BY DEF RPlace
<1>7. ad = e.address \/ ~out => ad = s.address /\ cu = SegmentAt(l, k) /\ s.segEnd = l[k].limit
  <2> DEFINE a == e.address
  <2>1. a = inf[i + 1].address /\ out = (a < cu.start \/ a >= cu.end) /\ RIn(l, k, inf[i + 1])
    BY <1>1
  <2>2. a = e.address
    OBVIOUS
  <2> HIDE DEF a
  <2>3. ASSUME ad = a \/ ~(a < cu.start \/ a >= cu.end)
        PROVE  ad = s.address /\ cu = SegmentAt(l, k) /\ s.segEnd = l[k].limit
    BY <2>1, <2>3, RWhereFrom
  <2> QED BY <2>1, <2>2, <2>3
<1>8. seg = SegmentAt(l, k) /\ seg.start = l[k].start /\ seg.end = l[k].end /\ seg.index = k - 1
  <2>1. seg = SegmentAt(l, k)
    BY <1>5, <1>7
  <2> QED BY <2>1 DEF SegmentAt
<1> DEFINE s1 == IF ty # e.type THEN [s EXCEPT !.type = e.type] ELSE s
<1>9. RFollows(l, inf, ops \o typed, s1) /\ s1 \in RStates(inf)
  <2>1. CASE ty # e.type
    <3>1. typed = <<Rebasing!Op("SET_TYPE_IMM", e.type, 0)>> /\ s1 = [s EXCEPT !.type = e.type]
      BY <2>1
    <3> DEFINE t == e.type
    <3>2. t \in {1, 2} /\ t = e.type
      BY <1>3
    <3> HIDE DEF t, s1
    <3>3. /\ RFollows(l, inf, ops \o <<Rebasing!Op("SET_TYPE_IMM", t, 0)>>, [s EXCEPT !.type = t])
          /\ [s EXCEPT !.type = t] \in RStates(inf)
      BY <3>2, <1>6, RFollowsType
    <3> QED BY <3>1, <3>2, <3>3
  <2>2. CASE ty = e.type
    BY <2>2, <1>6, RFollowsNone
  <2> QED BY <2>1, <2>2
<1>10. /\ s1.type = e.type /\ s1.rebased = SubSeq(inf, 1, i) /\ s1.address = s.address /\ s1.segEnd = s.segEnd
  BY <1>6 DEF RStates, RState
<1> HIDE DEF s1
<1> DEFINE s2 == IF ad = e.address THEN s1
                 ELSE IF out THEN [s1 EXCEPT !.address = e.address, !.segEnd = l[k].limit]
                 ELSE [s1 EXCEPT !.address = e.address]
<1>11. RFollows(l, inf, (ops \o typed) \o moved, s2) /\ s2 \in RStates(inf)
  <2>1. CASE ad = e.address
    <3>1. s2 = s1 /\ moved = <<>>
      BY <2>1
    <3> HIDE DEF s2
    <3> QED BY <3>1, <1>9, RFollowsNone
  <2>2. CASE ad # e.address /\ out
    <3> DEFINE a == e.address
    <3>1. a \in Nat /\ Within(l, k, a) /\ a = e.address
      BY <1>3
    <3>2. moved = <<Rebasing!Op("SET_SEGMENT_AND_OFFSET_ULEB", k - 1, a - l[k].start)>>
          /\ s2 = [s1 EXCEPT !.address = a, !.segEnd = l[k].limit]
      BY <2>2, <1>8
    <3> HIDE DEF a, s2
    <3> DEFINE os == ops \o typed
    <3>3. RFollows(l, inf, os, s1)
      BY <1>9
    <3> HIDE DEF os
    <3>4. /\ RFollows(l, inf, os \o <<Rebasing!Op("SET_SEGMENT_AND_OFFSET_ULEB", k - 1, a - l[k].start)>>,
                      [s1 EXCEPT !.address = a, !.segEnd = l[k].limit])
          /\ [s1 EXCEPT !.address = a, !.segEnd = l[k].limit] \in RStates(inf)
      BY <3>1, <3>3, <1>9, RFollowsSegment
    <3> QED BY <3>2, <3>4 DEF os
  <2>3. CASE ad # e.address /\ ~out
    <3> DEFINE a == e.address
    <3>1. a \in 0..(DyldWord - 1) /\ a = e.address
      BY <1>4
    <3>2. moved = <<Rebasing!Op("ADD_ADDR_ULEB", (a - s1.address) % LdWord, 0)>>
          /\ s2 = [s1 EXCEPT !.address = a]
      BY <2>3, <1>7, <1>10
    <3> HIDE DEF a, s2
    <3> DEFINE os == ops \o typed
    <3>3. RFollows(l, inf, os, s1)
      BY <1>9
    <3> HIDE DEF os
    <3>4. /\ RFollows(l, inf, os \o <<Rebasing!Op("ADD_ADDR_ULEB", (a - s1.address) % LdWord, 0)>>,
                      [s1 EXCEPT !.address = a])
          /\ [s1 EXCEPT !.address = a] \in RStates(inf)
      BY <3>1, <3>3, <1>9, RFollowsAdd
    <3> QED BY <3>2, <3>4 DEF os
  <2> QED BY <2>1, <2>2, <2>3
<1>12. s2.type = e.type /\ s2.rebased = SubSeq(inf, 1, i) /\ s2.address = e.address /\ s2.segEnd = l[k].limit
  <2>1. s1 \in RState
    BY <1>9 DEF RStates
  <2>2. CASE ad = e.address
    BY <2>2, <1>7, <1>10
  <2>3. CASE ad # e.address /\ out
    BY <2>1, <2>3, <1>10 DEF RState
  <2>4. CASE ad # e.address /\ ~out
    BY <2>1, <2>4, <1>7, <1>10 DEF RState
  <2> QED BY <2>2, <2>3, <2>4
<1> HIDE DEF s2
<1> DEFINE o == Rebasing!Op("DO_REBASE_ULEB_TIMES", 1, 0)
           r == Rebasing!Run1(l, s2, o)
<1>14. o = Rebasing!Op("DO_REBASE_ULEB_TIMES", 1, 0) /\ r = Rebasing!Run1(l, s2, o)
  OBVIOUS
<1> HIDE DEF o, r
<1>13. /\ ROk(l, o) /\ o.op = "DO_REBASE_ULEB_TIMES" /\ o.a = 1
       /\ r \in RStates(inf) /\ r.rebased = SubSeq(inf, 1, i + 1)
       /\ r.type = s2.type /\ r.segEnd = s2.segEnd /\ r.address = e.address + PtrSize
  BY <1>0, <1>3, <1>11, <1>12, <1>14, RDoRebase
<1>15. RFollows(l, inf, ((ops \o typed) \o moved) \o <<o>>, r)
  BY <1>11, <1>13, <1>14, RFollowsOne
<1>16. Rebasing!Advance(e.address, seg) = IF r.address >= l[k].end THEN 0 ELSE r.address
  <2>1. e.address + PtrSize \in 0..(LdWord - 1) /\ LdWord \in Nat \ {0}
    BY <1>4, WordsNest
  <2>2. (e.address + PtrSize) % LdWord = e.address + PtrSize
    BY <2>1, ModSmall
  <2> QED BY <2>2, <1>8, <1>13 DEF Rebasing!Advance
<1>17. RPlace(l, inf, i + 1, seg, e.type, Rebasing!Advance(e.address, seg), r)
  <2>1. i + 1 \in 0..Len(inf) /\ i + 1 > 0 /\ i + 1 # 0
    BY <1>0
  <2>2. \E x : /\ RIn(l, x, inf[i + 1]) /\ seg = SegmentAt(l, x) /\ r.segEnd = l[x].limit
               /\ r.type = inf[i + 1].type /\ r.address = inf[i + 1].address + PtrSize
               /\ Rebasing!Advance(e.address, seg) = IF r.address >= l[x].end THEN 0 ELSE r.address
    BY <1>1, <1>8, <1>12, <1>13, <1>16
  <2> QED BY <2>1, <2>2, <1>12, <1>13 DEF RPlace
<1> QED BY <1>15, <1>17, <1>14

(****************************************************************************)
(* The rebase table: its invariant                                          *)
(****************************************************************************)

\* The array that the first pass reads.
LEMMA REndsTranslation ==
    ASSUME NEW l, NEW inf, NEW ops, NEW s, RFollows(l, inf, ops, s), s.rebased = inf
    PROVE  \E u : /\ RPass(l, inf, Append(ops, Rebasing!Done), 1, 1, u, u, Len(ops) + 1)
                  /\ \A k \in 1..Len(ops) : Append(ops, Rebasing!Done)[k].op = "DO_REBASE_ULEB_TIMES"
                                            => Append(ops, Rebasing!Done)[k].a = 1
<1>1. PICK u : /\ u[0] = Rebasing!Dyld0(l) /\ u[0] \in RStates(inf)
               /\ RTrace(l, inf, ops, u, 0, Len(ops)) /\ u[Len(ops)] = s
  BY DEF RFollows
<1> DEFINE m == Len(ops)
           new == Append(ops, Rebasing!Done)
<1>2. ops \in Seq(ROp) /\ Rebasing!Done \in ROp /\ Rebasing!Done.op = "DONE" /\ m \in Nat
  BY RCodes DEF RFollows, Rebasing!Done, Rebasing!Op, ROp
<1>3. new \in Seq(ROp) /\ Len(new) = m + 1 /\ new[m + 1] = Rebasing!Done /\ \A k \in 1..m : new[k] = ops[k]
  BY <1>2
<1>4. \A k \in 1..m : ops[k].op = "DO_REBASE_ULEB_TIMES" => ops[k].a = 1
  BY DEF RFollows
<1>5. RTrace(l, inf, ops, u, 0, m) /\ u[m] = s
  BY <1>1
<1> HIDE DEF new, m
<1>6. RTrace(l, inf, new, u, 0, m)
  <2> SUFFICES ASSUME NEW k \in (0 + 1)..m
               PROVE  ROk(l, new[k]) /\ u[k] \in RStates(inf) /\ u[k] = Rebasing!Run1(l, u[k - 1], new[k])
    BY DEF RTrace
  <2>1. k \in 1..m
    OBVIOUS
  <2> QED BY <2>1, <1>3, <1>5 DEF RTrace
<1>7. RTrace(l, inf, new, u, 0, 0)
  BY DEF RTrace
<1>8. 1 - 1 = 0 /\ (m + 1) - 1 = m /\ m + 1 \in 1..Len(new) /\ 1 \in 1..1 /\ 1 \in Nat \ {0}
  BY <1>2, <1>3
<1>9. RPass(l, inf, new, 1, 1, u, u, m + 1)
  BY <1>1, <1>2, <1>3, <1>5, <1>6, <1>7, <1>8 DEF RPass
<1>10. \A k \in 1..m : new[k].op = "DO_REBASE_ULEB_TIMES" => new[k].a = 1
  BY <1>3, <1>4
<1> QED BY <1>9, <1>10 DEF new, m

\* During the translation nothing is left to be read.
LEMMA RFollowsMeaning ==
    ASSUME NEW ops, NEW s, RFollows(layout, info, ops, s)
    PROVE  Rebasing!Meaning(SubSeq(ops, 1, 0) \o SubSeq(ops, 1, Len(ops))) = s
<1>1. PICK u : /\ u[0] = Rebasing!Dyld0(layout)
               /\ RTrace(layout, info, ops, u, 0, Len(ops)) /\ u[Len(ops)] = s
  BY DEF RFollows
<1>2. ops \in Seq(ROp) /\ Len(ops) \in Nat
  BY DEF RFollows
<1>3. SubSeq(ops, 1, 0) \o SubSeq(ops, 1, Len(ops)) = ops
  BY <1>2
<1>4. \A k \in 1..Len(ops) : ops[k].op # "DONE" /\ u[k] = Rebasing!Run1(layout, u[k - 1], ops[k])
  <2> TAKE k \in 1..Len(ops)
  <2>1. k \in (0 + 1)..Len(ops)
    OBVIOUS
  <2> QED BY <2>1, <1>1 DEF RTrace, ROk
<1>5. Rebasing!Meaning(ops) = u[Len(ops)]
  <2> DEFINE m == Len(ops)
  <2>1. /\ m \in Nat /\ m = Len(ops)
        /\ \A k \in 1..m : ops[k].op # "DONE" /\ u[k] = Rebasing!Run1(layout, u[k - 1], ops[k])
    BY <1>2, <1>4
  <2> HIDE DEF m
  <2>2. Rebasing!Meaning(ops) = u[m]
    <3>1. m = Len(ops) \/ (m < Len(ops) /\ ops[m + 1].op = "DONE")
      BY <2>1
    <3> QED BY <2>1, <3>1, <1>1, <1>2, RMeaning, Zenon
  <2> QED BY <2>1, <2>2
<1> QED BY <1>1, <1>3, <1>5

\* The phases that the rebase table goes through: "threw" is none of them.
RPhases == {"translate", "runs", "pairs", "skips", "immediates", "convert", "dyld", "done"}

\* The opcodes translated so far lead dyld to where encode believes to be.
RTranslating ==
    /\ src = 1 /\ dst = 1
    /\ \E s : RFollows(layout, info, mid, s) /\ RPlace(layout, info, n, cur, type, address, s)

\* During the passes.
RPassing ==
    /\ n = Len(info) /\ (phase = "convert" => src = 1 /\ dst = 1)
    /\ \E w, u, D :
         /\ RPass(layout, info, mid, src, dst, w, u, D)
         /\ phase = "runs" =>
              \A k \in src..(D - 1) : mid[k].op = "DO_REBASE_ULEB_TIMES" => mid[k].a = 1

\* dyld has run the opcodes before the next, each of them where it was written.
RReading ==
    \E m, u, off :
        /\ RLoaded(layout, info, mid, data, m, u, off)
        /\ phase = "dyld" => \E j \in 0..m : p = off[j] + 1 /\ dyld = u[j]
        /\ phase = "done" => dyld = u[m]

\* The inductive invariant of the rebase table.
RInv ==
    /\ RTable(layout, info) /\ phase \in RPhases
    /\ phase = "translate" => RTranslating
    /\ phase \in {"runs", "pairs", "skips", "immediates", "convert"} => RPassing
    /\ phase \notin {"dyld", "done"} => p = 1 /\ dyld = Rebasing!Dyld0(layout)
    /\ phase \in {"dyld", "done"} => RReading

\* The images considered.
LEMMA RLayout ==
    ASSUME RTable(layout, info)
    PROVE  /\ WellFormed(layout) /\ info \in Seq(REntry) /\ Len(info) \in Nat /\ Len(layout) \in Nat
           /\ FewSegments => Len(layout) <= Imm + 1
<1>1. layout \in RebaseLayouts /\ info \in Seq(REntry)
  BY DEF RTable
<1>2. WellFormed(layout)
  BY <1>1, LayoutAssumption
<1> QED BY <1>1, <1>2, SegmentFacts DEF FewSegments

\* dyld before the first opcode.
LEMMA RDyld0 ==
    ASSUME NEW l, WellFormed(l), NEW inf, inf \in Seq(REntry)
    PROVE  Rebasing!Dyld0(l) \in RStates(inf) /\ Rebasing!Dyld0(l).rebased = SubSeq(inf, 1, 0)
           /\ Rebasing!Dyld0(l).type = 0
<1>1. 1 \in 1..Len(l) /\ 0 + 1 = 1
  BY SegmentFacts
<1>2. l[1].start \in Nat /\ l[1].limit \in Nat /\ l[1].start < DyldWord /\ DyldWord \in Nat
  BY <1>1, SegmentFacts, WordsNest
<1>3. SubSeq(inf, 1, 0) = <<>>
  OBVIOUS
<1>4. <<>> \in Seq(REntry) /\ Len(inf) \in Nat
  OBVIOUS
<1>5. Rebasing!Dyld0(l) = [address |-> l[1].start, segEnd |-> l[1].limit, type |-> 0, bad |-> FALSE, rebased |-> <<>>]
  BY <1>1 DEF Rebasing!Dyld0, Rebasing!segActualLoadAddress, Rebasing!segActualEndAddress
<1>6. 0 \in 0..Len(inf) /\ l[1].start \in 0..(DyldWord - 1)
  BY <1>2, <1>4
<1> DEFINE r == Rebasing!Dyld0(l)
<1>7. r \in RState /\ ~r.bad /\ r.rebased = <<>> /\ r.type = 0
  BY <1>2, <1>4, <1>5, <1>6 DEF RState
<1> HIDE DEF r
<1>8. r \in RStates(inf) /\ r.rebased = SubSeq(inf, 1, 0)
  BY <1>3, <1>6, <1>7 DEF RStates
<1> QED BY <1>7, <1>8 DEF r

\* The invariant of the rebase table holds at first.
LEMMA RInit ==
    ASSUME Rebasing!Init
    PROVE  RInv
<1>1. PICK S \in SUBSET Rebasing!Entries(layout) :
         Rebasing!Apart(S) /\ info = Rebasing!InOrder(S, Rebasing!Before)
  BY DEF Rebasing!Init
<1>2. layout \in RebaseLayouts /\ WellFormed(layout)
  BY LayoutAssumption DEF Rebasing!Init
<1>3. RTable(layout, info)
  BY <1>1, <1>2, RSortedTable
<1>4. info \in Seq(REntry) /\ Len(info) \in Nat
  BY <1>3, RLayout
<1> DEFINE s == Rebasing!Dyld0(layout)
           u == [k \in 0..0 |-> s]
<1>5. s \in RStates(info) /\ s.rebased = SubSeq(info, 1, 0) /\ s.type = 0
  BY <1>2, <1>4, RDyld0
<1> HIDE DEF s
<1>6. RFollows(layout, info, <<>>, s)
  <2>1. u[0] = s /\ Len(<<>>) = 0 /\ <<>> \in Seq(ROp)
    OBVIOUS
  <2> HIDE DEF u
  <2>2. RTrace(layout, info, <<>>, u, 0, Len(<<>>))
    BY <2>1 DEF RTrace
  <2>3. u[0] = Rebasing!Dyld0(layout) /\ u[0] \in RStates(info)
    BY <2>1, <1>5 DEF s
  <2>4. \A k \in 1..Len(<<>>) : <<>>[k].op = "DO_REBASE_ULEB_TIMES" => <<>>[k].a = 1
    BY <2>1
  <2>5. u[Len(<<>>)] = s
    BY <2>1
  <2> QED BY <2>1, <2>2, <2>3, <2>4, <2>5, Zenon DEF RFollows
<1>7. n = 0 /\ cur = NoSegment /\ type = 0 /\ address = LdWord - 1 /\ mid = <<>> /\ phase = "translate"
      /\ src = 1 /\ dst = 1 /\ p = 1 /\ dyld = Rebasing!Dyld0(layout)
  BY DEF Rebasing!Init, Rebasing!NoSegment, NoSegment
<1>8. RPlace(layout, info, n, cur, type, address, s)
  BY <1>4, <1>5, <1>7 DEF RPlace
<1> QED BY <1>3, <1>6, <1>7, <1>8 DEF RInv, RTranslating, RPhases

\* The translation of an entry keeps the invariant.
LEMMA RKeepsTranslate ==
    ASSUME RInv, Rebasing!Translate
    PROVE  RInv'
<1>1. phase = "translate" /\ n < Len(info) /\ phase' = phase /\ layout' = layout /\ info' = info
      /\ src' = src /\ dst' = dst /\ p' = p /\ dyld' = dyld
  BY DEF Rebasing!Translate
<1>2. RTable(layout, info) /\ src = 1 /\ dst = 1 /\ p = 1 /\ dyld = Rebasing!Dyld0(layout)
  BY <1>1 DEF RInv, RTranslating
<1>3. PICK s : RFollows(layout, info, mid, s) /\ RPlace(layout, info, n, cur, type, address, s)
  BY <1>1 DEF RInv, RTranslating
<1>4. WellFormed(layout) /\ Len(info) \in Nat /\ n \in Nat
  BY <1>2, <1>3, RLayout DEF RPlace
<1> DEFINE e == info[n + 1]
           out == e.address < cur.start \/ e.address >= cur.end
           seg == IF address # e.address /\ out THEN findSegment(layout, e.address) ELSE cur
           typed == IF type # e.type THEN <<Rebasing!Op("SET_TYPE_IMM", e.type, 0)>> ELSE <<>>
           moved == IF address = e.address THEN <<>>
                    ELSE IF out
                    THEN <<Rebasing!Op("SET_SEGMENT_AND_OFFSET_ULEB", seg.index, e.address - seg.start)>>
                    ELSE <<Rebasing!Op("ADD_ADDR_ULEB", (e.address - address) % LdWord, 0)>>
<1>5. /\ mid' = ((mid \o typed) \o moved) \o <<Rebasing!Op("DO_REBASE_ULEB_TIMES", 1, 0)>>
      /\ type' = e.type /\ cur' = seg /\ n' = n + 1 /\ address' = Rebasing!Advance(e.address, seg)
  BY DEF Rebasing!Translate, Rebasing!findSegment, findSegment
<1>6. RTranslates(layout, info, n, cur, type, address, e, out, seg, typed, moved)
  BY DEF RTranslates
<1> HIDE DEF e, out, seg, typed, moved
<1>7. \E r : /\ RFollows(layout, info, ((mid \o typed) \o moved) \o <<Rebasing!Op("DO_REBASE_ULEB_TIMES", 1, 0)>>, r)
             /\ RPlace(layout, info, n + 1, seg, e.type, Rebasing!Advance(e.address, seg), r)
  BY <1>1, <1>2, <1>3, <1>4, <1>6, RTranslateStep
<1>8. RTranslating'
  BY <1>1, <1>2, <1>5, <1>7 DEF RTranslating
<1> QED BY <1>1, <1>2, <1>8 DEF RInv, RPhases

\* The DONE after the last entry keeps the invariant.
LEMMA RKeepsEndTranslate ==
    ASSUME RInv, Rebasing!EndTranslate
    PROVE  RInv'
<1>1. /\ phase = "translate" /\ n = Len(info) /\ phase' = "runs" /\ layout' = layout /\ info' = info
      /\ mid' = Append(mid, Rebasing!Done) /\ n' = n
      /\ src' = src /\ dst' = dst /\ p' = p /\ dyld' = dyld
  BY DEF Rebasing!EndTranslate
<1>2. RTable(layout, info) /\ src = 1 /\ dst = 1 /\ p = 1 /\ dyld = Rebasing!Dyld0(layout)
  BY <1>1 DEF RInv, RTranslating
<1>3. PICK s : RFollows(layout, info, mid, s) /\ RPlace(layout, info, n, cur, type, address, s)
  BY <1>1 DEF RInv, RTranslating
<1>4. info \in Seq(REntry) /\ SubSeq(info, 1, Len(info)) = info
  BY <1>2, RLayout
<1>5. s.rebased = info
  BY <1>1, <1>3, <1>4 DEF RPlace
<1>6. PICK u : /\ RPass(layout, info, mid', 1, 1, u, u, Len(mid) + 1)
               /\ \A k \in 1..Len(mid) : mid'[k].op = "DO_REBASE_ULEB_TIMES" => mid'[k].a = 1
  BY <1>1, <1>3, <1>5, REndsTranslation
<1>7. Len(mid) \in Nat
  BY <1>3 DEF RFollows
<1>8. (Len(mid) + 1) - 1 = Len(mid)
  BY <1>7
<1>9. \E w, v, D :
         /\ RPass(layout, info, mid', 1, 1, w, v, D)
         /\ \A k \in 1..(D - 1) : mid'[k].op = "DO_REBASE_ULEB_TIMES" => mid'[k].a = 1
  BY <1>6, <1>8
<1>10. RPassing'
  BY <1>1, <1>2, <1>9 DEF RPassing
<1> QED BY <1>1, <1>2, <1>10 DEF RInv, RPhases

\* The step of each of the passes keeps the meaning.
LEMMA RStepOkOf ==
    ASSUME NEW u, NEW D, RReads(u, D), phase \in DOMAIN Rebasing!Passes,
           phase = "runs" => \A k \in src..(D - 1) : mid[k].op = "DO_REBASE_ULEB_TIMES" => mid[k].a = 1
    PROVE  RStepOk(CASE phase = "runs" -> Rebasing!Runs [] phase = "pairs" -> Rebasing!Pairs
                     [] phase = "skips" -> Rebasing!Skips [] phase = "immediates" -> Rebasing!Immediates, u, D)
<1> DEFINE r == CASE phase = "runs" -> Rebasing!Runs [] phase = "pairs" -> Rebasing!Pairs
                  [] phase = "skips" -> Rebasing!Skips [] phase = "immediates" -> Rebasing!Immediates
<1>1. phase \in {"runs", "pairs", "skips", "immediates"}
  BY DEF Rebasing!Passes
<1>2. CASE phase = "runs"
  <2>1. r = Rebasing!Runs
    BY <1>2
  <2> HIDE DEF r
  <2>2. RStepOk(r, u, D)
    BY <1>2, <2>1, RRunsStep
  <2> QED BY <2>2 DEF r
<1>3. CASE phase = "pairs"
  <2>1. r = Rebasing!Pairs
    BY <1>3
  <2> HIDE DEF r
  <2>2. RStepOk(r, u, D)
    BY <2>1, RPairsStep
  <2> QED BY <2>2 DEF r
<1>4. CASE phase = "skips"
  <2>1. r = Rebasing!Skips
    BY <1>4
  <2> HIDE DEF r
  <2>2. RStepOk(r, u, D)
    BY <2>1, RSkipsStep
  <2> QED BY <2>2 DEF r
<1>5. CASE phase = "immediates"
  <2>1. r = Rebasing!Immediates
    BY <1>5
  <2> HIDE DEF r
  <2>2. RStepOk(r, u, D)
    BY <2>1, RImmediatesStep
  <2> QED BY <2>2 DEF r
<1> QED BY <1>1, <1>2, <1>3, <1>4, <1>5

\* A step of a pass keeps the invariant.
LEMMA RKeepsOptimize ==
    ASSUME RInv, Rebasing!Optimize
    PROVE  RInv'
<1> DEFINE r == CASE phase = "runs" -> Rebasing!Runs [] phase = "pairs" -> Rebasing!Pairs
                  [] phase = "skips" -> Rebasing!Skips [] phase = "immediates" -> Rebasing!Immediates
<1>1. /\ phase \in DOMAIN Rebasing!Passes /\ mid[src].op # "DONE"
      /\ mid' = [mid EXCEPT ![dst] = r.put] /\ src' = src + r.take /\ dst' = dst + 1
      /\ phase' = phase /\ layout' = layout /\ info' = info /\ n' = n /\ p' = p /\ dyld' = dyld
  BY DEF Rebasing!Optimize
<1>2. phase \in {"runs", "pairs", "skips", "immediates"}
  BY <1>1 DEF Rebasing!Passes
<1>3. RTable(layout, info) /\ n = Len(info) /\ p = 1 /\ dyld = Rebasing!Dyld0(layout)
  BY <1>2 DEF RInv, RPassing
<1>4. PICK w, u, D :
         /\ RPass(layout, info, mid, src, dst, w, u, D)
         /\ phase = "runs" =>
              \A k \in src..(D - 1) : mid[k].op = "DO_REBASE_ULEB_TIMES" => mid[k].a = 1
  BY <1>2 DEF RInv, RPassing
<1>5. RReads(u, D)
  BY <1>1, <1>4, RPassReads
<1>6. RStepOk(r, u, D)
  BY <1>1, <1>4, <1>5, RStepOkOf
<1> HIDE DEF r
<1> DEFINE take == r.take
           put == r.put
<1>7. /\ take \in Nat \ {0} /\ src + take <= D /\ ROk(layout, put)
      /\ Rebasing!Run1(layout, u[src - 1], put) = u[src + take - 1]
  BY <1>6 DEF RStepOk
<1>8. mid' = [mid EXCEPT ![dst] = put] /\ src' = src + take
  BY <1>1
<1> HIDE DEF take, put
<1>9. PICK v : RPass(layout, info, [mid EXCEPT ![dst] = put], src + take, dst + 1, v, u, D)
  BY <1>4, <1>7, RPassOptimize
<1>10. RPass(layout, info, mid', src', dst', v, u, D)
  BY <1>1, <1>8, <1>9
<1>11. /\ src \in Nat \ {0} /\ dst \in 1..src /\ D \in src..Len(mid) /\ Len(mid) \in Nat /\ mid \in Seq(ROp)
  BY <1>4 DEF RPass
<1>12. phase = "runs" => \A k \in src'..(D - 1) : mid'[k].op = "DO_REBASE_ULEB_TIMES" => mid'[k].a = 1
  <2> SUFFICES ASSUME phase = "runs", NEW k \in src'..(D - 1)
               PROVE  mid'[k].op = "DO_REBASE_ULEB_TIMES" => mid'[k].a = 1
    OBVIOUS
  <2>1. k \in src..(D - 1) /\ k # dst /\ k \in 1..Len(mid)
    BY <1>7, <1>8, <1>11
  <2>2. mid'[k] = mid[k]
    BY <2>1, <1>8, <1>11
  <2> QED BY <2>1, <2>2, <1>4
<1>13. RPassing'
  BY <1>1, <1>2, <1>3, <1>10, <1>12 DEF RPassing
<1> QED BY <1>1, <1>2, <1>3, <1>13 DEF RInv, RPhases

\* The end of a pass keeps the invariant.
LEMMA RKeepsEndPass ==
    ASSUME RInv, Rebasing!EndPass
    PROVE  RInv'
<1>1. /\ phase \in DOMAIN Rebasing!Passes /\ mid[src].op = "DONE"
      /\ mid' = [mid EXCEPT ![dst].op = "DONE"] /\ src' = 1 /\ dst' = 1
      /\ phase' = Rebasing!Passes[phase]
      /\ layout' = layout /\ info' = info /\ n' = n /\ p' = p /\ dyld' = dyld
  BY DEF Rebasing!EndPass
<1>2. phase \in {"runs", "pairs", "skips", "immediates"} /\ phase' \in {"pairs", "skips", "immediates", "convert"}
  BY <1>1 DEF Rebasing!Passes
<1>3. RTable(layout, info) /\ n = Len(info) /\ p = 1 /\ dyld = Rebasing!Dyld0(layout)
  BY <1>2 DEF RInv, RPassing
<1>4. PICK w, u, D : RPass(layout, info, mid, src, dst, w, u, D)
  BY <1>2 DEF RInv, RPassing
<1>5. RPass(layout, info, mid', 1, 1, w, w, dst)
  BY <1>1, <1>4, RPassEnd
<1>6. RPassing'
  BY <1>1, <1>2, <1>3, <1>5 DEF RPassing
<1> QED BY <1>1, <1>2, <1>3, <1>6 DEF RInv, RPhases

\* Writing the bytes keeps the invariant, if the immediates fit.
LEMMA RKeepsConvert ==
    ASSUME RInv, FewSegments, Rebasing!Convert
    PROVE  RInv'
<1>1. /\ phase = "convert" /\ phase' = "dyld"
      /\ layout' = layout /\ info' = info /\ p' = p /\ dyld' = dyld /\ mid' = mid
  BY DEF Rebasing!Convert, Rebasing!linker
<1>2. RTable(layout, info) /\ p = 1 /\ dyld = Rebasing!Dyld0(layout) /\ src = 1 /\ dst = 1
  BY <1>1 DEF RInv, RPassing
<1>3. PICK w, u, D : RPass(layout, info, mid, 1, 1, w, u, D)
  BY <1>1, <1>2 DEF RInv, RPassing
<1>4. Rebasing!First({k \in 1..Len(mid) : mid[k].op = "DONE"}) = D
  BY <1>3, RFirstDone
<1>5. PICK padding \in {<<>>, << 0 >>} :
        data' = Rebasing!Joined([k \in 1..(D - 1) |-> Rebasing!Bytes(mid[k])]) \o padding
  BY <1>4 DEF Rebasing!Convert
<1>6. Len(layout) \in Nat /\ Len(layout) <= Imm + 1
  BY <1>2, RLayout
<1>7. PICK off : RLoaded(layout, info, mid, data', D - 1, u, off)
  BY <1>3, <1>5, <1>6, RConverts
<1>8. off[0] = 0 /\ u[0] = Rebasing!Dyld0(layout) /\ 0 \in 0..(D - 1)
  BY <1>7 DEF RLoaded
<1>9. p = off[0] + 1 /\ dyld = u[0]
  BY <1>2, <1>8
<1>10. \E m, v, of : /\ RLoaded(layout, info, mid, data', m, v, of)
                     /\ \E j \in 0..m : p = of[j] + 1 /\ dyld = v[j]
  BY <1>7, <1>8, <1>9
<1>11. RReading'
  BY <1>1, <1>10 DEF RReading
<1> QED BY <1>1, <1>2, <1>11 DEF RInv, RPhases

\* An opcode that dyld reads and runs keeps the invariant.
LEMMA RKeepsRebase ==
    ASSUME RInv, FewSegments, Rebasing!Rebase
    PROVE  RInv'
<1>1. /\ phase = "dyld" /\ p <= Len(data)
      /\ layout' = layout /\ info' = info /\ mid' = mid /\ data' = data
  BY DEF Rebasing!Rebase, Rebasing!linker
<1>2. RTable(layout, info)
  BY DEF RInv
<1>3. PICK m, u, off : /\ RLoaded(layout, info, mid, data, m, u, off)
                       /\ \E j \in 0..m : p = off[j] + 1 /\ dyld = u[j]
  BY <1>1 DEF RInv, RReading
<1>4. PICK j \in 0..m : p = off[j] + 1 /\ dyld = u[j]
  BY <1>3
<1>5. Len(layout) \in Nat /\ Len(layout) <= Imm + 1
  BY <1>2, RLayout
<1>6. m \in Nat
  BY <1>3 DEF RLoaded
<1>7. u[j] \in RStates(info) /\ off[j] \in Nat /\ Len(data) \in Nat
  BY <1>3, <1>5, RLoadedReads
<1>8. CASE j < m
  <2>1. /\ Rebasing!Readable(p) /\ Rebasing!OpAt(p) = mid[j + 1]
        /\ ROk(layout, mid[j + 1])
        /\ Rebasing!Run1(layout, u[j], mid[j + 1]) = u[j + 1] /\ u[j + 1] \in RStates(info)
        /\ p + 1 + Rebasing!Ulebs(mid[j + 1].op) = off[j + 1] + 1
    BY <1>3, <1>4, <1>5, <1>8, RLoadedReads
  <2>2. mid[j + 1].op # "DONE" /\ ~u[j + 1].bad
    BY <2>1 DEF ROk, RStates
  <2>3. dyld' = u[j + 1] /\ p' = off[j + 1] + 1 /\ phase' = "dyld"
    BY <1>1, <1>4, <2>1, <2>2 DEF Rebasing!Rebase
  <2>4. j + 1 \in 0..m
    BY <1>6, <1>8
  <2>5. RReading'
    BY <1>1, <1>3, <2>3, <2>4 DEF RReading
  <2> QED BY <1>1, <1>2, <2>3, <2>5 DEF RInv, RPhases
<1>9. CASE j = m
  <2>1. Len(data) = off[m] + 1 /\ data[p] = 0 /\ p = Len(data) /\ p \in Nat
    BY <1>1, <1>3, <1>4, <1>7, <1>9 DEF RLoaded
  <2>2. Rebasing!Readable(p) /\ Rebasing!OpAt(p).op = "DONE"
    BY <2>1, RDecodesPadding
  <2>3. Rebasing!Run1(layout, dyld, Rebasing!OpAt(p)) = dyld
    BY <2>2, RRun
  <2>4. ~dyld.bad
    BY <1>4, <1>7 DEF RStates
  <2>5. dyld' = dyld /\ phase' = "done"
    BY <2>2, <2>3, <2>4 DEF Rebasing!Rebase
  <2>6. RReading'
    BY <1>1, <1>3, <1>4, <1>9, <2>5 DEF RReading
  <2> QED BY <1>1, <1>2, <2>5, <2>6 DEF RInv, RPhases
<1> QED BY <1>6, <1>8, <1>9

\* When dyld comes to the end it has rebased everything.
LEMMA RKeepsEndOfData ==
    ASSUME RInv, FewSegments, Rebasing!EndOfData
    PROVE  RInv'
<1>1. /\ phase = "dyld" /\ p > Len(data) /\ phase' = "done"
      /\ layout' = layout /\ info' = info /\ mid' = mid /\ data' = data /\ p' = p /\ dyld' = dyld
  BY DEF Rebasing!EndOfData, Rebasing!linker
<1>2. RTable(layout, info)
  BY DEF RInv
<1>3. PICK m, u, off : /\ RLoaded(layout, info, mid, data, m, u, off)
                       /\ \E j \in 0..m : p = off[j] + 1 /\ dyld = u[j]
  BY <1>1 DEF RInv, RReading
<1>4. PICK j \in 0..m : p = off[j] + 1 /\ dyld = u[j]
  BY <1>3
<1>5. Len(layout) \in Nat /\ Len(layout) <= Imm + 1
  BY <1>2, RLayout
<1>6. m \in Nat
  BY <1>3 DEF RLoaded
<1>7. off[j] \in Nat /\ Len(data) \in Nat /\ (j < m => off[j] + 1 <= Len(data))
  BY <1>3, <1>5, RLoadedReads
<1>8. j = m
  BY <1>1, <1>4, <1>6, <1>7
<1>9. RReading'
  BY <1>1, <1>3, <1>4, <1>8 DEF RReading
<1> QED BY <1>1, <1>2, <1>9 DEF RInv, RPhases

\* The invariant of the rebase table is inductive.
LEMMA RStep ==
    ASSUME RInv, FewSegments, Rebasing!Next
    PROVE  RInv'
<1>1. CASE Rebasing!Stopped
  BY <1>1 DEF Rebasing!Stopped, Rebasing!vars, RInv, RTranslating, RPassing, RReading
<1> QED BY <1>1, RKeepsTranslate, RKeepsEndTranslate, RKeepsOptimize, RKeepsEndPass, RKeepsConvert,
           RKeepsRebase, RKeepsEndOfData DEF Rebasing!Next

\* The invariant of the rebase table implies its properties.
LEMMA RImplies ==
    ASSUME RInv, FewSegments
    PROVE  Rebasing!PassesKeepMeaning /\ Rebasing!DyldRebasesTable
<1>1. RTable(layout, info) /\ phase \in RPhases
  BY DEF RInv
<1>2. WellFormed(layout) /\ info \in Seq(REntry) /\ Len(info) \in Nat /\ Len(layout) \in Nat /\ Len(layout) <= Imm + 1
  BY <1>1, RLayout
<1>3. SubSeq(info, 1, Len(info)) = info
  BY <1>2
<1>4. Rebasing!PassesKeepMeaning
  <2>1. CASE phase = "translate"
    <3>1. src = 1 /\ dst = 1 /\ dst - 1 = 0
      BY <2>1 DEF RInv, RTranslating
    <3>2. PICK s : RFollows(layout, info, mid, s) /\ RPlace(layout, info, n, cur, type, address, s)
      BY <2>1 DEF RInv, RTranslating
    <3>3. Rebasing!Meaning(SubSeq(mid, 1, dst - 1) \o SubSeq(mid, src, Len(mid))) = s
      BY <3>1, <3>2, RFollowsMeaning
    <3>4. ~s.bad /\ s.rebased = SubSeq(info, 1, n)
      BY <3>2 DEF RPlace, RStates
    <3> QED BY <3>3, <3>4, Zenon DEF Rebasing!PassesKeepMeaning
  <2>2. CASE phase \in {"runs", "pairs", "skips", "immediates", "convert"}
    <3>1. n = Len(info)
      BY <2>2 DEF RInv, RPassing
    <3>2. PICK w, u, D : RPass(layout, info, mid, src, dst, w, u, D)
      BY <2>2 DEF RInv, RPassing
    <3>3. Rebasing!Meaning(SubSeq(mid, 1, dst - 1) \o SubSeq(mid, src, Len(mid))) = u[D - 1]
      BY <3>2, RPassMeaning
    <3>4. u[D - 1].rebased = info
      BY <3>2 DEF RPass
    <3>5. D - 1 \in (src - 1)..(D - 1)
      BY <3>2 DEF RPass
    <3>6. u[D - 1] \in RStates(info)
      BY <3>2, <3>5, RPassStates
    <3>7. ~u[D - 1].bad /\ u[D - 1].rebased = SubSeq(info, 1, n)
      BY <3>1, <3>4, <3>6, <1>3 DEF RStates
    <3> QED BY <3>3, <3>7, Zenon DEF Rebasing!PassesKeepMeaning
  <2>3. CASE phase \in {"dyld", "done"}
    BY <2>3 DEF Rebasing!PassesKeepMeaning, Rebasing!Passes
  <2> QED BY <2>1, <2>2, <2>3, <1>1 DEF RPhases
<1>5. dyld \in RStates(info) /\ (phase = "done" => dyld.rebased = info)
  <2>1. CASE phase \notin {"dyld", "done"}
    <3>1. dyld = Rebasing!Dyld0(layout)
      BY <2>1 DEF RInv
    <3> QED BY <2>1, <3>1, <1>2, RDyld0
  <2>2. CASE phase \in {"dyld", "done"}
    <3>1. PICK m, u, off : /\ RLoaded(layout, info, mid, data, m, u, off)
                           /\ phase = "dyld" => \E j \in 0..m : dyld = u[j]
                           /\ phase = "done" => dyld = u[m]
      BY <2>2 DEF RInv, RReading
    <3>2. \A j \in 0..m : u[j] \in RStates(info)
      BY <3>1, <1>2, RLoadedReads
    <3>3. m \in 0..m /\ u[m].rebased = info
      BY <3>1 DEF RLoaded
    <3> QED BY <3>1, <3>2, <3>3, <2>2
  <2> QED BY <2>1, <2>2
<1>6. Begins(dyld.rebased, info)
  <2>1. PICK m \in 0..Len(info) : dyld.rebased = SubSeq(info, 1, m)
    BY <1>5 DEF RStates
  <2>2. Begins(SubSeq(info, 1, m), info)
    BY <1>2, SubSeqBegins
  <2> QED BY <2>1, <2>2
<1>7. Rebasing!Begins(dyld.rebased, info)
  BY <1>6 DEF Begins, Rebasing!Begins
<1> QED BY <1>1, <1>4, <1>5, <1>7 DEF Rebasing!DyldRebasesTable, RPhases

(****************************************************************************)
(* The bind and the weak table: what their opcodes make dyld do             *)
(****************************************************************************)

\* An entry of a bind table, dyld's variables, and an opcode.
BEntry == [type : Nat, flags : Nat, ordinal : Int, sym : Nat, address : Nat, addend : Int]
BState == [address : 0..(DyldWord - 1), segEnd : Nat, type : Nat, sym : Nat, flags : Nat, ordinal : Int,
           addend : Int, fast : Nat, bad : BOOLEAN, names : Seq(Nat), bound : Seq(BEntry)]
BOp == [op : DOMAIN Binding!Codes, a : Int, b : Nat]

\* What a loop binds at the address a, and at all its addresses.
BTuple(s, a) == [type |-> s.type, flags |-> s.flags, ordinal |-> s.ordinal, sym |-> s.sym, address |-> a,
                 addend |-> s.addend]
BList(s, count, skip) == [i \in 1..count |-> BTuple(s, At(s, i - 1, skip))]

\* Only eachBind and eachLazyBind check that they stay inside the segment.
BChecked(kd, s) == kd # "weak" /\ s.fast = 0
BPast(kd, s, count, skip) == BChecked(kd, s) /\ \E i \in 1..count : At(s, i - 1, skip) >= s.segEnd

\* Everything that a bind leaves alone.
BSame(r, s) ==
    /\ r.segEnd = s.segEnd /\ r.type = s.type /\ r.sym = s.sym /\ r.flags = s.flags /\ r.ordinal = s.ordinal
    /\ r.addend = s.addend /\ r.fast = s.fast /\ r.names = s.names

\* The opcodes of the bind tables.
LEMMA BCodes ==
    DOMAIN Binding!Codes =
        {"DONE", "SET_DYLIB_ORDINAL_IMM", "SET_DYLIB_ORDINAL_ULEB", "SET_DYLIB_SPECIAL_IMM",
         "SET_SYMBOL_TRAILING_FLAGS_IMM", "SET_TYPE_IMM", "SET_ADDEND_SLEB", "SET_SEGMENT_AND_OFFSET_ULEB",
         "ADD_ADDR_ULEB", "DO_BIND", "DO_BIND_ADD_ADDR_ULEB", "DO_BIND_ADD_ADDR_IMM_SCALED",
         "DO_BIND_ULEB_TIMES_SKIPPING_ULEB"}
BY DEF Binding!Codes

\* r is what the loop makes of s.
BIsTimes(kd, r, s, count, skip) ==
    /\ r \in BState /\ BSame(r, s)
    /\ r.address = At(s, count, skip)
    /\ r.bound = s.bound \o BList(s, count, skip)
    /\ r.bad = (s.bad \/ BPast(kd, s, count, skip))

\* What a bind records is an entry.
LEMMA BTupleIs ==
    ASSUME NEW s \in BState, NEW a \in Nat
    PROVE  BTuple(s, a) \in BEntry
BY DEF BTuple, BState, BEntry

\* What dyld's loop over one opcode does, with the addresses in closed form.
LEMMA BTimes ==
    ASSUME NEW kd, NEW s \in BState, NEW count \in Nat, NEW skip \in Nat
    PROVE  BIsTimes(kd, Binding!BindTimes(kd, s, count, skip), s, count, skip)
<1> DEFINE r == Binding!BindTimes(kd, s, count, skip)
           b == s.bad \/ BPast(kd, s, count, skip)
           bs == s.bound \o BList(s, count, skip)
<1>0. s.address \in Nat
  BY WidthAssumption DEF BState
<1>1. \A i \in Nat : At(s, i, skip) \in 0..(DyldWord - 1)
  BY <1>0, AtType DEF At
<1>2. r = [s EXCEPT !.bound = bs, !.bad = b, !.address = At(s, count, skip)]
  BY DEF Binding!BindTimes, BList, BTuple, At, BPast, BChecked
<1>3. BList(s, count, skip) \in Seq(BEntry)
  <2>1. \A i \in 1..count : BTuple(s, At(s, i - 1, skip)) \in BEntry
    <3> TAKE i \in 1..count
    <3>1. At(s, i - 1, skip) \in 0..(DyldWord - 1)
      BY <1>1
    <3>2. At(s, i - 1, skip) \in Nat
      BY <3>1
    <3> QED BY <3>2, BTupleIs
  <2> QED BY <2>1 DEF BList
<1>4. bs \in Seq(BEntry)
  BY <1>3 DEF BState
<1>5. b \in BOOLEAN
  BY DEF BState, BPast, BChecked
<1> DEFINE a == At(s, count, skip)
<1>7. a \in 0..(DyldWord - 1)
  BY <1>1
<1> HIDE DEF b, r, bs, a
<1>8. r = [s EXCEPT !.bound = bs, !.bad = b, !.address = a]
  BY <1>2 DEF a
<1>6. r \in BState /\ BSame(r, s) /\ r.address = a /\ r.bound = bs /\ r.bad = b
  BY <1>4, <1>5, <1>7, <1>8 DEF BState, BSame
<1> QED BY <1>6 DEF b, r, a, bs, BIsTimes

\* dyld's variables, one by one.
LEMMA BStateEqual ==
    ASSUME NEW s \in BState, NEW t \in BState, s.address = t.address, BSame(s, t),
           s.bad = t.bad, s.bound = t.bound
    PROVE  s = t
<1>1. \A r \in BState : r = [address |-> r.address, segEnd |-> r.segEnd, type |-> r.type, sym |-> r.sym, flags |-> r.flags,
            ordinal |-> r.ordinal, addend |-> r.addend, fast |-> r.fast, bad |-> r.bad, names |-> r.names, bound |-> r.bound]
  BY DEF BState
<1>2. s = [address |-> s.address, segEnd |-> s.segEnd, type |-> s.type, sym |-> s.sym, flags |-> s.flags,
            ordinal |-> s.ordinal, addend |-> s.addend, fast |-> s.fast, bad |-> s.bad, names |-> s.names, bound |-> s.bound]
  BY <1>1
<1>3. t = [address |-> t.address, segEnd |-> t.segEnd, type |-> t.type, sym |-> t.sym, flags |-> t.flags,
            ordinal |-> t.ordinal, addend |-> t.addend, fast |-> t.fast, bad |-> t.bad, names |-> t.names, bound |-> t.bound]
  BY <1>1
<1> QED BY <1>2, <1>3 DEF BSame

\* A loop that runs no times does nothing.
LEMMA BTimesNone ==
    ASSUME NEW kd, NEW s \in BState, NEW skip \in Nat
    PROVE  Binding!BindTimes(kd, s, 0, skip) = s
<1> DEFINE r == Binding!BindTimes(kd, s, 0, skip)
<1>1. BIsTimes(kd, r, s, 0, skip)
  BY BTimes
<1> HIDE DEF r
<1>2. At(s, 0, skip) = s.address
  <2>1. s.address + 0 * (skip + PtrSize) = s.address /\ s.address \in 0..(DyldWord - 1)
    BY WidthAssumption DEF BState
  <2> QED BY <2>1, ModSmall, WidthAssumption DEF At
<1>3. s.bound \o BList(s, 0, skip) = s.bound
  <2>1. BList(s, 0, skip) = << >>
    BY DEF BList
  <2> QED BY <2>1 DEF BState
<1>4. r.bad = s.bad
  BY <1>1 DEF BState, BIsTimes, BPast
<1>5. r \in BState /\ BSame(r, s) /\ r.address = s.address /\ r.bound = s.bound
  BY <1>1, <1>2, <1>3 DEF BIsTimes
<1>6. r = s
  BY <1>4, <1>5, BStateEqual
<1> QED BY <1>6 DEF r

\* A loop that runs once more.
LEMMA BTimesNext ==
    ASSUME NEW kd, NEW s \in BState, NEW j \in Nat, NEW skip \in Nat
    PROVE  Binding!BindTimes(kd, Binding!BindTimes(kd, s, j, skip), 1, skip)
                = Binding!BindTimes(kd, s, j + 1, skip)
<1> DEFINE t == Binding!BindTimes(kd, s, j, skip)
           r == Binding!BindTimes(kd, t, 1, skip)
           q == Binding!BindTimes(kd, s, j + 1, skip)
<1>1. BIsTimes(kd, t, s, j, skip) /\ BIsTimes(kd, q, s, j + 1, skip)
  BY BTimes
<1>2. t \in BState
  BY <1>1 DEF BIsTimes
<1> HIDE DEF t
<1>3. BIsTimes(kd, r, t, 1, skip)
  BY <1>2, BTimes
<1> HIDE DEF r, q
<1>a. /\ r \in BState /\ q \in BState /\ BSame(t, s) /\ BSame(q, s) /\ BSame(r, t)
      /\ t.address = At(s, j, skip) /\ q.address = At(s, j + 1, skip) /\ r.address = At(t, 1, skip)
      /\ t.bound = s.bound \o BList(s, j, skip) /\ q.bound = s.bound \o BList(s, j + 1, skip)
      /\ r.bound = t.bound \o BList(t, 1, skip)
  BY <1>1, <1>3 DEF BIsTimes
<1>4. At(t, 0, skip) = At(s, j, skip)
  <2>1. t.address + 0 * (skip + PtrSize) = t.address /\ t.address \in 0..(DyldWord - 1)
    BY <1>2, WidthAssumption DEF BState
  <2>2. (t.address + 0 * (skip + PtrSize)) % DyldWord = t.address
    BY <2>1, ModSmall, WidthAssumption
  <2> QED BY <2>2, <1>a DEF At
<1>5. At(t, 1, skip) = At(s, j + 1, skip)
  <2>1. skip + PtrSize \in Nat /\ 1 * (skip + PtrSize) = skip + PtrSize
    BY WidthAssumption
  <2>2. s.address \in Nat
    BY DEF BState
  <2>3. (s.address + j * (skip + PtrSize)) % DyldWord = t.address
    BY <1>a DEF At
  <2>4. (t.address + (skip + PtrSize)) % DyldWord = (s.address + (j + 1) * (skip + PtrSize)) % DyldWord
    BY <2>2, <2>3, AtNext
  <2> QED BY <2>1, <2>4 DEF At
<1>b. t.segEnd = s.segEnd /\ t.fast = s.fast
  BY <1>a DEF BSame
<1>6. r.bad = q.bad
  <2>1. (\E i \in 1..1 : At(t, i - 1, skip) >= t.segEnd) <=> At(s, j, skip) >= s.segEnd
    <3>1. 1 - 1 = 0 /\ 1..1 = {1}
      OBVIOUS
    <3> QED BY <3>1, <1>b, <1>4
  <2>2. (\E i \in 1..(j + 1) : At(s, i - 1, skip) >= s.segEnd)
           <=> (\E i \in 1..j : At(s, i - 1, skip) >= s.segEnd) \/ At(s, j, skip) >= s.segEnd
    <3>1. (j + 1) - 1 = j /\ 1..(j + 1) = (1..j) \cup {j + 1}
      OBVIOUS
    <3> QED BY <3>1
  <2>3. r.bad \in BOOLEAN /\ q.bad \in BOOLEAN /\ s.bad \in BOOLEAN /\ t.bad \in BOOLEAN
    BY <1>a, <1>2 DEF BState
  <2>4. BChecked(kd, t) <=> BChecked(kd, s)
    BY <1>b DEF BChecked
  <2>5. BPast(kd, s, j + 1, skip) <=> BPast(kd, s, j, skip) \/ BPast(kd, t, 1, skip)
    BY <2>1, <2>2, <2>4 DEF BPast
  <2>6. /\ t.bad <=> s.bad \/ BPast(kd, s, j, skip)
        /\ q.bad <=> s.bad \/ BPast(kd, s, j + 1, skip)
        /\ r.bad <=> t.bad \/ BPast(kd, t, 1, skip)
    BY <1>1, <1>3, <2>3 DEF BIsTimes
  <2>7. r.bad <=> q.bad
    BY <2>5, <2>6
  <2> QED BY <2>3, <2>7
<1>7. r.bound = q.bound
  <2> DEFINE xs == BList(s, j, skip)
             ys == BList(t, 1, skip)
             zs == BList(s, j + 1, skip)
  <2>0. s.address \in Nat /\ t.address \in Nat
    BY <1>2, WidthAssumption DEF BState
  <2>1. \A i \in Nat : At(s, i, skip) \in Nat /\ At(t, i, skip) \in Nat
    <3> TAKE i \in Nat
    <3>1. At(s, i, skip) \in 0..(DyldWord - 1) /\ At(t, i, skip) \in 0..(DyldWord - 1)
      BY AtType, <2>0 DEF At
    <3> QED BY <3>1
  <2>2. xs \in Seq(BEntry) /\ ys \in Seq(BEntry) /\ zs \in Seq(BEntry)
        /\ Len(xs) = j /\ Len(ys) = 1 /\ Len(zs) = j + 1
    <3>1. \A i \in 1..j : BTuple(s, At(s, i - 1, skip)) \in BEntry
      <4> TAKE i \in 1..j
      <4>1. i - 1 \in Nat
        OBVIOUS
      <4> QED BY <4>1, <2>1, BTupleIs
    <3>2. \A i \in 1..(j + 1) : BTuple(s, At(s, i - 1, skip)) \in BEntry
      <4> TAKE i \in 1..(j + 1)
      <4>1. i - 1 \in Nat
        OBVIOUS
      <4> QED BY <4>1, <2>1, BTupleIs
    <3>3. \A i \in 1..1 : BTuple(t, At(t, i - 1, skip)) \in BEntry
      <4> TAKE i \in 1..1
      <4>1. i - 1 \in Nat
        OBVIOUS
      <4> QED BY <4>1, <1>2, <2>1, BTupleIs
    <3> QED BY <3>1, <3>2, <3>3 DEF BList
  <2>3. \A i \in 1..j : xs[i] = zs[i]
    BY DEF BList
  <2>4. ys[1] = zs[j + 1]
    <3>1. ys[1] = BTuple(t, At(t, 1 - 1, skip))
      BY DEF BList
    <3>2. zs[j + 1] = BTuple(s, At(s, (j + 1) - 1, skip))
      BY DEF BList
    <3>3. 1 - 1 = 0 /\ (j + 1) - 1 = j
      OBVIOUS
    <3>4. \A a : BTuple(t, a) = BTuple(s, a)
      BY <1>a DEF BTuple, BSame
    <3> QED BY <3>1, <3>2, <3>3, <3>4, <1>4
  <2> HIDE DEF xs, ys, zs
  <2>5. s.bound \in Seq(BEntry)
    BY DEF BState
  <2>6. (s.bound \o xs) \o ys = s.bound \o zs
    <3>1. xs \in Seq(BEntry) /\ ys \in Seq(BEntry) /\ zs \in Seq(BEntry)
          /\ Len(ys) = 1 /\ Len(zs) = Len(xs) + 1
      BY <2>2
    <3>2. \A i \in 1..Len(xs) : xs[i] = zs[i]
      BY <2>2, <2>3
    <3>3. ys[1] = zs[Len(xs) + 1]
      BY <2>2, <2>4
    <3>4. xs \o ys = zs
      BY <3>1, <3>2, <3>3, ConcatLast, Zenon
    <3> DEFINE rb == s.bound
    <3>5. rb \in Seq(BEntry)
      BY <2>5
    <3>6. xs \in Seq(BEntry) /\ ys \in Seq(BEntry)
      BY <3>1
    <3> HIDE DEF rb
    <3>7. (rb \o xs) \o ys = rb \o (xs \o ys)
      BY <3>5, <3>6, ConcatAssoc
    <3> QED BY <3>4, <3>7 DEF rb
  <2> QED BY <2>6, <1>a DEF xs, ys, zs
<1>8. BSame(r, q) /\ r.address = q.address
  BY <1>a, <1>5 DEF BSame
<1>9. r = q
  BY <1>a, <1>6, <1>7, <1>8, BStateEqual
<1> QED BY <1>9 DEF t, r, q

\* The opcodes that set the library.
BOrdinals == {"SET_DYLIB_ORDINAL_IMM", "SET_DYLIB_ORDINAL_ULEB", "SET_DYLIB_SPECIAL_IMM"}

\* An opcode that ld may write: dyld of this table knows it, and what goes into
\* the byte of the opcode fits there.
BOk(kd, l, o) ==
    /\ o \in BOp /\ o.op # "DONE" /\ Binding!Known(kd, o.op)
    /\ o.op \in {"SET_DYLIB_ORDINAL_IMM", "SET_SYMBOL_TRAILING_FLAGS_IMM", "SET_TYPE_IMM",
                 "DO_BIND_ADD_ADDR_IMM_SCALED"} => o.a \in 0..(Imm - 1)
    /\ o.op = "SET_DYLIB_SPECIAL_IMM" => -Imm < o.a /\ o.a <= 0
    /\ o.op = "SET_SEGMENT_AND_OFFSET_ULEB" => o.a \in 0..(Len(l) - 2)
    /\ o.op \in {"DO_BIND"} => o.a = 0
    /\ o.op \notin {"SET_DYLIB_SPECIAL_IMM", "SET_ADDEND_SLEB"} => o.a \in Nat
    /\ o.op \notin {"SET_SYMBOL_TRAILING_FLAGS_IMM", "SET_SEGMENT_AND_OFFSET_ULEB",
                    "DO_BIND_ULEB_TIMES_SKIPPING_ULEB"} => o.b = 0

\* The first c of the entries are bound.
BBinds(s, all, c) ==
    Len(s.bound) = c /\ \A k \in 1..c : Binding!Tuple(s.bound[k]) = Binding!Tuple(all[k])

\* What WeakNamesSorted asks of a state.
BNames(s) ==
    /\ \A i, j \in 1..Len(s.names) : i < j => s.names[i] < s.names[j]
    /\ \A k \in 1..Len(s.bound) : (s.bound[k].flags = 2) <=> (s.bound[k].sym \in Overrides)

\* dyld has bound the first entries of the table.
BStates(kd, all) ==
    {s \in BState : /\ ~s.bad /\ s.fast = 0 /\ (kd = "weak" => BNames(s))
                    /\ \E c \in 0..Len(all) : BBinds(s, all, c)}

\* t follows the opcodes from i to j.
BTrace(kd, l, all, ops, t, i, j) ==
    \A k \in (i + 1)..j :
        BOk(kd, l, ops[k]) /\ t[k] \in BStates(kd, all) /\ t[k] = Binding!Run1(kd, l, t[k - 1], ops[k])

\* What the opcodes that set the library do, in the tables that have them.
LEMMA BRunOrdinal ==
    ASSUME NEW kd, NEW l, NEW s, NEW o, Binding!Known(kd, o.op), o.op \in BOrdinals
    PROVE  Binding!Run1(kd, l, s, o) = [s EXCEPT !.ordinal = o.a]
BY DEF Binding!Run1, Binding!ReadUleb, BOrdinals

\* What the opcode that sets the type does.
LEMMA BRunType ==
    ASSUME NEW kd, NEW l, NEW s, NEW o, Binding!Known(kd, o.op), o.op = "SET_TYPE_IMM"
    PROVE  Binding!Run1(kd, l, s, o) = [s EXCEPT !.type = o.a]
BY DEF Binding!Run1, Binding!ReadUleb

\* What the opcode that sets the addend does.
LEMMA BRunAddend ==
    ASSUME NEW kd, NEW l, NEW s, NEW o, Binding!Known(kd, o.op), o.op = "SET_ADDEND_SLEB"
    PROVE  Binding!Run1(kd, l, s, o) = [s EXCEPT !.addend = o.a]
BY DEF Binding!Run1, Binding!ReadUleb

\* What the opcode that adds to the address does.
LEMMA BRunAdd ==
    ASSUME NEW kd, NEW l, NEW s, NEW o, Binding!Known(kd, o.op), o.op = "ADD_ADDR_ULEB"
    PROVE  Binding!Run1(kd, l, s, o) = [s EXCEPT !.address = (s.address + (o.a % DyldWord)) % DyldWord]
BY DEF Binding!Run1, Binding!ReadUleb

\* What the opcode that binds does.
LEMMA BRunDo ==
    ASSUME NEW kd, NEW l, NEW s, NEW o, Binding!Known(kd, o.op), o.op = "DO_BIND"
    PROVE  Binding!Run1(kd, l, s, o) = Binding!BindTimes(kd, s, 1, 0)
BY DEF Binding!Run1, Binding!ReadUleb

\* What the opcode that binds and adds does.
LEMMA BRunDoAdd ==
    ASSUME NEW kd, NEW l, NEW s, NEW o, Binding!Known(kd, o.op), o.op = "DO_BIND_ADD_ADDR_ULEB"
    PROVE  Binding!Run1(kd, l, s, o) = Binding!BindTimes(kd, s, 1, o.a % DyldWord)
BY DEF Binding!Run1, Binding!ReadUleb

\* What the opcode that binds and adds a few pointers does.
LEMMA BRunDoScaled ==
    ASSUME NEW kd, NEW l, NEW s, NEW o, Binding!Known(kd, o.op), o.op = "DO_BIND_ADD_ADDR_IMM_SCALED"
    PROVE  Binding!Run1(kd, l, s, o) = Binding!BindTimes(kd, s, 1, o.a * PtrSize)
BY DEF Binding!Run1, Binding!ReadUleb

\* What the opcode that binds and skips repeatedly does.
LEMMA BRunDoSkip ==
    ASSUME NEW kd, NEW l, NEW s, NEW o, Binding!Known(kd, o.op), o.op = "DO_BIND_ULEB_TIMES_SKIPPING_ULEB"
    PROVE  Binding!Run1(kd, l, s, o) = Binding!BindTimes(kd, s, o.a, o.b % DyldWord)
BY DEF Binding!Run1, Binding!ReadUleb

\* What the opcode that ends the table does.
LEMMA BRunDone ==
    ASSUME NEW kd \in {"bind", "weak", "lazy"}, NEW l, NEW s, NEW o, o.op = "DONE"
    PROVE  Binding!Run1(kd, l, s, o) = s
BY DEF Binding!Run1, Binding!Known

\* k opcodes that bind once, skip apart.
BRunOf(kd, t, i, k, skip) == \A j \in 1..k : t[i + j] = Binding!BindTimes(kd, t[i + j - 1], 1, skip)

\* k opcodes that bind once do what one that binds k times does.
LEMMA BCombine ==
    ASSUME NEW kd, NEW t, NEW i \in Nat, NEW k \in Nat, NEW skip \in Nat, t[i] \in BState,
           BRunOf(kd, t, i, k, skip)
    PROVE  t[i + k] = Binding!BindTimes(kd, t[i], k, skip)
<1> DEFINE P(j) == j <= k => t[i + j] = Binding!BindTimes(kd, t[i], j, skip)
<1>1. P(0)
  <2>1. i + 0 = i
    OBVIOUS
  <2> QED BY <2>1, BTimesNone
<1>2. ASSUME NEW j \in Nat, P(j) PROVE P(j + 1)
  <2> SUFFICES ASSUME j + 1 <= k PROVE t[i + (j + 1)] = Binding!BindTimes(kd, t[i], j + 1, skip)
    OBVIOUS
  <2>1. t[i + j] = Binding!BindTimes(kd, t[i], j, skip)
    BY <1>2
  <2>2. j + 1 \in 1..k /\ i + (j + 1) - 1 = i + j
    OBVIOUS
  <2>3. t[i + (j + 1)] = Binding!BindTimes(kd, t[i + j], 1, skip)
    BY <2>2 DEF BRunOf
  <2> QED BY <2>1, <2>3, BTimesNext
<1>3. \A j \in Nat : P(j)
  <2> DEFINE T == {j \in Nat : P(j)}
  <2> HIDE DEF P
  <2>1. 0 \in T /\ \A j \in Nat : j \in T => j + 1 \in T
    BY <1>1, <1>2
  <2> HIDE DEF T
  <2>2. Nat \subseteq T
    BY <2>1, SetInduction
  <2> QED BY <2>2 DEF T
<1> QED BY <1>3

\* The loop of a pass over opcodes that look alike ends before the array's DONE.
LEMMA BRunLength ==
    ASSUME NEW delta, NEW D, Len(mid) \in Nat, src \in Nat, D \in src..Len(mid), mid[D].op = "DONE"
    PROVE  /\ Binding!RunLength(delta) \in 0..(D - src)
           /\ ~Binding!IsSkip(mid[src + Binding!RunLength(delta)], delta)
           /\ \A j \in 0..(Binding!RunLength(delta) - 1) : Binding!IsSkip(mid[src + j], delta)
<1> DEFINE T == {k \in 0..(Len(mid) - src) : ~Binding!IsSkip(mid[src + k], delta)}
           m == Binding!RunLength(delta)
<1>0. Len(mid) \in Nat /\ D \in Nat /\ src <= D /\ D <= Len(mid)
  OBVIOUS
<1>1. D - src \in T
  <2>1. src + (D - src) = D /\ D - src \in 0..(Len(mid) - src)
    BY <1>0
  <2>2. ~Binding!IsSkip(mid[D], delta)
    BY DEF Binding!IsSkip
  <2> QED BY <2>1, <2>2
<1>2. T \subseteq Nat
  BY <1>0
<1>3. m = First(T)
  BY DEF Binding!RunLength, Binding!First, First
<1> HIDE DEF m, T
<1>4. m \in T /\ \A k \in T : m <= k
  BY <1>1, <1>2, <1>3, MinLeast
<1>5. m \in 0..(Len(mid) - src) /\ ~Binding!IsSkip(mid[src + m], delta)
  BY <1>4 DEF T
<1>6. m <= D - src
  BY <1>1, <1>4
<1>7. \A j \in 0..(m - 1) : Binding!IsSkip(mid[src + j], delta)
  <2> TAKE j \in 0..(m - 1)
  <2>1. j \in Nat /\ ~(m <= j) /\ j \in 0..(Len(mid) - src)
    BY <1>0, <1>5
  <2>2. j \notin T
    BY <2>1, <1>4
  <2> QED BY <2>1, <2>2 DEF T
<1>8. m \in 0..(D - src)
  BY <1>0, <1>5, <1>6
<1> QED BY <1>5, <1>7, <1>8 DEF m

\* Only the residue of the distance to the next address matters.
LEMMA BTimesResidue ==
    ASSUME NEW kd, NEW s \in BState, NEW x \in Nat
    PROVE  Binding!BindTimes(kd, s, 1, x % DyldWord) = Binding!BindTimes(kd, s, 1, x)
<1> DEFINE b == x % DyldWord
           r == Binding!BindTimes(kd, s, 1, b)
           q == Binding!BindTimes(kd, s, 1, x)
<1>1. b \in Nat
  <2>1. b \in 0..(DyldWord - 1)
    BY DivDef, WidthAssumption
  <2> QED BY <2>1
<1>2. s.address \in Nat /\ PtrSize \in Nat /\ DyldWord \in Nat \ {0}
  BY WidthAssumption DEF BState
<1>3. At(s, 1, b) = At(s, 1, x)
  <2> DEFINE y == s.address + PtrSize
  <2>1. y \in Int /\ x \in Int
    BY <1>2
  <2> HIDE DEF y
  <2>2. (y + (x % DyldWord)) % DyldWord = (y + x) % DyldWord
    BY <2>1, <1>2, ModAdd
  <2>3. s.address + 1 * (b + PtrSize) = y + b /\ s.address + 1 * (x + PtrSize) = y + x
    <3> HIDE DEF b
    <3> QED BY <1>1, <1>2 DEF y
  <2> QED BY <2>2, <2>3 DEF At
<1> HIDE DEF b
<1>4. \A i \in 1..1 : At(s, i - 1, b) = At(s, i - 1, x)
  <2>1. \A i \in 1..1 : i - 1 = 0
    OBVIOUS
  <2>2. 0 * (b + PtrSize) = 0 /\ 0 * (x + PtrSize) = 0
    BY <1>1, <1>2
  <2> QED BY <2>1, <2>2 DEF At
<1>5. BIsTimes(kd, r, s, 1, b) /\ BIsTimes(kd, q, s, 1, x)
  BY <1>1, BTimes
<1> HIDE DEF r, q
<1>6. BList(s, 1, b) = BList(s, 1, x) /\ (BPast(kd, s, 1, b) <=> BPast(kd, s, 1, x))
  BY <1>4 DEF BList, BPast
<1>7. r.bad = q.bad
  <2>1. r.bad \in BOOLEAN /\ q.bad \in BOOLEAN
    BY <1>5 DEF BIsTimes, BState
  <2>2. r.bad <=> q.bad
    BY <2>1, <1>5, <1>6 DEF BIsTimes
  <2> QED BY <2>1, <2>2
<1>8. r = q
  <2>1. r \in BState /\ q \in BState /\ BSame(r, q) /\ r.address = q.address /\ r.bound = q.bound
    BY <1>3, <1>5, <1>6 DEF BIsTimes, BSame
  <2> QED BY <2>1, <1>7, BStateEqual
<1> QED BY <1>8 DEF r, q, b

(****************************************************************************)
(* The bind and the weak table: the passes of encode                        *)
(****************************************************************************)

\* A pass reads at src, and D is the first DONE from there on.
BReads(all, u, D) ==
    /\ mid \in Seq(BOp) /\ src \in Nat \ {0} /\ D \in (src + 1)..Len(mid) /\ mid[D].op = "DONE"
    /\ u[src - 1] \in BStates(kind, all) /\ BTrace(kind, layout, all, mid, u, src - 1, D - 1)

\* A step of a pass that keeps the meaning: what it writes does what it has read.
BStepOk(r, u, D) ==
    /\ r.take \in Nat \ {0} /\ src + r.take <= D /\ BOk(kind, layout, r.put)
    /\ Binding!Run1(kind, layout, u[src - 1], r.put) = u[src + r.take - 1]

\* What is known of an opcode that a pass has still to read.
LEMMA BReadsAt ==
    ASSUME NEW all, NEW u, NEW D, BReads(all, u, D), NEW k \in src..(D - 1)
    PROVE  /\ k \in 1..Len(mid) /\ mid[k] \in BOp /\ BOk(kind, layout, mid[k])
           /\ u[k] \in BState /\ u[k - 1] \in BState
           /\ u[k] = Binding!Run1(kind, layout, u[k - 1], mid[k])
<1>1. D \in Nat /\ Len(mid) \in Nat /\ src \in Nat /\ src >= 1 /\ D <= Len(mid)
  BY DEF BReads
<1>2. k \in 1..Len(mid) /\ k \in ((src - 1) + 1)..(D - 1)
  BY <1>1
<1>3. BOk(kind, layout, mid[k]) /\ u[k] \in BStates(kind, all) /\ u[k] = Binding!Run1(kind, layout, u[k - 1], mid[k])
  BY <1>2 DEF BReads, BTrace
<1>4. u[k - 1] \in BStates(kind, all)
  <2>1. CASE k = src
    BY <2>1 DEF BReads
  <2>2. CASE k # src
    <3>1. k - 1 \in ((src - 1) + 1)..(D - 1)
      BY <2>2, <1>1
    <3> QED BY <3>1 DEF BReads, BTrace
  <2> QED BY <2>1, <2>2
<1> QED BY <1>2, <1>3, <1>4 DEF BStates, BOk

\* A pass that copies an opcode keeps its meaning.
LEMMA BOneStep ==
    ASSUME NEW all, NEW u, NEW D, BReads(all, u, D)
    PROVE  BStepOk(Binding!One, u, D)
<1>1. src \in src..(D - 1) /\ src \in Nat /\ D \in Nat /\ src + 1 <= D /\ src + 1 - 1 = src
  BY DEF BReads
<1>2. BOk(kind, layout, mid[src]) /\ u[src] = Binding!Run1(kind, layout, u[src - 1], mid[src])
  BY <1>1, BReadsAt
<1>3. Binding!One.take = 1 /\ Binding!One.put = mid[src]
  BY DEF Binding!One
<1> QED BY <1>1, <1>2, <1>3 DEF BStepOk

\* A bind and an addition after it are a bind that adds as much.
LEMMA BTimesAdd ==
    ASSUME NEW kd, NEW s \in BState, NEW b \in Nat, NEW x, x = Binding!BindTimes(kd, s, 1, 0),
           NEW y \in BState, y = [x EXCEPT !.address = (x.address + b) % DyldWord]
    PROVE  y = Binding!BindTimes(kd, s, 1, b)
<1> DEFINE z == Binding!BindTimes(kd, s, 1, b)
<1>1. BIsTimes(kd, x, s, 1, 0) /\ BIsTimes(kd, z, s, 1, b)
  BY BTimes
<1> HIDE DEF z
<1>2. x \in BState /\ z \in BState
  BY <1>1 DEF BIsTimes
<1>3. BSame(y, x) /\ y.bad = x.bad /\ y.bound = x.bound /\ y.address = (x.address + b) % DyldWord
  BY <1>2 DEF BState, BSame
<1>4. At(s, 0, 0) = At(s, 0, b)
  <2>1. 0 * (0 + PtrSize) = 0 /\ 0 * (b + PtrSize) = 0
    BY WidthAssumption
  <2> QED BY <2>1 DEF At
<1>5. \A i \in 1..1 : At(s, i - 1, 0) = At(s, i - 1, b)
  <2>1. \A i \in 1..1 : i - 1 = 0
    OBVIOUS
  <2> QED BY <2>1, <1>4
<1>6. BList(s, 1, 0) = BList(s, 1, b) /\ (BPast(kd, s, 1, 0) <=> BPast(kd, s, 1, b))
  BY <1>5 DEF BList, BPast
<1>7. x.bad = z.bad
  <2>1. x.bad \in BOOLEAN /\ z.bad \in BOOLEAN
    BY <1>2 DEF BState
  <2>2. x.bad <=> z.bad
    BY <2>1, <1>1, <1>6 DEF BIsTimes
  <2> QED BY <2>1, <2>2
<1>8. x.bound = z.bound /\ BSame(x, z)
  BY <1>1, <1>6 DEF BIsTimes, BSame
<1>9. (x.address + b) % DyldWord = z.address
  <2>1. x.address = At(s, 1, 0) /\ z.address = At(s, 1, b)
    BY <1>1 DEF BIsTimes
  <2>2. s.address \in Nat /\ PtrSize \in Nat /\ DyldWord \in Nat \ {0}
    BY WidthAssumption DEF BState
  <2>3. At(s, 1, 0) = (s.address + PtrSize) % DyldWord
    BY <2>2 DEF At
  <2>4. At(s, 1, b) = ((s.address + PtrSize) + b) % DyldWord
    <3>1. s.address + 1 * (b + PtrSize) = (s.address + PtrSize) + b
      BY <2>2
    <3> QED BY <3>1 DEF At
  <2>5. (((s.address + PtrSize) % DyldWord) + b) % DyldWord = ((s.address + PtrSize) + b) % DyldWord
    <3>1. s.address + PtrSize \in Int /\ b \in Int
      BY <2>2
    <3> QED BY <3>1, <2>2, ModAdd
  <2> QED BY <2>1, <2>3, <2>4, <2>5
<1>10. BSame(y, z) /\ y.bad = z.bad /\ y.bound = z.bound /\ y.address = z.address
  BY <1>3, <1>7, <1>8, <1>9 DEF BSame
<1>11. y = z
  BY <1>2, <1>10, BStateEqual
<1> QED BY <1>11 DEF z

\* Phase 1 of encode keeps the meaning: a bind and the addition after it become one opcode.
LEMMA BPairsStep ==
    ASSUME kind \in {"bind", "weak"}, NEW all, NEW u, NEW D, BReads(all, u, D)
    PROVE  BStepOk(Binding!Pairs, u, D)
<1> DEFINE c == mid[src].op = "DO_BIND" /\ mid[src + 1].op = "ADD_ADDR_ULEB"
<1>1. CASE ~c
  <2>1. Binding!Pairs = Binding!One
    BY <1>1 DEF Binding!Pairs
  <2> QED BY <2>1, BOneStep
<1>2. CASE c
  <2> DEFINE a == mid[src + 1].a
             s == u[src - 1]
             put == Binding!Op("DO_BIND_ADD_ADDR_ULEB", a, 0)
  <2>1. Binding!Pairs = [take |-> 2, put |-> put]
    BY <1>2 DEF Binding!Pairs
  <2>2. src \in Nat /\ D \in Nat /\ src >= 1 /\ src + 1 <= D /\ src \in src..(D - 1) /\ mid[D].op = "DONE"
    BY DEF BReads
  <2>3. src + 1 \in src..(D - 1) /\ src + 2 <= D /\ (src + 1) - 1 = src /\ src + 2 - 1 = src + 1
    <3>1. src + 1 # D
      BY <1>2, <2>2
    <3> QED BY <3>1, <2>2
  <2>4. s \in BState /\ u[src] \in BState /\ u[src] = Binding!Run1(kind, layout, s, mid[src])
        /\ BOk(kind, layout, mid[src])
    BY <2>2, BReadsAt
  <2>5. /\ mid[src + 1] \in BOp /\ u[src + 1] \in BState
        /\ u[src + 1] = Binding!Run1(kind, layout, u[src], mid[src + 1])
        /\ BOk(kind, layout, mid[src + 1])
    BY <2>3, BReadsAt
  <2>6. a \in Nat
    BY <1>2, <2>5 DEF BOk
  <2>7. u[src] = Binding!BindTimes(kind, s, 1, 0)
    BY <1>2, <2>4, BRunDo DEF BOk
  <2>8. u[src + 1] = [u[src] EXCEPT !.address = (u[src].address + (a % DyldWord)) % DyldWord]
    BY <1>2, <2>5, BRunAdd DEF BOk
  <2>9. put.op = "DO_BIND_ADD_ADDR_ULEB" /\ put.a = a /\ put.b = 0 /\ put \in BOp
    BY <2>6, BCodes DEF Binding!Op, BOp
  <2> HIDE DEF put, a, s, c
  <2>10. Binding!Known(kind, put.op)
    BY <2>9 DEF Binding!Known
  <2>11. BOk(kind, layout, put)
    BY <2>6, <2>9, <2>10 DEF BOk
  <2> DEFINE b == a % DyldWord
  <2>12. b \in Nat
    <3>1. b \in 0..(DyldWord - 1)
      BY <2>6, DivDef, WidthAssumption
    <3> QED BY <3>1
  <2>13. Binding!Run1(kind, layout, s, put) = Binding!BindTimes(kind, s, 1, b)
    BY <2>9, <2>10, BRunDoAdd
  <2>14. u[src + 1] = [u[src] EXCEPT !.address = (u[src].address + b) % DyldWord]
    BY <2>8
  <2> HIDE DEF b
  <2>15. u[src + 1] = Binding!BindTimes(kind, s, 1, b)
    BY <2>4, <2>5, <2>7, <2>12, <2>14, BTimesAdd
  <2>16. Binding!Pairs.take = 2 /\ Binding!Pairs.put = put
    BY <2>1
  <2>17. Binding!Run1(kind, layout, u[src - 1], put) = u[src + 1]
    BY <2>13, <2>15 DEF s
  <2> QED BY <2>2, <2>3, <2>11, <2>16, <2>17 DEF BStepOk
<1> QED BY <1>1, <1>2

\* Phase 2 keeps the meaning: opcodes with one delta become one that skips.
LEMMA BSkipsStep ==
    ASSUME kind \in {"bind", "weak"}, NEW all, NEW u, NEW D, BReads(all, u, D)
    PROVE  BStepOk(Binding!Skips, u, D)
<1> DEFINE c == Binding!IsSkip(mid[src], mid[src].a) /\ Binding!IsSkip(mid[src + 1], mid[src].a)
<1>1. CASE ~c
  <2>1. Binding!Skips = Binding!One
    BY <1>1 DEF Binding!Skips
  <2> QED BY <2>1, BOneStep
<1>2. CASE c
  <2> DEFINE a == mid[src].a
             k == Binding!RunLength(a)
             i == src - 1
             put == Binding!Op("DO_BIND_ULEB_TIMES_SKIPPING_ULEB", k, a)
  <2>1. mid \in Seq(BOp) /\ src \in Nat /\ D \in Nat /\ src >= 1 /\ src + 1 <= D /\ D <= Len(mid)
        /\ D \in src..Len(mid) /\ Len(mid) \in Nat /\ mid[D].op = "DONE" /\ src \in src..(D - 1)
    BY DEF BReads
  <2>2. Binding!IsSkip(mid[src], a)
    BY <1>2
  <2>3. /\ k \in 0..(D - src) /\ ~Binding!IsSkip(mid[src + k], a)
        /\ \A j \in 0..(k - 1) : Binding!IsSkip(mid[src + j], a)
    BY <2>1, BRunLength
  <2>4. Binding!Skips = [take |-> k, put |-> put]
    BY <1>2 DEF Binding!Skips
  <2> HIDE DEF k, c
  <2>5. k # 0 /\ k \in Nat /\ src + k <= D
    <3>1. k \in Nat /\ src + k <= D
      BY <2>1, <2>3
    <3>2. k = 0 => src + k = src
      BY <2>1
    <3> QED BY <3>1, <3>2, <2>2, <2>3
  <2>6. \A j \in 1..k : i + j \in src..(D - 1) /\ Binding!IsSkip(mid[i + j], a)
    <3> TAKE j \in 1..k
    <3>1. j - 1 \in 0..(k - 1) /\ src + (j - 1) = i + j /\ i + j \in src..(D - 1)
      BY <2>1, <2>5
    <3> QED BY <3>1, <2>3
  <2>7. u[i] \in BState /\ i \in Nat /\ a \in Nat
    <3>1. BOk(kind, layout, mid[src])
      BY <2>1, BReadsAt
    <3>2. a \in Nat
      BY <2>2, <3>1 DEF BOk, Binding!IsSkip
    <3> QED BY <2>1, <3>2 DEF BReads, BStates
  <2> HIDE DEF i, a
  <2>8. \A j \in 1..k : mid[i + j].op = "DO_BIND_ADD_ADDR_ULEB" /\ mid[i + j].a = a
    BY <2>6 DEF Binding!IsSkip
  <2> DEFINE b == a % DyldWord
  <2>9. b \in Nat
    <3>1. b \in 0..(DyldWord - 1)
      BY <2>7, DivDef, WidthAssumption
    <3> QED BY <3>1
  <2>10. \A j \in 1..k : u[i + j] = Binding!BindTimes(kind, u[i + j - 1], 1, b)
    <3> TAKE j \in 1..k
    <3> DEFINE q == i + j
    <3>1. q \in src..(D - 1) /\ mid[q].op = "DO_BIND_ADD_ADDR_ULEB" /\ mid[q].a = a
      BY <2>6, <2>8
    <3> HIDE DEF q
    <3>2. u[q] = Binding!Run1(kind, layout, u[q - 1], mid[q]) /\ Binding!Known(kind, mid[q].op)
      BY <3>1, BReadsAt DEF BOk
    <3>3. u[q] = Binding!BindTimes(kind, u[q - 1], 1, b)
      BY <3>1, <3>2, BRunDoAdd
    <3> HIDE DEF b
    <3> QED BY <3>3, <2>7 DEF q
  <2>a. put.op = "DO_BIND_ULEB_TIMES_SKIPPING_ULEB" /\ put.a = k /\ put.b = a /\ put \in BOp
    BY <2>5, <2>7, BCodes DEF Binding!Op, BOp
  <2> HIDE DEF put
  <2>b. Binding!Known(kind, put.op)
    BY <2>a DEF Binding!Known
  <2>11. Binding!Run1(kind, layout, u[i], put) = Binding!BindTimes(kind, u[i], k, b)
    BY <2>a, <2>b, BRunDoSkip
  <2> HIDE DEF b
  <2>12. u[i + k] = Binding!BindTimes(kind, u[i], k, b)
    <3>1. k \in Nat
      BY <2>5
    <3>2. BRunOf(kind, u, i, k, b)
      BY <2>10 DEF BRunOf
    <3> QED BY <3>1, <3>2, <2>7, <2>9, BCombine
  <2>13. BOk(kind, layout, put)
    BY <2>5, <2>a, <2>b DEF BOk
  <2>14. Binding!Skips.take = k /\ Binding!Skips.put = put
    BY <2>4
  <2>15. src + k - 1 = i + k
    BY <2>1, <2>5 DEF i
  <2> QED BY <2>5, <2>11, <2>12, <2>13, <2>14, <2>15 DEF BStepOk, i
<1> QED BY <1>1, <1>2

\* Phase 3 keeps the meaning: small operands go into the byte of the opcode.
LEMMA BImmediatesStep ==
    ASSUME kind \in {"bind", "weak"}, NEW all, NEW u, NEW D, BReads(all, u, D)
    PROVE  BStepOk(Binding!Immediates, u, D)
<1> DEFINE o == mid[src]
           s == u[src - 1]
           add == o.op = "DO_BIND_ADD_ADDR_ULEB" /\ o.a < (Imm - 1) * PtrSize /\ o.a % PtrSize = 0
           few == o.op = "SET_DYLIB_ORDINAL_ULEB" /\ o.a <= Imm - 1
           scaled == Binding!Op("DO_BIND_ADD_ADDR_IMM_SCALED", o.a \div PtrSize, 0)
           short == [o EXCEPT !.op = "SET_DYLIB_ORDINAL_IMM"]
           put == Binding!Immediates.put
<1>1. /\ Binding!Immediates.take = 1
      /\ put = IF add THEN scaled ELSE IF few THEN short ELSE o
  BY DEF Binding!Immediates
<1>2. src \in src..(D - 1) /\ src \in Nat /\ D \in Nat /\ src + 1 <= D /\ src + 1 - 1 = src
  BY DEF BReads
<1>3. o \in BOp /\ BOk(kind, layout, o) /\ s \in BState /\ u[src] = Binding!Run1(kind, layout, s, o)
  BY <1>2, BReadsAt
<1>4. Binding!Known(kind, o.op)
  BY <1>3 DEF BOk
<1>5. CASE add
  <2>0. o.a \in Nat
    BY <1>3, <1>5 DEF BOk
  <2>1. o.a \div PtrSize \in Nat /\ o.a \div PtrSize < Imm /\ (o.a \div PtrSize) * PtrSize = o.a
    BY <2>0, <1>5, Scaled
  <2>2. scaled.op = "DO_BIND_ADD_ADDR_IMM_SCALED" /\ scaled.a = o.a \div PtrSize /\ scaled.b = 0 /\ scaled \in BOp
    BY <2>1, BCodes DEF Binding!Op, BOp
  <2> HIDE DEF scaled
  <2>3. Binding!Known(kind, scaled.op)
    BY <2>2 DEF Binding!Known
  <2>4. BOk(kind, layout, scaled)
    BY <2>1, <2>2, <2>3, WidthAssumption DEF BOk
  <2>5. Binding!Run1(kind, layout, s, scaled) = Binding!BindTimes(kind, s, 1, o.a)
    BY <2>1, <2>2, <2>3, BRunDoScaled
  <2>6. u[src] = Binding!BindTimes(kind, s, 1, o.a % DyldWord)
    BY <1>3, <1>4, <1>5, BRunDoAdd
  <2>7. put = scaled
    BY <1>1, <1>5
  <2>8. u[src] = Binding!Run1(kind, layout, s, scaled)
    BY <2>0, <2>5, <2>6, <1>3, BTimesResidue
  <2> QED BY <1>1, <1>2, <2>4, <2>7, <2>8 DEF BStepOk
<1>6. CASE ~add /\ few
  <2>1. short.op = "SET_DYLIB_ORDINAL_IMM" /\ short.a = o.a /\ short.b = o.b /\ short \in BOp
    BY <1>3, BCodes DEF BOp
  <2>2. o.b = 0 /\ o.a \in 0..(Imm - 1)
    BY <1>3, <1>6, WidthAssumption DEF BOk
  <2> HIDE DEF short
  <2>3. Binding!Known(kind, short.op)
    BY <1>4, <1>6, <2>1 DEF Binding!Known
  <2>4. BOk(kind, layout, short)
    BY <2>1, <2>2, <2>3 DEF BOk
  <2>5. Binding!Run1(kind, layout, s, short) = u[src]
    BY <1>3, <1>4, <1>6, <2>1, <2>3, BRunOrdinal DEF BOrdinals
  <2>6. put = short
    BY <1>1, <1>6
  <2> QED BY <1>1, <1>2, <2>4, <2>5, <2>6 DEF BStepOk
<1>7. CASE ~add /\ ~few
  <2>1. put = o
    BY <1>1, <1>7
  <2> QED BY <1>1, <1>2, <1>3, <2>1 DEF BStepOk
<1> QED BY <1>5, <1>6, <1>7

\* w follows the opcodes that a pass has written before ds, u the ones from sr
\* to the DONE at D that it has still to read.
BPass(kd, l, all, ops, sr, ds, w, u, D) ==
    /\ ops \in Seq(BOp) /\ sr \in Nat \ {0} /\ ds \in 1..sr /\ D \in sr..Len(ops) /\ ops[D].op = "DONE"
    /\ w[0] = Binding!Dyld0(kd, l) /\ w[0] \in BStates(kd, all) /\ BTrace(kd, l, all, ops, w, 0, ds - 1)
    /\ u[sr - 1] = w[ds - 1] /\ BTrace(kd, l, all, ops, u, sr - 1, D - 1)
    /\ BBinds(u[D - 1], all, Len(all))

\* Every state that the opcodes lead to is one of dyld reading the table.
LEMMA BPassStates ==
    ASSUME NEW kd, NEW l, NEW all, NEW ops, NEW sr, NEW ds, NEW w, NEW u, NEW D,
           BPass(kd, l, all, ops, sr, ds, w, u, D)
    PROVE  /\ \A k \in 0..(ds - 1) : w[k] \in BStates(kd, all)
           /\ \A k \in (sr - 1)..(D - 1) : u[k] \in BStates(kd, all)
<1>1. sr \in Nat \ {0} /\ ds \in Nat \ {0} /\ D \in Nat /\ sr <= D /\ Len(ops) \in Nat
  BY DEF BPass
<1>2. ASSUME NEW k \in 0..(ds - 1) PROVE w[k] \in BStates(kd, all)
  <2>1. CASE k = 0
    BY <2>1 DEF BPass
  <2>2. CASE k # 0
    <3>1. k \in (0 + 1)..(ds - 1)
      BY <1>1, <2>2
    <3> QED BY <3>1 DEF BPass, BTrace
  <2> QED BY <2>1, <2>2
<1>3. ASSUME NEW k \in (sr - 1)..(D - 1) PROVE u[k] \in BStates(kd, all)
  <2>1. CASE k = sr - 1
    <3>1. ds - 1 \in 0..(ds - 1)
      BY <1>1
    <3>2. w[ds - 1] \in BStates(kd, all)
      BY <1>2, <3>1
    <3> QED BY <2>1, <3>2 DEF BPass
  <2>2. CASE k # sr - 1
    <3>1. k \in ((sr - 1) + 1)..(D - 1)
      BY <1>1, <2>2
    <3> QED BY <3>1 DEF BPass, BTrace
  <2> QED BY <2>1, <2>2
<1> QED BY <1>2, <1>3

\* Where a pass is when it reads an opcode.
LEMMA BPassReads ==
    ASSUME NEW all, NEW w, NEW u, NEW D, BPass(kind, layout, all, mid, src, dst, w, u, D), mid[src].op # "DONE"
    PROVE  BReads(all, u, D)
<1>2. src \in Nat \ {0} /\ D \in src..Len(mid) /\ D # src /\ Len(mid) \in Nat
  BY DEF BPass
<1>3. D \in (src + 1)..Len(mid) /\ src - 1 \in (src - 1)..(D - 1)
  BY <1>2
<1>4. u[src - 1] \in BStates(kind, all)
  BY <1>3, BPassStates
<1> QED BY <1>2, <1>3, <1>4 DEF BPass, BReads

\* The DONE that ends a pass is the first.
LEMMA BPassAtDone ==
    ASSUME NEW kd, NEW l, NEW all, NEW ops, NEW sr, NEW ds, NEW w, NEW u, NEW D,
           BPass(kd, l, all, ops, sr, ds, w, u, D), ops[sr].op = "DONE"
    PROVE  sr = D
<1>1. sr \in Nat \ {0} /\ D \in sr..Len(ops) /\ Len(ops) \in Nat
  BY DEF BPass
<1> SUFFICES ASSUME sr # D PROVE FALSE
  OBVIOUS
<1>2. sr \in ((sr - 1) + 1)..(D - 1)
  BY <1>1
<1> QED BY <1>2 DEF BPass, BTrace, BOk

\* A step of a pass: the opcode it writes has the meaning of those it reads.
LEMMA BPassOptimize ==
    ASSUME NEW kd, NEW l, NEW all, NEW ops, NEW sr, NEW ds, NEW w, NEW u, NEW D,
           BPass(kd, l, all, ops, sr, ds, w, u, D),
           NEW take \in Nat \ {0}, sr + take <= D, NEW put, BOk(kd, l, put),
           Binding!Run1(kd, l, u[sr - 1], put) = u[sr + take - 1]
    PROVE  \E v : BPass(kd, l, all, [ops EXCEPT ![ds] = put], sr + take, ds + 1, v, u, D)
<1> DEFINE v == [k \in 0..ds |-> IF k = ds THEN u[sr + take - 1] ELSE w[k]]
           new == [ops EXCEPT ![ds] = put]
<1>1. /\ sr \in Nat \ {0} /\ ds \in Nat \ {0} /\ ds <= sr /\ D \in Nat /\ sr <= D
      /\ Len(ops) \in Nat /\ D <= Len(ops) /\ ops \in Seq(BOp) /\ put \in BOp
  BY DEF BPass, BOk
<1>2. new \in Seq(BOp) /\ Len(new) = Len(ops) /\ new[ds] = put
      /\ \A k \in 1..Len(ops) : k # ds => new[k] = ops[k]
  <2>1. ds \in 1..Len(ops)
    BY <1>1
  <2> QED BY <1>1, <2>1
<1>3. v[ds] = u[sr + take - 1] /\ \A k \in 0..(ds - 1) : v[k] = w[k]
  BY <1>1
<1> HIDE DEF v, new
<1>4. new[D].op = "DONE"
  <2>1. D \in 1..Len(ops) /\ D # ds
    BY <1>1
  <2> QED BY <2>1, <1>2 DEF BPass
<1>5. sr + take - 1 \in (sr - 1)..(D - 1) /\ ds - 1 \in 0..(ds - 1) /\ 0 \in 0..(ds - 1)
  BY <1>1
<1>6. u[sr + take - 1] \in BStates(kd, all) /\ u[sr - 1] = w[ds - 1]
  BY <1>5, BPassStates DEF BPass
<1>7. v[0] = Binding!Dyld0(kd, l) /\ v[0] \in BStates(kd, all)
  BY <1>3, <1>5 DEF BPass
<1>8. BTrace(kd, l, all, new, v, 0, ds)
  <2> SUFFICES ASSUME NEW k \in (0 + 1)..ds
               PROVE  BOk(kd, l, new[k]) /\ v[k] \in BStates(kd, all) /\ v[k] = Binding!Run1(kd, l, v[k - 1], new[k])
    BY DEF BTrace
  <2>1. CASE k = ds
    BY <2>1, <1>2, <1>3, <1>5, <1>6
  <2>2. CASE k # ds
    <3>1. k \in (0 + 1)..(ds - 1) /\ k \in 0..(ds - 1) /\ k - 1 \in 0..(ds - 1) /\ k \in 1..Len(ops)
      BY <1>1, <2>2
    <3>2. BOk(kd, l, ops[k]) /\ w[k] \in BStates(kd, all) /\ w[k] = Binding!Run1(kd, l, w[k - 1], ops[k])
      BY <3>1 DEF BPass, BTrace
    <3>3. new[k] = ops[k] /\ v[k] = w[k] /\ v[k - 1] = w[k - 1]
      BY <3>1, <2>2, <1>2, <1>3
    <3> QED BY <3>2, <3>3
  <2> QED BY <2>1, <2>2
<1>9. BTrace(kd, l, all, new, u, sr + take - 1, D - 1)
  <2> SUFFICES ASSUME NEW k \in (sr + take - 1 + 1)..(D - 1)
               PROVE  BOk(kd, l, new[k]) /\ u[k] \in BStates(kd, all) /\ u[k] = Binding!Run1(kd, l, u[k - 1], new[k])
    BY DEF BTrace
  <2>1. k \in ((sr - 1) + 1)..(D - 1) /\ k \in 1..Len(ops) /\ k # ds
    BY <1>1
  <2>2. BOk(kd, l, ops[k]) /\ u[k] \in BStates(kd, all) /\ u[k] = Binding!Run1(kd, l, u[k - 1], ops[k])
    BY <2>1 DEF BPass, BTrace
  <2> QED BY <2>1, <2>2, <1>2
<1>10. sr + take \in Nat \ {0} /\ ds + 1 \in 1..(sr + take) /\ D \in (sr + take)..Len(new) /\ ds + 1 - 1 = ds
  BY <1>1, <1>2
<1>11. BBinds(u[D - 1], all, Len(all))
  BY DEF BPass
<1>12. BPass(kd, l, all, new, sr + take, ds + 1, v, u, D)
  BY <1>2, <1>3, <1>4, <1>7, <1>8, <1>9, <1>10, <1>11 DEF BPass
<1> QED BY <1>12 DEF new

\* The end of a pass: the DONE that is written cuts off what is left of the old array.
LEMMA BPassEnd ==
    ASSUME NEW kd, NEW l, NEW all, NEW ops, NEW sr, NEW ds, NEW w, NEW u, NEW D,
           BPass(kd, l, all, ops, sr, ds, w, u, D), ops[sr].op = "DONE"
    PROVE  BPass(kd, l, all, [ops EXCEPT ![ds].op = "DONE"], 1, 1, w, w, ds)
<1> DEFINE new == [ops EXCEPT ![ds].op = "DONE"]
<1>1. /\ sr \in Nat \ {0} /\ ds \in Nat \ {0} /\ ds <= sr /\ D \in Nat /\ sr = D
      /\ Len(ops) \in Nat /\ D <= Len(ops) /\ ops \in Seq(BOp)
  <2>1. sr = D
    BY BPassAtDone
  <2> QED BY <2>1 DEF BPass
<1>2. new \in Seq(BOp) /\ Len(new) = Len(ops) /\ new[ds].op = "DONE"
      /\ \A k \in 1..Len(ops) : k # ds => new[k] = ops[k]
  <2>1. ds \in 1..Len(ops) /\ ops[ds] \in BOp
    BY <1>1
  <2>2. [ops[ds] EXCEPT !.op = "DONE"] \in BOp
    BY <2>1, BCodes DEF BOp
  <2> QED BY <1>1, <2>1, <2>2 DEF BOp
<1> HIDE DEF new
<1>3. u[D - 1] = w[ds - 1]
  BY <1>1 DEF BPass
<1>4. BTrace(kd, l, all, new, w, 0, ds - 1)
  <2> SUFFICES ASSUME NEW k \in (0 + 1)..(ds - 1)
               PROVE  BOk(kd, l, new[k]) /\ w[k] \in BStates(kd, all) /\ w[k] = Binding!Run1(kd, l, w[k - 1], new[k])
    BY DEF BTrace
  <2>1. k \in 1..Len(ops) /\ k # ds
    BY <1>1
  <2>2. BOk(kd, l, ops[k]) /\ w[k] \in BStates(kd, all) /\ w[k] = Binding!Run1(kd, l, w[k - 1], ops[k])
    BY DEF BPass, BTrace
  <2> QED BY <2>1, <2>2, <1>2
<1>5. BTrace(kd, l, all, new, w, 0, 0)
  BY DEF BTrace
<1>6. 1 - 1 = 0 /\ 1 \in 1..1 /\ ds \in 1..Len(new) /\ 1 \in Nat \ {0}
  BY <1>1, <1>2
<1>7. BBinds(w[ds - 1], all, Len(all)) /\ w[0] = Binding!Dyld0(kd, l) /\ w[0] \in BStates(kd, all)
  BY <1>3 DEF BPass
<1>8. BPass(kd, l, all, new, 1, 1, w, w, ds)
  BY <1>2, <1>4, <1>5, <1>6, <1>7 DEF BPass
<1> QED BY <1>8 DEF new

\* The recursive function of Meaning, as a constant operator.
BRunTo(kd, l, ops, m) ==
    CHOOSE run : run = [k \in 0..m |-> IF k = 0 THEN Binding!Dyld0(kd, l) ELSE Binding!Run1(kd, l, run[k - 1], ops[k])]

\* A run of the opcodes is determined by its first state.
LEMMA BRunToIs ==
    ASSUME NEW kd, NEW l, NEW ops, NEW m \in Nat, NEW t, t[0] = Binding!Dyld0(kd, l),
           \A k \in 1..m : t[k] = Binding!Run1(kd, l, t[k - 1], ops[k])
    PROVE  BRunTo(kd, l, ops, m)[m] = t[m]
<1> DEFINE IsRun(f) == f = [k \in 0..m |-> IF k = 0 THEN Binding!Dyld0(kd, l)
                                           ELSE Binding!Run1(kd, l, f[k - 1], ops[k])]
           g == CHOOSE run : IsRun(run)
           h == [k \in 0..m |-> t[k]]
<1>1. IsRun(h)
  <2>1. \A k \in 0..m : h[k] = IF k = 0 THEN Binding!Dyld0(kd, l) ELSE Binding!Run1(kd, l, h[k - 1], ops[k])
    <3> TAKE k \in 0..m
    <3>1. CASE k = 0
      BY <3>1
    <3>2. CASE k # 0
      <4>1. k - 1 \in 0..m /\ k \in 1..m
        BY <3>2
      <4>2. h[k - 1] = t[k - 1] /\ h[k] = t[k]
        BY <4>1
      <4> HIDE DEF h
      <4> QED BY <4>1, <4>2, <3>2
    <3> QED BY <3>1, <3>2
  <2>2. h = [k \in 0..m |-> h[k]]
    OBVIOUS
  <2> HIDE DEF h
  <2> QED BY <2>1, <2>2
<1>2. IsRun(g)
  <2> HIDE DEF IsRun
  <2> QED BY <1>1
<1> HIDE DEF g
<1>3. g[0] = t[0] /\ \A k \in 1..m : g[k] = Binding!Run1(kd, l, g[k - 1], ops[k])
  <2>1. \A k \in 0..m : g[k] = IF k = 0 THEN Binding!Dyld0(kd, l) ELSE Binding!Run1(kd, l, g[k - 1], ops[k])
    BY <1>2, Zenon
  <2>2. 0 \in 0..m /\ \A k \in 1..m : k \in 0..m /\ k # 0
    OBVIOUS
  <2> QED BY <2>1, <2>2, Zenon
<1> DEFINE P(k) == k <= m => g[k] = t[k]
<1>4. P(0)
  BY <1>3
<1>5. ASSUME NEW k \in Nat, P(k) PROVE P(k + 1)
  <2> SUFFICES ASSUME k + 1 <= m PROVE g[k + 1] = t[k + 1]
    OBVIOUS
  <2>1. k + 1 \in 1..m /\ (k + 1) - 1 = k
    OBVIOUS
  <2>2. g[k + 1] = Binding!Run1(kd, l, g[(k + 1) - 1], ops[k + 1])
    BY <2>1, <1>3, Zenon
  <2>3. t[k + 1] = Binding!Run1(kd, l, t[(k + 1) - 1], ops[k + 1])
    BY <2>1, Zenon
  <2>4. g[k] = t[k]
    BY <1>5
  <2> QED BY <2>1, <2>2, <2>3, <2>4
<1>6. \A k \in Nat : P(k)
  <2> DEFINE T == {k \in Nat : P(k)}
  <2> HIDE DEF P
  <2>1. 0 \in T /\ \A k \in Nat : k \in T => k + 1 \in T
    BY <1>4, <1>5
  <2> HIDE DEF T
  <2>2. Nat \subseteq T
    BY <2>1, SetInduction
  <2> QED BY <2>2 DEF T
<1>7. g[m] = t[m]
  BY <1>6
<1> QED BY <1>7 DEF g, BRunTo

\* Meaning ends at the first DONE.
LEMMA BMeaning ==
    ASSUME kind \in {"bind", "weak", "lazy"}, NEW ops, NEW m \in Nat, NEW t, Len(ops) \in Nat,
           t[0] = Binding!Dyld0(kind, layout),
           \A k \in 1..m : ops[k].op # "DONE" /\ t[k] = Binding!Run1(kind, layout, t[k - 1], ops[k]),
           m = Len(ops) \/ (m < Len(ops) /\ ops[m + 1].op = "DONE")
    PROVE  Binding!Meaning(ops) = t[m]
<1> DEFINE last == {k \in 1..Len(ops) : ops[k].op = "DONE"}
           upTo == IF last = {} THEN Len(ops) ELSE First(last)
<1>1. Binding!Meaning(ops) = BRunTo(kind, layout, ops, upTo)[upTo]
  BY DEF Binding!Meaning, BRunTo, Binding!First, First
<1>2. CASE m = Len(ops)
  <2>1. last = {}
    BY <1>2
  <2>2. upTo = m
    BY <2>1, <1>2
  <2> HIDE DEF upTo, last
  <2>3. BRunTo(kind, layout, ops, m)[m] = t[m]
    BY BRunToIs
  <2> QED BY <2>2, <2>3, <1>1
<1>3. CASE m < Len(ops) /\ ops[m + 1].op = "DONE"
  <2> DEFINE h == [k \in 0..(m + 1) |-> IF k = m + 1 THEN t[m] ELSE t[k]]
  <2>1. m + 1 \in last /\ last \subseteq Nat /\ \A k \in last : m + 1 <= k
    BY <1>3
  <2>2. First(last) \in last /\ \A k \in last : First(last) <= k
    <3> HIDE DEF last
    <3> QED BY <2>1, MinLeast
  <2>3. upTo = m + 1
    <3> HIDE DEF last
    <3> DEFINE x == First(last)
    <3>0. x \in Nat /\ x <= m + 1 /\ m + 1 <= x
      BY <2>1, <2>2
    <3> HIDE DEF x
    <3>1. x = m + 1
      BY <3>0
    <3> QED BY <2>1, <3>1 DEF x
  <2> HIDE DEF upTo, last
  <2>4. h[0] = t[0] /\ h[m + 1] = t[m] /\ h[m] = t[m] /\ \A k \in 0..m : h[k] = t[k]
    OBVIOUS
  <2> HIDE DEF h
  <2>5. \A k \in 1..(m + 1) : h[k] = Binding!Run1(kind, layout, h[k - 1], ops[k])
    <3> TAKE k \in 1..(m + 1)
    <3>1. CASE k = m + 1
      <4>1. (m + 1) - 1 = m
        OBVIOUS
      <4>2. Binding!Run1(kind, layout, t[m], ops[m + 1]) = t[m]
        BY <1>3, BRunDone
      <4> QED BY <3>1, <4>1, <4>2, <2>4
    <3>2. CASE k # m + 1
      <4>1. k \in 1..m /\ k \in 0..m /\ k - 1 \in 0..m
        BY <3>2
      <4> QED BY <4>1, <2>4
    <3> QED BY <3>1, <3>2
  <2>6. m + 1 \in Nat
    OBVIOUS
  <2>7. BRunTo(kind, layout, ops, m + 1)[m + 1] = h[m + 1]
    BY <2>4, <2>5, <2>6, BRunToIs
  <2> QED BY <1>1, <2>3, <2>4, <2>7
<1> QED BY <1>2, <1>3

\* In the middle of a pass: the opcodes written and those still to be read mean the table.
LEMMA BPassMeaning ==
    ASSUME kind \in {"bind", "weak", "lazy"}, NEW all, NEW w, NEW u, NEW D,
           BPass(kind, layout, all, mid, src, dst, w, u, D)
    PROVE  Binding!Meaning(SubSeq(mid, 1, dst - 1) \o SubSeq(mid, src, Len(mid))) = u[D - 1]
<1> DEFINE x == SubSeq(mid, 1, dst - 1)
           y == SubSeq(mid, src, Len(mid))
           ops == x \o y
           m == (dst - 1) + (D - src)
           t == [k \in 0..m |-> IF k < dst THEN w[k] ELSE u[(k - dst) + src]]
<1>1. /\ src \in Nat \ {0} /\ dst \in Nat \ {0} /\ dst <= src /\ D \in Nat /\ src <= D
      /\ Len(mid) \in Nat /\ D <= Len(mid) /\ mid \in Seq(BOp)
  BY DEF BPass
<1>2. /\ x \in Seq(BOp) /\ Len(x) = dst - 1 /\ \A k \in 1..(dst - 1) : x[k] = mid[k]
      /\ y \in Seq(BOp) /\ Len(y) = Len(mid) - src + 1
      /\ \A k \in 1..(Len(mid) - src + 1) : y[k] = mid[k + src - 1]
  BY <1>1
<1> HIDE DEF x, y
<1>3. /\ ops \in Seq(BOp) /\ Len(ops) = Len(x) + Len(y)
      /\ \A k \in 1..(Len(x) + Len(y)) : ops[k] = IF k <= Len(x) THEN x[k] ELSE y[k - Len(x)]
  <2>1. x \in Seq(BOp) /\ y \in Seq(BOp)
    BY <1>2
  <2> QED BY <2>1, Concat
<1> HIDE DEF ops
<1>4. /\ \A k \in 1..(dst - 1) : ops[k] = mid[k]
      /\ \A k \in dst..(m + 1) : ops[k] = mid[(k - dst) + src]
  <2>1. ASSUME NEW k \in 1..(dst - 1) PROVE ops[k] = mid[k]
    <3>1. k \in 1..(Len(x) + Len(y)) /\ k <= Len(x)
      BY <1>1, <1>2
    <3> QED BY <3>1, <1>2, <1>3
  <2>2. ASSUME NEW k \in dst..(m + 1) PROVE ops[k] = mid[(k - dst) + src]
    <3>1. k \in 1..(Len(x) + Len(y)) /\ ~(k <= Len(x)) /\ k - Len(x) \in 1..(Len(mid) - src + 1)
          /\ (k - Len(x)) + src - 1 = (k - dst) + src
      BY <1>1, <1>2
    <3> QED BY <3>1, <1>2, <1>3
  <2> QED BY <2>1, <2>2
<1>5. m \in Nat /\ m < Len(ops) /\ Len(ops) \in Nat
  BY <1>1, <1>2, <1>3
<1>6. ops[m + 1].op = "DONE"
  <2>1. m + 1 \in dst..(m + 1) /\ ((m + 1) - dst) + src = D
    BY <1>1
  <2> QED BY <2>1, <1>4 DEF BPass
<1>7. /\ \A k \in 0..(dst - 1) : k \in 0..m => t[k] = w[k]
      /\ \A k \in dst..m : t[k] = u[(k - dst) + src]
  BY <1>1
<1> HIDE DEF t
<1>8. t[0] = Binding!Dyld0(kind, layout)
  <2>1. 0 \in 0..(dst - 1) /\ 0 \in 0..m
    BY <1>1, <1>5
  <2> QED BY <2>1, <1>7 DEF BPass
<1>9. t[m] = u[D - 1]
  <2>1. CASE D = src
    <3>1. m = dst - 1 /\ m \in 0..(dst - 1) /\ m \in 0..m
      BY <2>1, <1>1, <1>5
    <3> QED BY <3>1, <2>1, <1>7 DEF BPass
  <2>2. CASE D # src
    <3>1. m \in dst..m /\ (m - dst) + src = D - 1
      BY <2>2, <1>1
    <3> QED BY <3>1, <1>7
  <2> QED BY <2>1, <2>2
<1>10. \A k \in 1..m : ops[k].op # "DONE" /\ t[k] = Binding!Run1(kind, layout, t[k - 1], ops[k])
  <2> TAKE k \in 1..m
  <2>1. CASE k < dst
    <3>1. k \in (0 + 1)..(dst - 1) /\ k \in 0..(dst - 1) /\ k - 1 \in 0..(dst - 1) /\ k \in 0..m /\ k - 1 \in 0..m
          /\ k \in 1..(dst - 1)
      BY <2>1, <1>1
    <3>2. BOk(kind, layout, mid[k]) /\ w[k] = Binding!Run1(kind, layout, w[k - 1], mid[k])
      BY <3>1 DEF BPass, BTrace
    <3>3. t[k] = w[k] /\ t[k - 1] = w[k - 1] /\ ops[k] = mid[k]
      BY <3>1, <1>4, <1>7
    <3> QED BY <3>2, <3>3 DEF BOk
  <2>2. CASE k >= dst
    <3> DEFINE j == (k - dst) + src
    <3>1. j \in ((src - 1) + 1)..(D - 1) /\ k \in dst..m /\ k \in dst..(m + 1)
      BY <2>2, <1>1
    <3>2. BOk(kind, layout, mid[j]) /\ u[j] = Binding!Run1(kind, layout, u[j - 1], mid[j])
      BY <3>1 DEF BPass, BTrace
    <3>3. t[k] = u[j] /\ ops[k] = mid[j]
      BY <3>1, <1>4, <1>7
    <3>4. t[k - 1] = u[j - 1]
      <4>1. CASE k = dst
        <5>1. k - 1 \in 0..(dst - 1) /\ k - 1 \in 0..m /\ k - 1 = dst - 1 /\ j - 1 = src - 1
          BY <4>1, <1>1, <1>5
        <5> HIDE DEF j
        <5> QED BY <5>1, <1>7 DEF BPass
      <4>2. CASE k # dst
        <5>1. k - 1 \in dst..m /\ ((k - 1) - dst) + src = j - 1
          BY <4>2, <2>2, <1>1, <1>5
        <5> HIDE DEF j
        <5> QED BY <5>1, <1>7
      <4> QED BY <4>1, <4>2
    <3> HIDE DEF j
    <3> QED BY <3>2, <3>3, <3>4 DEF BOk
  <2> QED BY <2>1, <2>2, <1>1
<1> HIDE DEF m
<1>11. Binding!Meaning(ops) = t[m]
  BY <1>5, <1>6, <1>8, <1>10, BMeaning
<1> QED BY <1>9, <1>11 DEF ops, x, y

(****************************************************************************)
(* The bind and the weak table: their bytes                                 *)
(****************************************************************************)

\* No two opcodes have one code.
LEMMA BCodesDiffer ==
    ASSUME NEW op \in DOMAIN Binding!Codes
    PROVE  Binding!Codes[op] \in 0..12 /\ Binding!OpNamed(Binding!Codes[op]) = op
<1>1. \A x \in DOMAIN Binding!Codes : Binding!Codes[x] = Binding!Codes[op] => x = op
  BY BCodes DEF Binding!Codes
<1>2. Binding!Codes[op] \in 0..12
  BY BCodes DEF Binding!Codes
<1> QED BY <1>1, <1>2 DEF Binding!OpNamed

\* The operand in the byte of an opcode.
BInByte(o) ==
    IF o.op \notin {"SET_DYLIB_ORDINAL_IMM", "SET_DYLIB_SPECIAL_IMM", "SET_SYMBOL_TRAILING_FLAGS_IMM",
                    "SET_TYPE_IMM", "SET_SEGMENT_AND_OFFSET_ULEB", "DO_BIND_ADD_ADDR_IMM_SCALED"} THEN 0
    ELSE IF o.op = "SET_DYLIB_SPECIAL_IMM" THEN o.a % Imm ELSE o.a

\* A special ordinal survives the mask and the sign extension.
LEMMA BSpecial ==
    ASSUME NEW a \in Int, -Imm < a, a <= 0
    PROVE  a % Imm \in 0..(Imm - 1) /\ a = IF a % Imm = 0 THEN 0 ELSE (a % Imm) - Imm
<1>1. Imm \in Nat \ {0}
  BY WidthAssumption
<1>2. CASE a = 0
  <2>1. Imm * 0 + 0 = a /\ 0 \in 0..(Imm - 1) /\ 0 \in Int
    BY <1>1, <1>2
  <2>2. a % Imm = 0
    BY <1>1, <2>1, DivUnique
  <2> QED BY <1>1, <1>2, <2>2
<1>3. CASE a # 0
  <2>1. Imm * (-1) + (a + Imm) = a /\ a + Imm \in 0..(Imm - 1) /\ -1 \in Int /\ a + Imm # 0
    BY <1>1, <1>3
  <2>2. a % Imm = a + Imm
    BY <1>1, <2>1, DivUnique
  <2> QED BY <1>1, <2>1, <2>2
<1> QED BY <1>2, <1>3

\* dyld reads the opcode and the operand that encode put into a byte.
LEMMA BByte ==
    ASSUME NEW kd, NEW l, Len(l) \in Nat, Len(l) <= Imm + 1, NEW o, BOk(kd, l, o)
    PROVE  /\ Binding!Byte(Binding!Codes[o.op], BInByte(o)) \in Nat
           /\ CodeOf(Binding!Byte(Binding!Codes[o.op], BInByte(o))) = Binding!Codes[o.op]
           /\ ImmediateOf(Binding!Byte(Binding!Codes[o.op], BInByte(o))) = BInByte(o)
<1>1. o \in BOp /\ Imm \in Nat \ 0..2 /\ o.op \in DOMAIN Binding!Codes /\ o.a \in Int
  BY WidthAssumption DEF BOk, BOp
<1>2. BInByte(o) \in 0..(Imm - 1)
  <2>1. CASE o.op = "SET_SEGMENT_AND_OFFSET_ULEB"
    BY <2>1, <1>1 DEF BOk, BInByte
  <2>2. CASE o.op = "SET_DYLIB_SPECIAL_IMM"
    <3>1. o.a % Imm \in 0..(Imm - 1)
      BY <2>2, <1>1, BSpecial DEF BOk
    <3> QED BY <2>2, <3>1 DEF BInByte
  <2>3. CASE o.op \in {"SET_DYLIB_ORDINAL_IMM", "SET_SYMBOL_TRAILING_FLAGS_IMM", "SET_TYPE_IMM",
                       "DO_BIND_ADD_ADDR_IMM_SCALED"}
    BY <2>3 DEF BOk, BInByte
  <2>4. CASE o.op \notin {"SET_DYLIB_ORDINAL_IMM", "SET_DYLIB_SPECIAL_IMM", "SET_SYMBOL_TRAILING_FLAGS_IMM",
                          "SET_TYPE_IMM", "SET_SEGMENT_AND_OFFSET_ULEB", "DO_BIND_ADD_ADDR_IMM_SCALED"}
    BY <2>4, <1>1 DEF BInByte
  <2> QED BY <2>1, <2>2, <2>3, <2>4
<1>3. Binding!Codes[o.op] \in 0..15
  BY <1>1, BCodesDiffer
<1>4. Binding!Byte(Binding!Codes[o.op], BInByte(o)) = Byte(Binding!Codes[o.op], BInByte(o))
  BY DEF Binding!Byte, Byte, Binding!Or, Or
<1> QED BY <1>2, <1>3, <1>4, ByteReads

\* The operands after an opcode.
LEMMA BCells ==
    ASSUME NEW op \in DOMAIN Binding!Codes
    PROVE  Binding!Cells(op) \in Nat
BY DEF Binding!Cells

\* The opcodes with an operand in the byte and one after it, and those with one after it
\* only.
BNamedOps == {"SET_SYMBOL_TRAILING_FLAGS_IMM", "SET_SEGMENT_AND_OFFSET_ULEB"}
BLong == {"SET_DYLIB_ORDINAL_ULEB", "SET_ADDEND_SLEB", "ADD_ADDR_ULEB", "DO_BIND_ADD_ADDR_ULEB"}

\* The cells of an opcode.
LEMMA BBytes ==
    ASSUME NEW kd, NEW l, Len(l) \in Nat, Len(l) <= Imm + 1, NEW o, BOk(kd, l, o)
    PROVE  /\ Binding!Bytes(o) \in Seq(Int) /\ Len(Binding!Bytes(o)) = 1 + Binding!Cells(o.op)
           /\ CodeOf(Binding!Bytes(o)[1]) = Binding!Codes[o.op]
           /\ ImmediateOf(Binding!Bytes(o)[1]) = BInByte(o)
           /\ o.op \in BNamedOps => Binding!Bytes(o)[2] = o.b
           /\ o.op \in BLong \cup {"DO_BIND_ULEB_TIMES_SKIPPING_ULEB"} => Binding!Bytes(o)[2] = o.a
           /\ o.op = "DO_BIND_ULEB_TIMES_SKIPPING_ULEB" => Binding!Bytes(o)[3] = o.b
<1> DEFINE first == Binding!Byte(Binding!Codes[o.op], BInByte(o))
<1>1. first \in Nat /\ CodeOf(first) = Binding!Codes[o.op] /\ ImmediateOf(first) = BInByte(o)
  BY BByte
<1>2. o \in BOp /\ o.op \in DOMAIN Binding!Codes /\ o.a \in Int /\ o.b \in Int
  BY DEF BOk, BOp
<1>3. Binding!Bytes(o) =
        CASE o.op \in BNamedOps -> <<first, o.b>>
          [] o.op \in BLong -> <<first, o.a>>
          [] o.op = "DO_BIND_ULEB_TIMES_SKIPPING_ULEB" -> <<first, o.a, o.b>>
          [] OTHER -> <<first>>
  BY DEF Binding!Bytes, BInByte, Binding!ImmediateOps, BNamedOps, BLong
<1> HIDE DEF first
<1>a. first \in Int
  BY <1>1
<1>4. CASE o.op \in BNamedOps
  <2>1. Binding!Bytes(o) = <<first, o.b>> /\ Binding!Cells(o.op) = 1 /\ o.op \notin BLong
        /\ o.op # "DO_BIND_ULEB_TIMES_SKIPPING_ULEB"
    BY <1>3, <1>4 DEF Binding!Cells, BNamedOps, BLong
  <2> QED BY <2>1, <1>1, <1>a, <1>2, <1>4
<1>5. CASE o.op \in BLong
  <2>1. Binding!Bytes(o) = <<first, o.a>> /\ Binding!Cells(o.op) = 1 /\ o.op \notin BNamedOps
        /\ o.op # "DO_BIND_ULEB_TIMES_SKIPPING_ULEB"
    BY <1>3, <1>5 DEF Binding!Cells, BNamedOps, BLong
  <2> QED BY <2>1, <1>1, <1>a, <1>2, <1>5
<1>6. CASE o.op = "DO_BIND_ULEB_TIMES_SKIPPING_ULEB"
  <2>1. Binding!Bytes(o) = <<first, o.a, o.b>> /\ Binding!Cells(o.op) = 2 /\ o.op \notin BNamedOps
    BY <1>3, <1>6 DEF Binding!Cells, BNamedOps, BLong
  <2> QED BY <2>1, <1>1, <1>a, <1>2, <1>6
<1>7. CASE o.op \notin BNamedOps \cup BLong \cup {"DO_BIND_ULEB_TIMES_SKIPPING_ULEB"}
  <2>1. Binding!Bytes(o) = <<first>> /\ Binding!Cells(o.op) = 0
    BY <1>3, <1>7 DEF Binding!Cells, BNamedOps, BLong
  <2> QED BY <2>1, <1>1, <1>a, <1>2, <1>7
<1> QED BY <1>4, <1>5, <1>6, <1>7

\* dyld reads an opcode where it was written.
LEMMA BDecodes ==
    ASSUME NEW kd, NEW l, Len(l) \in Nat, Len(l) <= Imm + 1, NEW o, BOk(kd, l, o), NEW at \in Nat, Len(data) \in Nat,
           at + Binding!Cells(o.op) <= Len(data),
           \A c \in 1..Len(Binding!Bytes(o)) : data[at + c - 1] = Binding!Bytes(o)[c]
    PROVE  Binding!Readable(at) /\ Binding!OpAt(at) = o
<1> DEFINE bs == Binding!Bytes(o)
<1>1. o \in BOp /\ o.op \in DOMAIN Binding!Codes /\ o.a \in Int /\ o.b \in Nat
  BY DEF BOk, BOp
<1>2. /\ Len(bs) = 1 + Binding!Cells(o.op)
      /\ CodeOf(bs[1]) = Binding!Codes[o.op] /\ ImmediateOf(bs[1]) = BInByte(o)
      /\ o.op \in BNamedOps => bs[2] = o.b
      /\ o.op \in BLong \cup {"DO_BIND_ULEB_TIMES_SKIPPING_ULEB"} => bs[2] = o.a
      /\ o.op = "DO_BIND_ULEB_TIMES_SKIPPING_ULEB" => bs[3] = o.b
  BY BBytes
<1>3. Binding!Codes[o.op] \in 0..12 /\ Binding!OpNamed(Binding!Codes[o.op]) = o.op
  BY <1>1, BCodesDiffer
<1>4. at + 1 - 1 = at /\ at + 2 - 1 = at + 1 /\ at + 3 - 1 = at + 2
  OBVIOUS
<1> HIDE DEF bs
<1>5. \A c \in 1..Len(bs) : data[at + c - 1] = bs[c]
  BY DEF bs
<1>6. Binding!Cells(o.op) \in Nat
  BY <1>1, BCells
<1>7. data[at] = bs[1]
  BY <1>2, <1>4, <1>5, <1>6
<1>8. Binding!Cells(o.op) \in {1, 2} => data[at + 1] = bs[2]
  BY <1>2, <1>4, <1>5, <1>6
<1>9. Binding!Cells(o.op) = 2 => data[at + 2] = bs[3]
  BY <1>2, <1>4, <1>5, <1>6
<1>10. Binding!CodeOf(data[at]) = Binding!Codes[o.op] /\ Binding!ImmediateOf(data[at]) = BInByte(o)
  BY <1>2, <1>7 DEF Binding!CodeOf, CodeOf, Binding!ImmediateOf, ImmediateOf
<1>11. Binding!Readable(at)
  BY <1>3, <1>10 DEF Binding!Readable
<1>12. Binding!OpNamed(Binding!CodeOf(data[at])) = o.op
  BY <1>3, <1>10
<1>13. o = Binding!Op(o.op, o.a, o.b)
  BY <1>1 DEF BOp, Binding!Op
<1>14. CASE o.op \in BNamedOps
  <2>1. Binding!Cells(o.op) = 1 /\ BInByte(o) = o.a
    BY <1>14 DEF Binding!Cells, BInByte, BNamedOps
  <2>2. Binding!OpAt(at) = Binding!Op(o.op, BInByte(o), data[at + 1])
    BY <1>10, <1>12, <1>14 DEF Binding!OpAt, BNamedOps
  <2>3. data[at + 1] = o.b
    BY <2>1, <1>2, <1>8, <1>14
  <2> QED BY <2>1, <2>2, <2>3, <1>11, <1>13
<1>15. CASE o.op \in BLong
  <2>1. Binding!Cells(o.op) = 1 /\ o.op \notin BNamedOps /\ o.op # "SET_DYLIB_SPECIAL_IMM" /\ o.b = 0
    BY <1>15 DEF Binding!Cells, BOk, BLong, BNamedOps
  <2>2. Binding!OpAt(at) = Binding!Op(o.op, data[at + 1], 0)
    BY <1>10, <1>12, <2>1 DEF Binding!OpAt, BNamedOps
  <2>3. data[at + 1] = o.a
    BY <2>1, <1>2, <1>8, <1>15
  <2> QED BY <2>1, <2>2, <2>3, <1>11, <1>13
<1>16. CASE o.op = "DO_BIND_ULEB_TIMES_SKIPPING_ULEB"
  <2>1. Binding!Cells(o.op) = 2 /\ o.op \notin BNamedOps /\ o.op # "SET_DYLIB_SPECIAL_IMM"
    BY <1>16 DEF Binding!Cells, BNamedOps
  <2>2. Binding!OpAt(at) = Binding!Op(o.op, data[at + 1], data[at + 2])
    BY <1>10, <1>12, <2>1 DEF Binding!OpAt, BNamedOps
  <2>3. data[at + 1] = o.a /\ data[at + 2] = o.b
    BY <2>1, <1>2, <1>8, <1>9, <1>16
  <2> QED BY <2>2, <2>3, <1>11, <1>13
<1>17. CASE o.op = "SET_DYLIB_SPECIAL_IMM"
  <2>1. BInByte(o) = o.a % Imm /\ o.b = 0 /\ o.op \notin BNamedOps
    BY <1>17 DEF BInByte, BOk, BNamedOps
  <2>2. o.a = IF o.a % Imm = 0 THEN 0 ELSE (o.a % Imm) - Imm
    BY <1>1, <1>17, BSpecial DEF BOk
  <2>3. Binding!OpAt(at) = Binding!Op(o.op, IF BInByte(o) = 0 THEN 0 ELSE BInByte(o) - Imm, 0)
    BY <1>10, <1>12, <1>17, <2>1 DEF Binding!OpAt, BNamedOps
  <2> QED BY <2>1, <2>2, <2>3, <1>11, <1>13
<1>18. CASE o.op \notin BNamedOps \cup BLong \cup {"DO_BIND_ULEB_TIMES_SKIPPING_ULEB", "SET_DYLIB_SPECIAL_IMM"}
  <2>1. Binding!Cells(o.op) = 0 /\ o.b = 0 /\ BInByte(o) = o.a
    BY <1>18, <1>1, BCodes DEF Binding!Cells, BOk, BInByte, BNamedOps, BLong
  <2>2. Binding!OpAt(at) = Binding!Op(o.op, BInByte(o), 0)
    BY <1>10, <1>12, <2>1, <1>18 DEF Binding!OpAt, BNamedOps
  <2> QED BY <2>1, <2>2, <1>11, <1>13
<1> QED BY <1>14, <1>15, <1>16, <1>17, <1>18

\* The padding that aligns the table reads as DONE.
LEMMA BDecodesPadding ==
    ASSUME NEW at \in Nat, at <= Len(data), Len(data) \in Nat, data[at] = 0
    PROVE  Binding!Readable(at) /\ Binding!OpAt(at).op = "DONE"
<1>1. CodeOf(0) = 0 /\ ImmediateOf(0) = 0
  <2>1. Imm \in Nat \ {0} /\ Imm * 0 + 0 = 0 /\ 0 \in 0..(Imm - 1) /\ 0 \in Int
    BY WidthAssumption
  <2> QED BY <2>1, DivUnique DEF CodeOf, ImmediateOf
<1>2. "DONE" \in DOMAIN Binding!Codes /\ Binding!Codes["DONE"] = 0
  BY BCodes DEF Binding!Codes
<1>3. Binding!OpNamed(0) = "DONE" /\ Binding!Cells("DONE") = 0
  BY <1>2, BCodesDiffer DEF Binding!Cells
<1>4. Binding!CodeOf(data[at]) = 0 /\ Binding!ImmediateOf(data[at]) = 0
  BY <1>1 DEF Binding!CodeOf, CodeOf, Binding!ImmediateOf, ImmediateOf
<1> QED BY <1>3, <1>4 DEF Binding!Readable, Binding!OpAt, Binding!Op

\* The data d are the bytes of the first m opcodes, whose effect u follows, and
\* perhaps the last opcode or a byte of padding; the opcode k begins at off[k - 1] + 1.
BLoaded(kd, l, all, ops, d, m, u, off) ==
    /\ m \in Nat /\ d \in Seq(Int) /\ off \in [0..m -> Nat] /\ off[0] = 0
    /\ u[0] = Binding!Dyld0(kd, l) /\ u[0] \in BStates(kd, all)
    /\ BTrace(kd, l, all, ops, u, 0, m) /\ BBinds(u[m], all, Len(all))
    /\ \A k \in 1..m : off[k] = off[k - 1] + 1 + Binding!Cells(ops[k].op)
    /\ \A k \in 1..m : \A c \in 1..Len(Binding!Bytes(ops[k])) :
          off[k - 1] + c \in 1..off[m] /\ d[off[k - 1] + c] = Binding!Bytes(ops[k])[c]
    /\ Len(d) >= off[m] /\ (Len(d) > off[m] => d[off[m] + 1] = 0)

\* encode converts the opcodes before the first DONE.
LEMMA BFirstDone ==
    ASSUME NEW kd, NEW l, NEW all, NEW ops, NEW w, NEW u, NEW D, BPass(kd, l, all, ops, 1, 1, w, u, D)
    PROVE  Binding!First({k \in 1..Len(ops) : ops[k].op = "DONE"}) = D
<1> DEFINE T == {k \in 1..Len(ops) : ops[k].op = "DONE"}
           x == First(T)
<1>0. D \in 1..Len(ops) /\ Len(ops) \in Nat /\ ops[D].op = "DONE" /\ 1 - 1 = 0
  BY DEF BPass
<1>1. D \in T /\ T \subseteq Nat
  BY <1>0
<1>2. \A k \in T : D <= k
  <2> SUFFICES ASSUME NEW k \in T, k < D PROVE FALSE
    BY <1>0
  <2>1. k \in ((1 - 1) + 1)..(D - 1) /\ ops[k].op = "DONE"
    BY <1>0
  <2> QED BY <2>1 DEF BPass, BTrace, BOk
<1> HIDE DEF T
<1>3. x \in T /\ \A k \in T : x <= k
  BY <1>1, MinLeast
<1>4. x \in Nat /\ x <= D /\ D <= x /\ D \in Nat
  BY <1>0, <1>1, <1>2, <1>3
<1> HIDE DEF x
<1>5. x = D
  BY <1>4
<1> QED BY <1>5 DEF x, T, First, Binding!First

\* What follows the opcodes reads as DONE.
BEnding(x) == x \in Seq(Int) /\ Len(x) \in 0..2 /\ (Len(x) > 0 => x[1] = 0)

\* The DONE of the weak table and the padding.
LEMMA BEndings ==
    ASSUME NEW padding \in {<<>>, << 0 >>}, NEW x \in {<<>>, Binding!Bytes(Binding!Done)}
    PROVE  x \in Seq(Int) /\ padding \in Seq(Int) /\ BEnding(x \o padding)
<1>1. Imm \in Nat \ 0..2 /\ 0 \in 0..15 /\ 0 \in 0..(Imm - 1)
  BY WidthAssumption
<1>2. Byte(0, 0) \in Nat /\ CodeOf(Byte(0, 0)) = 0 /\ ImmediateOf(Byte(0, 0)) = 0
  BY <1>1, ByteReads
<1>3. Byte(0, 0) = 0
  <2> DEFINE b == Byte(0, 0)
  <2>2. b \div Imm = 0 /\ b % Imm = 0
    BY <1>2 DEF CodeOf, ImmediateOf
  <2>4. b \in Nat
    BY <1>2
  <2> HIDE DEF b
  <2>1. b = Imm * (b \div Imm) + (b % Imm)
    <3>1. b \in Int /\ Imm \in Nat \ {0}
      BY <1>1, <2>4
    <3> QED BY <3>1, DivDef
  <2>3. b = 0
    BY <1>1, <2>1, <2>2
  <2> QED BY <2>3 DEF b
<1>4. Binding!Byte(0, 0) = Byte(0, 0)
  BY DEF Binding!Byte, Byte, Binding!Or, Or
<1>5. Binding!Done.op = "DONE" /\ Binding!Codes["DONE"] = 0
  BY BCodes DEF Binding!Codes, Binding!Done, Binding!Op
<1>6. Binding!Bytes(Binding!Done) = << 0 >>
  BY <1>3, <1>4, <1>5 DEF Binding!Bytes, Binding!ImmediateOps
<1>7. x \in {<<>>, << 0 >>}
  BY <1>6
<1>8. <<>> \in Seq(Int) /\ << 0 >> \in Seq(Int) /\ Len(<<>>) = 0 /\ Len(<< 0 >>) = 1 /\ << 0 >>[1] = 0
  OBVIOUS
<1>9. x \in Seq(Int) /\ padding \in Seq(Int) /\ Len(x) \in 0..1 /\ Len(padding) \in 0..1
      /\ (Len(x) > 0 => x[1] = 0) /\ (Len(padding) > 0 => padding[1] = 0)
  <2>1. ASSUME NEW y \in {<<>>, << 0 >>} PROVE y \in Seq(Int) /\ Len(y) \in 0..1 /\ (Len(y) > 0 => y[1] = 0)
    <3>1. CASE y = <<>>
      BY <3>1, <1>8
    <3>2. CASE y = << 0 >>
      BY <3>2, <1>8
    <3> QED BY <3>1, <3>2
  <2> QED BY <1>7, <2>1
<1>10. /\ x \o padding \in Seq(Int) /\ Len(x \o padding) = Len(x) + Len(padding)
       /\ \A i \in 1..(Len(x) + Len(padding)) :
              (x \o padding)[i] = IF i <= Len(x) THEN x[i] ELSE padding[i - Len(x)]
  BY <1>9, Concat
<1> DEFINE y == x \o padding
<1> HIDE DEF y
<1>11. y \in Seq(Int) /\ Len(y) = Len(x) + Len(padding)
       /\ (Len(x) + Len(padding) > 0 => y[1] = IF 1 <= Len(x) THEN x[1] ELSE padding[1 - Len(x)])
  BY <1>9, <1>10 DEF y
<1>12. Len(x) = 0 => padding[1 - Len(x)] = padding[1]
  OBVIOUS
<1>13. BEnding(y)
  <2>1. Len(y) \in 0..2
    <3>1. Len(y) = Len(x) + Len(padding) /\ Len(x) \in 0..1 /\ Len(padding) \in 0..1
      BY <1>9, <1>11
    <3>2. \A i, j, k : i \in 0..1 /\ j \in 0..1 /\ k = i + j => k \in 0..2
      OBVIOUS
    <3> QED BY <3>1, <3>2
  <2>2. CASE Len(x) = 0
    BY <2>1, <2>2, <1>9, <1>11, <1>12 DEF BEnding
  <2>3. CASE Len(x) # 0
    <3>1. Len(x) = 1
      BY <2>3, <1>9
    <3>2. y[1] = 0
      BY <3>1, <1>9, <1>11
    <3> QED BY <2>1, <3>2, <1>11 DEF BEnding
  <2> QED BY <2>2, <2>3
<1> QED BY <1>9, <1>13 DEF y

\* The encoded data hold the opcodes one after the other.
LEMMA BConverts ==
    ASSUME NEW kd, NEW l, Len(l) \in Nat, Len(l) <= Imm + 1, NEW all, NEW ops, NEW w, NEW u, NEW D,
           BPass(kd, l, all, ops, 1, 1, w, u, D), NEW padding, BEnding(padding)
    PROVE  /\ Binding!Joined([k \in 1..(D - 1) |-> Binding!Bytes(ops[k])]) \in Seq(Int)
           /\ \E off : BLoaded(kd, l, all, ops,
                         Binding!Joined([k \in 1..(D - 1) |-> Binding!Bytes(ops[k])]) \o padding,
                         D - 1, u, off)
<1> DEFINE m == D - 1
           ss == [k \in 1..m |-> Binding!Bytes(ops[k])]
           f == Joined(ss)
           d == f \o padding
<1>0. D \in 1..Len(ops) /\ Len(ops) \in Nat /\ 1 - 1 = 0 /\ m \in Nat /\ D \in Nat
  BY DEF BPass
<1>1. /\ BTrace(kd, l, all, ops, u, 0, m) /\ u[0] = Binding!Dyld0(kd, l) /\ u[0] \in BStates(kd, all)
      /\ BBinds(u[m], all, Len(all))
  BY <1>0 DEF BPass
<1> HIDE DEF m
<1>2. \A k \in 1..m : BOk(kd, l, ops[k])
  <2> TAKE k \in 1..m
  <2>1. k \in (0 + 1)..m
    BY <1>0
  <2> QED BY <2>1, <1>1 DEF BTrace
<1>3. \A k \in 1..m : Binding!Bytes(ops[k]) \in Seq(Int)
                      /\ Len(Binding!Bytes(ops[k])) = 1 + Binding!Cells(ops[k].op)
  BY <1>2, BBytes
<1>4. ss \in [1..m -> Seq(Int)] /\ \A k \in 1..m : ss[k] = Binding!Bytes(ops[k])
  BY <1>3
<1>5. Binding!Joined([k \in 1..m |-> Binding!Bytes(ops[k])]) = f
  BY DEF Binding!Joined, Joined
<1> HIDE DEF ss, f
<1>6. PICK off \in [0..m -> Nat] :
             /\ off[0] = 0 /\ \A k \in 1..m : off[k] = off[k - 1] + Len(ss[k])
             /\ f \in Seq(Int) /\ Len(f) = off[m]
             /\ Reads(f, off, ss, m)
  BY <1>0, <1>4, Flatten DEF f
<1>7. padding \in Seq(Int) /\ Len(padding) \in 0..2 /\ (Len(padding) > 0 => padding[1] = 0)
  BY DEF BEnding
<1>8. /\ d \in Seq(Int) /\ Len(d) = Len(f) + Len(padding)
      /\ \A i \in 1..(Len(f) + Len(padding)) : d[i] = IF i <= Len(f) THEN f[i] ELSE padding[i - Len(f)]
  <2>1. f \in Seq(Int)
    BY <1>6
  <2>2. padding \in Seq(Int)
    BY <1>7
  <2> QED BY <2>1, <2>2, Concat
<1> HIDE DEF d
<1>9. off[m] \in Nat /\ m \in 0..m
  BY <1>0, <1>6
<1>10. Len(d) >= off[m] /\ (Len(d) > off[m] => d[off[m] + 1] = 0)
  <2>1. Len(d) = off[m] + Len(padding) /\ Len(padding) \in Nat
    BY <1>6, <1>7, <1>8
  <2>2. ASSUME Len(d) > off[m] PROVE d[off[m] + 1] = 0
    <3>1. Len(padding) > 0
      BY <2>1, <2>2, <1>9
    <3>2. off[m] + 1 \in 1..(Len(f) + Len(padding)) /\ ~(off[m] + 1 <= Len(f)) /\ (off[m] + 1) - Len(f) = 1
      BY <3>1, <2>1, <1>6, <1>9
    <3> QED BY <3>1, <3>2, <1>6, <1>7, <1>8
  <2> QED BY <2>1, <2>2, <1>9
<1>11. \A k \in 1..m : off[k] = off[k - 1] + 1 + Binding!Cells(ops[k].op)
  <2> TAKE k \in 1..m
  <2>1. off[k] = off[k - 1] + Len(ss[k]) /\ Len(ss[k]) = 1 + Binding!Cells(ops[k].op)
    BY <1>3, <1>4, <1>6
  <2>2. k - 1 \in 0..m /\ ops[k].op \in DOMAIN Binding!Codes
    BY <1>0, <1>2 DEF BOk, BOp
  <2>3. off[k - 1] \in Nat /\ Binding!Cells(ops[k].op) \in Nat
    BY <2>2, <1>6, BCells
  <2> QED BY <2>1, <2>3, SMTT(60)
<1>12. \A k \in 1..m : \A c \in 1..Len(Binding!Bytes(ops[k])) :
          off[k - 1] + c \in 1..off[m] /\ d[off[k - 1] + c] = Binding!Bytes(ops[k])[c]
  <2> TAKE k \in 1..m
  <2> TAKE c \in 1..Len(Binding!Bytes(ops[k]))
  <2>1. off[k - 1] + c \in 1..off[m] /\ f[off[k - 1] + c] = ss[k][c] /\ ss[k] = Binding!Bytes(ops[k])
    BY <1>4, <1>6 DEF Reads
  <2>2. off[k - 1] + c \in 1..(Len(f) + Len(padding)) /\ off[k - 1] + c <= Len(f)
    BY <2>1, <1>6, <1>7, <1>9
  <2> QED BY <2>1, <2>2, <1>8
<1>13. BLoaded(kd, l, all, ops, d, m, u, off)
  BY <1>0, <1>1, <1>6, <1>8, <1>10, <1>11, <1>12 DEF BLoaded
<1> QED BY <1>5, <1>6, <1>13 DEF d, m

\* At the place where an opcode begins, dyld reads it and comes to the next.
LEMMA BLoadedReads ==
    ASSUME NEW all, NEW m, NEW u, NEW off, BLoaded(kind, layout, all, mid, data, m, u, off),
           Len(layout) \in Nat, Len(layout) <= Imm + 1, NEW j \in 0..m
    PROVE  /\ u[j] \in BStates(kind, all) /\ off[j] \in Nat /\ Len(data) \in Nat
           /\ j < m => /\ off[j] + 1 <= Len(data)
                       /\ Binding!Readable(off[j] + 1) /\ Binding!OpAt(off[j] + 1) = mid[j + 1]
                       /\ BOk(kind, layout, mid[j + 1])
                       /\ Binding!Run1(kind, layout, u[j], mid[j + 1]) = u[j + 1] /\ u[j + 1] \in BStates(kind, all)
                       /\ off[j] + 1 + 1 + Binding!Cells(mid[j + 1].op) = off[j + 1] + 1
<1>1. /\ m \in Nat /\ data \in Seq(Int) /\ off \in [0..m -> Nat] /\ u[0] \in BStates(kind, all)
      /\ \A k \in (0 + 1)..m : BOk(kind, layout, mid[k]) /\ u[k] \in BStates(kind, all)
                               /\ u[k] = Binding!Run1(kind, layout, u[k - 1], mid[k])
      /\ Len(data) >= off[m]
  BY DEF BLoaded, BTrace
<1>2. off[j] \in Nat /\ Len(data) \in Nat /\ off[m] \in Nat
  BY <1>1
<1>3. u[j] \in BStates(kind, all)
  <2>1. CASE j = 0
    BY <2>1, <1>1
  <2>2. CASE j # 0
    <3>1. j \in (0 + 1)..m
      BY <2>2, <1>1
    <3> QED BY <3>1, <1>1
  <2> QED BY <2>1, <2>2
<1>4. ASSUME j < m
      PROVE  /\ off[j] + 1 <= Len(data)
             /\ Binding!Readable(off[j] + 1) /\ Binding!OpAt(off[j] + 1) = mid[j + 1]
             /\ BOk(kind, layout, mid[j + 1])
             /\ Binding!Run1(kind, layout, u[j], mid[j + 1]) = u[j + 1] /\ u[j + 1] \in BStates(kind, all)
             /\ off[j] + 1 + 1 + Binding!Cells(mid[j + 1].op) = off[j + 1] + 1
  <2> DEFINE k == j + 1
             o == mid[k]
             at == off[j] + 1
  <2>1. k \in (0 + 1)..m /\ k \in 1..m /\ k - 1 = j /\ k \in 0..m
    BY <1>1, <1>4
  <2>2. BOk(kind, layout, o) /\ u[k] \in BStates(kind, all) /\ u[k] = Binding!Run1(kind, layout, u[j], o)
    BY <2>1, <1>1
  <2>3. off[k] = off[j] + 1 + Binding!Cells(o.op)
    BY <2>1 DEF BLoaded
  <2>4. \A c \in 1..Len(Binding!Bytes(o)) : off[j] + c \in 1..off[m] /\ data[off[j] + c] = Binding!Bytes(o)[c]
    BY <2>1 DEF BLoaded
  <2>5. Len(Binding!Bytes(o)) = 1 + Binding!Cells(o.op)
    BY <2>2, BBytes
  <2>6. Binding!Cells(o.op) \in Nat
    BY <2>2, BCells DEF BOk, BOp
  <2> HIDE DEF k, o
  <2>7. at \in Nat /\ at + Binding!Cells(o.op) <= Len(data) /\ at <= Len(data)
    <3>1. 1 + Binding!Cells(o.op) \in 1..Len(Binding!Bytes(o))
      BY <2>5, <2>6
    <3>2. off[j] + (1 + Binding!Cells(o.op)) \in 1..off[m]
      BY <3>1, <2>4
    <3> DEFINE x == Binding!Cells(o.op)
    <3>3. x \in Nat /\ off[j] \in Nat /\ off[m] \in Nat /\ off[j] + (1 + x) <= off[m]
          /\ Len(data) \in Nat /\ off[m] <= Len(data)
      BY <3>2, <1>1, <1>2, <2>6
    <3> HIDE DEF x
    <3>4. off[j] + 1 + x <= Len(data) /\ off[j] + 1 <= Len(data)
      BY <3>3
    <3> QED BY <3>3, <3>4 DEF x
  <2>8. \A c \in 1..Len(Binding!Bytes(o)) : data[at + c - 1] = Binding!Bytes(o)[c]
    <3> TAKE c \in 1..Len(Binding!Bytes(o))
    <3>1. at + c - 1 = off[j] + c
      BY <1>2, <2>5, <2>6
    <3> QED BY <3>1, <2>4
  <2> HIDE DEF at
  <2>9. Binding!Readable(at) /\ Binding!OpAt(at) = o
    BY <2>2, <2>7, <2>8, <1>2, BDecodes
  <2>10. off[k] + 1 = at + 1 + Binding!Cells(o.op)
    BY <2>3, <2>6, <1>2 DEF at
  <2> QED BY <2>2, <2>7, <2>9, <2>10 DEF k, o, at
<1> QED BY <1>2, <1>3, <1>4

(****************************************************************************)
(* The bind tables: their entries, sorted                                   *)
(****************************************************************************)

\* An entry of a table of this kind.
BIn(kd, l, e) ==
    /\ e \in BEntry /\ e.sym # 0 /\ e.flags \in 0..2
    /\ -Imm < e.ordinal /\ e.ordinal # Binding!NoOrdinal
    /\ e.type \in 0..2 /\ (e.type # 0 => \E k : Within(l, k, e.address))
    /\ kd = "weak" => /\ e.ordinal = 0
                      /\ e.type = 0 => e.sym \in Overrides /\ e.flags = 2
                      /\ e.type # 0 => e.flags = 0
    /\ kd # "weak" => e.type # 0
    /\ kd = "lazy" => e.type = 1 /\ e.addend = 0

\* The pointers that can be bound.
LEMMA BPlaces ==
    ASSUME NEW l, WellFormed(l), NEW x \in Binding!Places(l)
    PROVE  /\ x[1] \in 0..(DyldWord - 1) /\ x[2] \in {1, 2} /\ x = <<x[1], x[2]>>
           /\ \E k : Within(l, k, x[1]) /\ x[2] = IF l[k].writable THEN 1 ELSE 2
<1>1. PICK k \in 1..(Len(l) - 1) : \E a \in l[k].start..(l[k].end - PtrSize) :
            x = <<a, IF l[k].writable THEN 1 ELSE 2>>
  BY DEF Binding!Places, Binding!Pointer, Binding!TextAbsolute32
<1>2. PICK a \in l[k].start..(l[k].end - PtrSize) : x = <<a, IF l[k].writable THEN 1 ELSE 2>>
  BY <1>1
<1>3. Len(l) \in Nat \ {0} /\ PtrSize \in Nat \ {0} /\ k \in 1..Len(l)
  BY SegmentFacts, WordsNest
<1>4. l[k].start \in Nat /\ l[k].end \in Nat
  BY <1>3, SegmentFacts
<1>5. a \in Nat /\ Within(l, k, a)
  BY <1>2, <1>3, <1>4 DEF Within
<1>6. a \in 0..(DyldWord - 1)
  BY <1>5, WithinFacts
<1>7. x[1] = a /\ x[2] = (IF l[k].writable THEN 1 ELSE 2) /\ x = <<x[1], x[2]>>
  BY <1>2
<1> QED BY <1>5, <1>6, <1>7

\* The type of a pointer is that of its segment.
LEMMA BPlaceIs ==
    ASSUME NEW l, WellFormed(l), NEW x \in Binding!Places(l), NEW y \in Binding!Places(l), x[1] = y[1]
    PROVE  x = y
<1>1. PICK j : Within(l, j, x[1]) /\ x[2] = IF l[j].writable THEN 1 ELSE 2
  BY BPlaces
<1>2. PICK k : Within(l, k, y[1]) /\ y[2] = IF l[k].writable THEN 1 ELSE 2
  BY BPlaces
<1>3. x[1] \in Nat
  <2>1. x[1] \in 0..(DyldWord - 1)
    BY BPlaces
  <2> QED BY <2>1
<1>4. /\ j \in 1..Len(l) /\ l[j].start <= x[1] /\ x[1] < l[j].end
      /\ k \in 1..Len(l) /\ l[k].start <= x[1] /\ x[1] < l[k].end
  BY <1>1, <1>2, <1>3, WithinFacts
<1>5. j = k
  BY <1>3, <1>4, WithinOne
<1>6. x = <<x[1], x[2]>> /\ y = <<y[1], y[2]>>
  BY BPlaces
<1> QED BY <1>1, <1>2, <1>5, <1>6

\* The entry of a pointer, and of an override.
BPointerEntry(kd, ref, x) ==
    Binding!Entry(kd, IF ref[x].sym \in Proxies THEN x[2] ELSE 1, IF ref[x].weak THEN 1 ELSE 0, ref[x].sym, x[1], ref[x].addend)
BOverrideEntry(kd, sym) == Binding!Entry(kd, 0, 2, sym, 0, 0)

\* The entries are those of the pointers and, in the weak table, of the overrides.
LEMMA BEntriesAre ==
    ASSUME NEW kd, NEW ref
    PROVE  /\ kd # "weak" => Binding!Entries(kd, ref) = {BPointerEntry(kd, ref, x) : x \in DOMAIN ref}
           /\ kd = "weak" => Binding!Entries(kd, ref) = {BPointerEntry(kd, ref, x) : x \in DOMAIN ref}
                                                        \cup {BOverrideEntry(kd, sym) : sym \in Overrides}
BY DEF Binding!Entries, BPointerEntry, BOverrideEntry, Binding!Override, Binding!WeakImport,
       Binding!NonWeakDefinition, Binding!Pointer

\* Every entry has an ordinal that dyld understands.
LEMMA BOrdinalOk ==
    ASSUME NEW sym \in DOMAIN Ordinal
    PROVE  sym \in Nat /\ sym # 0 /\ Ordinal[sym] \in Int /\ -Imm < Ordinal[sym]
           /\ Ordinal[sym] # Binding!NoOrdinal
<1>1. Imm \in Nat
  BY WidthAssumption
<1> QED BY <1>1, TablesAssumption

\* The entry of a pointer belongs to the table.
LEMMA BPointerIn ==
    ASSUME NEW kd \in Kinds, NEW l, WellFormed(l), NEW S \in SUBSET Binding!Places(l), NEW ref \in [S -> Refs],
           Binding!Possible(kd, ref), NEW x \in S
    PROVE  BIn(kd, l, BPointerEntry(kd, ref, x)) /\ BPointerEntry(kd, ref, x).address = x[1]
           /\ BPointerEntry(kd, ref, x).type # 0
<1> DEFINE e == BPointerEntry(kd, ref, x)
           sym == ref[x].sym
           given == IF sym \in Proxies THEN x[2] ELSE 1
<1>1. ref[x] \in Refs /\ DOMAIN ref = S
  OBVIOUS
<1>2. sym \in DOMAIN Ordinal /\ ref[x].addend \in Int /\ ref[x].weak \in BOOLEAN
  BY <1>1, TablesAssumption
<1>3. e = [type |-> given, flags |-> IF ref[x].weak THEN 1 ELSE 0,
           ordinal |-> IF kd = "weak" THEN 0 ELSE Ordinal[sym],
           sym |-> sym, address |-> x[1], addend |-> ref[x].addend]
  BY DEF BPointerEntry, Binding!Entry
<1>4. x[1] \in 0..(DyldWord - 1) /\ given \in {1, 2} /\ \E k : Within(l, k, x[1])
  BY BPlaces
<1>5. /\ kd = "lazy" => given = 1 /\ ref[x].addend = 0
      /\ kd = "weak" => ~ref[x].weak
  BY <1>1 DEF Binding!Possible, Binding!Pointer
<1>6. sym \in Nat /\ sym # 0 /\ Ordinal[sym] \in Int /\ -Imm < Ordinal[sym] /\ Ordinal[sym] # Binding!NoOrdinal
  BY <1>2, BOrdinalOk
<1>7. Imm \in Nat \ 0..2 /\ Binding!NoOrdinal # 0 /\ -Imm < 0 /\ 0 \in Int
  BY WidthAssumption DEF Binding!NoOrdinal
<1>8. e.type = given /\ e.flags = (IF ref[x].weak THEN 1 ELSE 0) /\ e.sym = sym /\ e.address = x[1]
      /\ e.addend = ref[x].addend /\ e.ordinal = (IF kd = "weak" THEN 0 ELSE Ordinal[sym])
  BY <1>3
<1>9. e \in BEntry
  <2>1. x[1] \in Nat /\ given \in Nat
    BY <1>4
  <2>2. (IF ref[x].weak THEN 1 ELSE 0) \in Nat /\ (IF kd = "weak" THEN 0 ELSE Ordinal[sym]) \in Int
    BY <1>6, <1>7
  <2> HIDE DEF sym, given
  <2> QED BY <1>2, <1>3, <1>6, <2>1, <2>2 DEF BEntry
<1> HIDE DEF e, sym, given
<1>10. e.flags \in 0..2 /\ e.type \in 0..2 /\ e.type # 0 /\ (kd = "weak" => e.flags = 0)
  BY <1>4, <1>5, <1>8
<1>11. -Imm < e.ordinal /\ e.ordinal # Binding!NoOrdinal /\ (kd = "weak" => e.ordinal = 0)
  BY <1>6, <1>7, <1>8
<1>12. BIn(kd, l, e)
  BY <1>4, <1>5, <1>6, <1>8, <1>9, <1>10, <1>11 DEF BIn
<1> QED BY <1>8, <1>10, <1>12 DEF e

\* The entry of an override belongs to the weak table.
LEMMA BOverrideIn ==
    ASSUME NEW l, NEW sym \in Overrides
    PROVE  BIn("weak", l, BOverrideEntry("weak", sym)) /\ BOverrideEntry("weak", sym).sym = sym
           /\ BOverrideEntry("weak", sym).type = 0 /\ BOverrideEntry("weak", sym).address = 0
<1> DEFINE e == BOverrideEntry("weak", sym)
<1>1. e = [type |-> 0, flags |-> 2, ordinal |-> 0, sym |-> sym, address |-> 0, addend |-> 0]
  BY DEF BOverrideEntry, Binding!Entry
<1>2. sym \in Nat /\ sym # 0
  BY TablesAssumption, BOrdinalOk
<1>3. Binding!NoOrdinal # 0 /\ -Imm < 0
  BY WidthAssumption DEF Binding!NoOrdinal
<1>4. e \in BEntry
  BY <1>1, <1>2 DEF BEntry
<1>5. e.type = 0 /\ e.flags = 2 /\ e.ordinal = 0 /\ e.sym = sym /\ e.address = 0
  BY <1>1
<1> HIDE DEF e
<1>6. BIn("weak", l, e)
  BY <1>2, <1>3, <1>4, <1>5 DEF BIn
<1> QED BY <1>5, <1>6 DEF e

\* The weak table has the entries of a symbol together, an override first.
BGrouped(inf) ==
    /\ \A i, j \in 1..Len(inf) : i < j =>
          inf[i].sym <= inf[j].sym /\ (inf[i].sym = inf[j].sym => inf[i].type <= inf[j].type)
    /\ \A i \in 1..Len(inf) : inf[i].sym \in Overrides =>
          \E m \in 1..Len(inf) : inf[m].sym = inf[i].sym /\ inf[m].type = 0

\* The table ld sorts.
BTable(kd, l, inf) ==
    /\ kd \in {"bind", "weak", "lazy"} /\ l \in BindLayouts /\ inf \in Seq(BEntry)
    /\ \A i \in 1..Len(inf) : BIn(kd, l, inf[i])
    /\ kd = "weak" => BGrouped(inf)

\* What the table is made of.
BSet(kd, l, U) ==
    /\ IsFiniteSet(U) /\ \A e \in U : BIn(kd, l, e)
    /\ \A e, f \in U : e.type # 0 /\ f.type # 0 /\ e.address = f.address => e = f
    /\ \A e, f \in U : e.type = 0 /\ f.type = 0 /\ e.sym = f.sym => e = f
    /\ kd = "weak" => \A sym \in Overrides : \E e \in U : e.sym = sym /\ e.type = 0

\* No pointer is bound twice and no symbol overridden twice.
LEMMA BEntriesSet ==
    ASSUME NEW kd \in Kinds, NEW l, WellFormed(l), NEW S \in SUBSET Binding!Places(l), NEW ref \in [S -> Refs],
           Binding!Possible(kd, ref)
    PROVE  BSet(kd, l, Binding!Entries(kd, ref))
<1> DEFINE P == {BPointerEntry(kd, ref, x) : x \in S}
           O == {BOverrideEntry("weak", sym) : sym \in Overrides}
           U == Binding!Entries(kd, ref)
<1>1. DOMAIN ref = S
  OBVIOUS
<1>2. (kd # "weak" => U = P) /\ (kd = "weak" => U = P \cup O)
  BY <1>1, BEntriesAre
<1>3. \A x \in S : BIn(kd, l, BPointerEntry(kd, ref, x)) /\ BPointerEntry(kd, ref, x).address = x[1]
                   /\ BPointerEntry(kd, ref, x).type # 0
  BY BPointerIn
<1>4. \A sym \in Overrides : BIn("weak", l, BOverrideEntry("weak", sym)) /\ BOverrideEntry("weak", sym).sym = sym
                             /\ BOverrideEntry("weak", sym).type = 0
  BY BOverrideIn
<1> HIDE DEF U
<1>5. \A e \in P : BIn(kd, l, e) /\ e.type # 0 /\ e.address \in 0..(DyldWord - 1)
  <2> TAKE e \in P
  <2>1. PICK x \in S : e = BPointerEntry(kd, ref, x)
    OBVIOUS
  <2>2. x[1] \in 0..(DyldWord - 1)
    BY BPlaces
  <2> QED BY <2>1, <2>2, <1>3
<1>6. \A e, f \in P : e.address = f.address => e = f
  <2> TAKE e, f \in P
  <2>1. PICK x \in S : e = BPointerEntry(kd, ref, x)
    OBVIOUS
  <2>2. PICK y \in S : f = BPointerEntry(kd, ref, y)
    OBVIOUS
  <2>3. e.address = x[1] /\ f.address = y[1]
    BY <2>1, <2>2, <1>3
  <2>4. x[1] = y[1] => x = y
    BY BPlaceIs
  <2> QED BY <2>1, <2>2, <2>3, <2>4
<1>7. \A e \in O : BIn("weak", l, e) /\ e.type = 0 /\ e.sym \in Overrides /\ e = BOverrideEntry("weak", e.sym)
  BY <1>4
<1>8. \A sym \in Overrides : \E e \in O : e.sym = sym /\ e.type = 0
  BY <1>4
<1> HIDE DEF P, O
<1>9. IsFiniteSet(P)
  <2> DEFINE g == [e \in P |-> e.address]
             T == 0..(DyldWord - 1)
  <2>1. g \in [P -> T]
    BY <1>5
  <2>2. \A e, f \in P : g[e] = g[f] => e = f
    BY <1>6
  <2>3. IsFiniteSet(T)
    <3>1. DyldWord - 1 \in Int /\ 0 \in Int
      BY WordsNest
    <3> QED BY <3>1, FS_Interval
  <2> HIDE DEF g, T
  <2>4. g \in Injection(P, T)
    BY <2>1, <2>2 DEF Injection, IsInjective
  <2> QED BY <2>3, <2>4, FS_Injection
<1>10. IsFiniteSet(O)
  <2> DEFINE g == [e \in O |-> e.sym]
  <2>1. g \in [O -> Overrides]
    BY <1>7
  <2>2. \A e, f \in O : g[e] = g[f] => e = f
    <3> TAKE e, f \in O
    <3>1. g[e] = e.sym /\ g[f] = f.sym /\ e = BOverrideEntry("weak", e.sym) /\ f = BOverrideEntry("weak", f.sym)
      BY <1>7
    <3> HIDE DEF g
    <3> QED BY <3>1
  <2> HIDE DEF g
  <2>3. g \in Injection(O, Overrides)
    BY <2>1, <2>2 DEF Injection, IsInjective
  <2> QED BY <2>3, TablesAssumption, FS_Injection
<1>11. CASE kd = "weak"
  <2>1. U = P \cup O
    BY <1>2, <1>11
  <2>2. IsFiniteSet(U)
    BY <1>9, <1>10, <2>1, FS_Union
  <2>3. \A e \in U : BIn(kd, l, e)
    BY <1>5, <1>7, <1>11, <2>1
  <2>4. \A e, f \in U : e.type # 0 /\ f.type # 0 /\ e.address = f.address => e = f
    BY <1>6, <1>7, <2>1
  <2>5. \A e, f \in U : e.type = 0 /\ f.type = 0 /\ e.sym = f.sym => e = f
    BY <1>5, <1>7, <2>1
  <2>6. \A sym \in Overrides : \E e \in U : e.sym = sym /\ e.type = 0
    BY <1>8, <2>1
  <2> QED BY <2>2, <2>3, <2>4, <2>5, <2>6 DEF BSet, U
<1>12. CASE kd # "weak"
  <2>1. U = P
    BY <1>2, <1>12
  <2>2. \A e, f \in U : e.type = 0 /\ f.type = 0 /\ e.sym = f.sym => e = f
    BY <1>5, <2>1
  <2> QED BY <1>5, <1>6, <1>9, <1>12, <2>1, <2>2 DEF BSet, U
<1> QED BY <1>11, <1>12

\* A list of the set is a table.
LEMMA BListTable ==
    ASSUME NEW kd \in {"bind", "weak", "lazy"}, NEW l \in BindLayouts, NEW U, BSet(kd, l, U),
           NEW R, NEW inf, Lists(inf, R, U),
           kd = "weak" => \A e, f \in U : <<e, f>> \in R =>
              e.sym <= f.sym /\ (e.sym = f.sym => e.type <= f.type)
    PROVE  BTable(kd, l, inf)
<1>1. IsFiniteSet(U) /\ \A e \in U : BIn(kd, l, e) /\ e \in BEntry
  BY DEF BSet, BIn
<1>2. Cardinality(U) \in Nat
  BY <1>1, FS_CardinalityType
<1>3. inf \in [1..Cardinality(U) -> U]
  BY DEF Lists
<1>4. inf \in Seq(BEntry) /\ Len(inf) = Cardinality(U)
  <2>1. inf \in [1..Cardinality(U) -> BEntry]
    BY <1>1, <1>3
  <2> QED BY <2>1, <1>2
<1>5. \A i \in 1..Len(inf) : inf[i] \in U
  BY <1>3, <1>4
<1>6. \A i, j \in 1..Len(inf) : i < j => <<inf[i], inf[j]>> \in R
  BY <1>4 DEF Lists
<1>7. \A e \in U : \E m \in 1..Len(inf) : inf[m] = e
  BY <1>4 DEF Lists
<1>8. ASSUME kd = "weak" PROVE BGrouped(inf)
  <2>1. \A i, j \in 1..Len(inf) : i < j =>
          inf[i].sym <= inf[j].sym /\ (inf[i].sym = inf[j].sym => inf[i].type <= inf[j].type)
    BY <1>5, <1>6, <1>8
  <2>2. \A i \in 1..Len(inf) : inf[i].sym \in Overrides =>
          \E m \in 1..Len(inf) : inf[m].sym = inf[i].sym /\ inf[m].type = 0
    <3> SUFFICES ASSUME NEW i \in 1..Len(inf), inf[i].sym \in Overrides
                 PROVE  \E m \in 1..Len(inf) : inf[m].sym = inf[i].sym /\ inf[m].type = 0
      OBVIOUS
    <3>1. PICK e \in U : e.sym = inf[i].sym /\ e.type = 0
      BY <1>8 DEF BSet
    <3>2. PICK m \in 1..Len(inf) : inf[m] = e
      BY <1>7
    <3> QED BY <3>1, <3>2
  <2> QED BY <2>1, <2>2 DEF BGrouped
<1>9. \A i \in 1..Len(inf) : BIn(kd, l, inf[i])
  BY <1>1, <1>5
<1> QED BY <1>4, <1>8, <1>9 DEF BTable

\* std::sort of the table of this kind.
BIsBefore(kd, e, f) == IF kd = "lazy" THEN e.address < f.address ELSE Binding!Before(e, f)

BRelation(kd, U) == {x \in U \X U : BIsBefore(kd, x[1], x[2])}

\* operator< of the table is a total order of its entries.
LEMMA BOrder ==
    ASSUME NEW kd, NEW l, NEW U, BSet(kd, l, U)
    PROVE  Total(BRelation(kd, U), U)
<1> DEFINE R == BRelation(kd, U)
<1>1. \A e, f \in U : <<e, f>> \in R <=> BIsBefore(kd, e, f)
  BY DEF BRelation
<1> HIDE DEF R
<1>2. \A e \in U : e.ordinal \in Int /\ e.sym \in Nat /\ e.type \in Nat /\ e.address \in Nat
  BY DEF BSet, BIn, BEntry
<1>3. \A e, f \in U : e = f \/ e.address # f.address \/ e.type # f.type \/ e.sym # f.sym
  BY DEF BSet
<1>4. kd = "lazy" => \A e, f \in U : e = f \/ e.address # f.address
  BY DEF BSet, BIn
<1>5. CASE kd = "lazy"
  <2>1. \A e, f \in U : <<e, f>> \in R <=> e.address < f.address
    BY <1>1, <1>5 DEF BIsBefore
  <2>2. \A x \in U : <<x, x>> \notin R
    BY <2>1, <1>2
  <2>3. \A x, y \in U : x = y \/ <<x, y>> \in R \/ <<y, x>> \in R
    <3> TAKE x, y \in U
    <3>1. x.address \in Nat /\ y.address \in Nat
      BY <1>2
    <3>2. x = y \/ x.address # y.address
      BY <1>4, <1>5
    <3> QED BY <2>1, <3>1, <3>2
  <2>4. \A x, y, z \in U : <<x, y>> \in R /\ <<y, z>> \in R => <<x, z>> \in R
    BY <2>1, <1>2
  <2> QED BY <2>2, <2>3, <2>4 DEF Total, R
<1>6. CASE kd # "lazy"
  <2>1. \A e, f \in U : <<e, f>> \in R <=>
          \/ e.ordinal < f.ordinal
          \/ e.ordinal = f.ordinal /\ e.sym < f.sym
          \/ e.ordinal = f.ordinal /\ e.sym = f.sym /\ e.type < f.type
          \/ e.ordinal = f.ordinal /\ e.sym = f.sym /\ e.type = f.type /\ e.address < f.address
    BY <1>1, <1>6 DEF BIsBefore, Binding!Before
  <2>2. \A x \in U : <<x, x>> \notin R
    BY <2>1, <1>2
  <2>3. \A x, y \in U : x = y \/ <<x, y>> \in R \/ <<y, x>> \in R
    <3> TAKE x, y \in U
    <3>1. x.ordinal \in Int /\ x.sym \in Nat /\ x.type \in Nat /\ x.address \in Nat
          /\ y.ordinal \in Int /\ y.sym \in Nat /\ y.type \in Nat /\ y.address \in Nat
      BY <1>2
    <3>2. x = y \/ x.ordinal # y.ordinal \/ x.sym # y.sym \/ x.type # y.type \/ x.address # y.address
      BY <1>3
    <3> QED BY <2>1, <3>1, <3>2
  <2>4. \A x, y, z \in U : <<x, y>> \in R /\ <<y, z>> \in R => <<x, z>> \in R
    <3> TAKE x, y, z \in U
    <3> QED BY <2>1, <1>2
  <2> QED BY <2>2, <2>3, <2>4 DEF Total, R
<1> QED BY <1>5, <1>6

\* The table is the list of its entries in that order.
LEMMA BSortedLists ==
    ASSUME NEW kd, NEW U, IsFiniteSet(U), Total(BRelation(kd, U), U)
    PROVE  Lists(Binding!Sorted(kd, U), BRelation(kd, U), U)
<1> DEFINE R == BRelation(kd, U)
<1>1. \A e \in U : {f \in U : BIsBefore(kd, f, e)} = {f \in U : <<f, e>> \in R}
  BY DEF BRelation
<1>6. Total(R, U)
  OBVIOUS
<1> HIDE DEF R
<1>2. \A k : (CHOOSE e \in U : Cardinality({f \in U : BIsBefore(kd, f, e)}) = k - 1)
             = (CHOOSE e \in U : Cardinality({f \in U : <<f, e>> \in R}) = k - 1)
  BY <1>1
<1>3. Binding!Sorted(kd, U)
        = [k \in 1..Cardinality(U) |-> CHOOSE e \in U : Cardinality({f \in U : BIsBefore(kd, f, e)}) = k - 1]
  <2>1. CASE kd = "lazy"
    BY <2>1 DEF Binding!Cardinality, Cardinality, Binding!InOrder, Binding!Sorted, BIsBefore
  <2>2. CASE kd # "lazy"
    BY <2>2 DEF Binding!Cardinality, Cardinality, Binding!InOrder, Binding!Sorted, BIsBefore
  <2> QED BY <2>1, <2>2
<1>4. Lists(Listing(R, U), R, U)
  BY <1>6, InOrderLists
<1>5. Binding!Sorted(kd, U) = Listing(R, U)
  BY <1>2, <1>3 DEF Listing
<1> QED BY <1>4, <1>5 DEF R

\* The table that encode begins with is sorted, and the weak one has the entries of a
\* symbol together.
LEMMA BSortedTable ==
    ASSUME NEW kd \in Kinds, NEW l \in BindLayouts, WellFormed(l), NEW S \in SUBSET Binding!Places(l),
           NEW ref \in [S -> Refs], Binding!Possible(kd, ref)
    PROVE  BTable(kd, l, Binding!Sorted(kd, Binding!Entries(kd, ref)))
<1> DEFINE U == Binding!Entries(kd, ref)
           R == BRelation(kd, U)
           inf == Binding!Sorted(kd, U)
<1>1. BSet(kd, l, U)
  BY BEntriesSet
<1> HIDE DEF U
<1>2. Total(R, U)
  BY <1>1, BOrder
<1>4. Lists(inf, R, U)
  <2>1. IsFiniteSet(U)
    BY <1>1 DEF BSet
  <2> QED BY <2>1, <1>2, BSortedLists
<1>5. kd \in {"bind", "weak", "lazy"}
  BY TablesAssumption
<1>6. kd = "weak" => \A e, f \in U : <<e, f>> \in R => e.sym <= f.sym /\ (e.sym = f.sym => e.type <= f.type)
  <2> SUFFICES ASSUME kd = "weak", NEW e \in U, NEW f \in U, <<e, f>> \in R
               PROVE  e.sym <= f.sym /\ (e.sym = f.sym => e.type <= f.type)
    OBVIOUS
  <2>1. Binding!Before(e, f)
    BY <1>5 DEF BRelation, BIsBefore
  <2>2. e.ordinal = 0 /\ f.ordinal = 0 /\ e.sym \in Nat /\ f.sym \in Nat /\ e.type \in Nat /\ f.type \in Nat
    BY <1>1 DEF BSet, BIn, BEntry
  <2> QED BY <2>1, <2>2 DEF Binding!Before
<1> HIDE DEF R, inf
<1> QED BY <1>1, <1>4, <1>5, <1>6, BListTable DEF inf, U

\* The next entry, unless it is an override.
BPick(x, e) == IF e.type = 0 THEN x ELSE Append(x, e)

\* t[k] are the pointers to bind among the first k entries.
BChosen(inf, t) ==
    /\ t \in [0..Len(inf) -> Seq(BEntry)] /\ t[0] = <<>>
    /\ \A k \in 1..Len(inf) : t[k] = BPick(t[k - 1], inf[k])

\* The pointers to bind among the first entries.
LEMMA BChosenExists ==
    ASSUME NEW inf \in Seq(BEntry)
    PROVE  \E t : BChosen(inf, t)
<1> DEFINE m == Len(inf)
           Rec(f, j) == f[0] = <<>> /\ \A i \in 1..j : f[i] = BPick(f[i - 1], inf[i])
           P(j) == j <= m => \E f \in [0..j -> Seq(BEntry)] : Rec(f, j)
<1>0. m \in Nat
  OBVIOUS
<1>1. P(0)
  <2> DEFINE f == [i \in 0..0 |-> << >>]
  <2>1. f \in [0..0 -> Seq(BEntry)] /\ f[0] = <<>>
    OBVIOUS
  <2> HIDE DEF f
  <2>2. Rec(f, 0)
    BY <2>1
  <2> QED BY <2>1, <2>2
<1>2. ASSUME NEW j \in Nat, P(j) PROVE P(j + 1)
  <2> SUFFICES ASSUME j + 1 <= m
               PROVE  \E f \in [0..(j + 1) -> Seq(BEntry)] : Rec(f, j + 1)
    OBVIOUS
  <2>1. PICK f \in [0..j -> Seq(BEntry)] : Rec(f, j)
    BY <1>0, <1>2
  <2> DEFINE v == BPick(f[j], inf[j + 1])
             h == [i \in 0..(j + 1) |-> IF i = j + 1 THEN v ELSE f[i]]
  <2>2. v \in Seq(BEntry)
    <3>1. f[j] \in Seq(BEntry) /\ inf[j + 1] \in BEntry
      BY <2>1, <1>0
    <3> QED BY <3>1 DEF BPick
  <2> HIDE DEF v
  <2>3. h \in [0..(j + 1) -> Seq(BEntry)]
    BY <2>2
  <2>4. h[0] = <<>>
    BY <2>1
  <2>5. ASSUME NEW i \in 1..(j + 1)
        PROVE  h[i] = BPick(h[i - 1], inf[i])
    <3>1. CASE i = j + 1
      <4>1. h[i] = v /\ h[i - 1] = f[j]
        BY <3>1
      <4> HIDE DEF h
      <4> QED BY <3>1, <4>1 DEF v
    <3>2. CASE i # j + 1
      <4>1. i \in 1..j /\ h[i] = f[i] /\ h[i - 1] = f[i - 1]
        BY <3>2
      <4> HIDE DEF h
      <4> QED BY <4>1, <2>1
    <3> QED BY <3>1, <3>2
  <2> HIDE DEF h
  <2>6. Rec(h, j + 1)
    BY <2>4, <2>5
  <2> QED BY <2>3, <2>6
<1>3. \A j \in Nat : P(j)
  <2> DEFINE T == {j \in Nat : P(j)}
  <2> HIDE DEF P
  <2>1. 0 \in T /\ \A j \in Nat : j \in T => j + 1 \in T
    BY <1>1, <1>2
  <2> HIDE DEF T
  <2>2. Nat \subseteq T
    BY <2>1, SetInduction
  <2> QED BY <2>2 DEF T
<1>4. PICK f \in [0..m -> Seq(BEntry)] : Rec(f, m)
  <2>1. P(m)
    <3> HIDE DEF P
    <3> QED BY <1>0, <1>3
  <2> HIDE DEF Rec
  <2> QED BY <1>0, <2>1
<1> QED BY <1>4 DEF BChosen

\* ToBind, a recursive function, returns the pointers chosen from all entries.
LEMMA BToBindIs ==
    ASSUME NEW s, Len(s) \in Nat, NEW t, t[0] = <<>>, \A k \in 1..Len(s) : t[k] = BPick(t[k - 1], s[k])
    PROVE  Binding!ToBind(s) = t[Len(s)]
<1> DEFINE m == Len(s)
           IsRun(f) == f = [k \in 0..m |-> IF k = 0 THEN <<>> ELSE BPick(f[k - 1], s[k])]
           g == CHOOSE run : IsRun(run)
           h == [k \in 0..m |-> t[k]]
<1>a. Binding!ToBind(s) = g[m]
  BY DEF Binding!ToBind, BPick, Binding!Override
<1>b. \A k \in 1..m : t[k] = BPick(t[k - 1], s[k])
  OBVIOUS
<1>c. m \in Nat
  OBVIOUS
<1> HIDE DEF m
<1>1. IsRun(h)
  <2>1. \A k \in 0..m : h[k] = IF k = 0 THEN <<>> ELSE BPick(h[k - 1], s[k])
    <3> TAKE k \in 0..m
    <3>1. CASE k = 0
      BY <3>1, <1>c
    <3>2. CASE k # 0
      <4>1. k - 1 \in 0..m /\ k \in 1..m
        BY <3>2, <1>c
      <4>2. h[k - 1] = t[k - 1] /\ h[k] = t[k]
        BY <4>1
      <4> HIDE DEF h
      <4> QED BY <4>1, <4>2, <3>2, <1>b
    <3> QED BY <3>1, <3>2
  <2>2. h = [k \in 0..m |-> h[k]]
    OBVIOUS
  <2> HIDE DEF h
  <2> QED BY <2>1, <2>2
<1>2. IsRun(g)
  <2> HIDE DEF IsRun
  <2> QED BY <1>1
<1> HIDE DEF g
<1>3. g[0] = t[0] /\ \A k \in 1..m : g[k] = BPick(g[k - 1], s[k])
  <2>1. \A k \in 0..m : g[k] = IF k = 0 THEN <<>> ELSE BPick(g[k - 1], s[k])
    BY <1>2, Zenon
  <2>2. 0 \in 0..m /\ \A k \in 1..m : k \in 0..m /\ k # 0
    BY <1>c
  <2> QED BY <2>1, <2>2, Zenon
<1> DEFINE P(k) == k <= m => g[k] = t[k]
<1>4. P(0)
  BY <1>3
<1>5. ASSUME NEW k \in Nat, P(k) PROVE P(k + 1)
  <2> SUFFICES ASSUME k + 1 <= m PROVE g[k + 1] = t[k + 1]
    OBVIOUS
  <2>1. k + 1 \in 1..m /\ (k + 1) - 1 = k
    BY <1>c
  <2>2. g[k + 1] = BPick(g[(k + 1) - 1], s[k + 1])
    BY <2>1, <1>3, Zenon
  <2>3. t[k + 1] = BPick(t[(k + 1) - 1], s[k + 1])
    BY <2>1, <1>b, Zenon
  <2>4. g[k] = t[k]
    BY <1>5, <1>c
  <2> QED BY <2>1, <2>2, <2>3, <2>4
<1>6. \A k \in Nat : P(k)
  <2> DEFINE T == {k \in Nat : P(k)}
  <2> HIDE DEF P
  <2>1. 0 \in T /\ \A k \in Nat : k \in T => k + 1 \in T
    BY <1>4, <1>5
  <2> HIDE DEF T
  <2>2. Nat \subseteq T
    BY <2>1, SetInduction
  <2> QED BY <2>2 DEF T
<1>7. g[m] = t[m]
  BY <1>6, <1>c
<1> QED BY <1>a, <1>7 DEF m

\* And from the first entries those chosen from them.
LEMMA BChosenIs ==
    ASSUME NEW inf \in Seq(BEntry), NEW t, BChosen(inf, t), NEW i \in 0..Len(inf)
    PROVE  Binding!ToBind(SubSeq(inf, 1, i)) = t[i]
<1> DEFINE s == SubSeq(inf, 1, i)
<1>1. Len(s) = i /\ \A k \in 1..i : s[k] = inf[k]
  OBVIOUS
<1> HIDE DEF s
<1>2. t[0] = <<>> /\ \A k \in 1..Len(s) : t[k] = BPick(t[k - 1], s[k])
  BY <1>1 DEF BChosen
<1>3. Binding!ToBind(s) = t[Len(s)]
  BY <1>1, <1>2, BToBindIs
<1> QED BY <1>1, <1>3 DEF s

\* The pointers chosen first stay at their places.
LEMMA BChosenGrows ==
    ASSUME NEW inf \in Seq(BEntry), NEW t, BChosen(inf, t), NEW i \in 0..Len(inf)
    PROVE  /\ t[i] \in Seq(BEntry) /\ t[Len(inf)] \in Seq(BEntry) /\ Len(t[i]) <= Len(t[Len(inf)])
           /\ \A k \in 1..Len(t[i]) : t[Len(inf)][k] = t[i][k]
<1> DEFINE m == Len(inf)
           Grows(x, y) == Len(x) <= Len(y) /\ \A k \in 1..Len(x) : y[k] = x[k]
           P(j) == i <= j /\ j <= m => Grows(t[i], t[j])
<1>0. m \in Nat /\ t \in [0..m -> Seq(BEntry)]
  BY DEF BChosen
<1>1. P(0)
  <2> SUFFICES ASSUME i <= 0 PROVE Grows(t[i], t[0])
    OBVIOUS
  <2>1. i = 0 /\ t[0] \in Seq(BEntry)
    BY <1>0
  <2> QED BY <2>1
<1>2. ASSUME NEW j \in Nat, P(j) PROVE P(j + 1)
  <2> SUFFICES ASSUME i <= j + 1, j + 1 <= m PROVE Grows(t[i], t[j + 1])
    OBVIOUS
  <2>1. CASE i = j + 1
    <3>1. t[j + 1] \in Seq(BEntry)
      BY <1>0
    <3> QED BY <2>1, <3>1
  <2>2. CASE i # j + 1
    <3>1. Grows(t[i], t[j]) /\ t[i] \in Seq(BEntry) /\ t[j] \in Seq(BEntry)
      <4>1. i <= j /\ j <= m /\ i \in 0..m /\ j \in 0..m
        BY <2>2, <1>0
      <4>2. Grows(t[i], t[j])
        <5> HIDE DEF Grows
        <5> QED BY <4>1, <1>2
      <4> HIDE DEF Grows
      <4> QED BY <4>1, <4>2, <1>0
    <3>2. j + 1 \in 1..m /\ (j + 1) - 1 = j
      BY <1>0
    <3>3. t[j + 1] = BPick(t[j], inf[j + 1]) /\ inf[j + 1] \in BEntry
      BY <3>2 DEF BChosen
    <3>4. CASE inf[j + 1].type = 0
      BY <3>1, <3>3, <3>4 DEF BPick
    <3>5. CASE inf[j + 1].type # 0
      <4> DEFINE x == t[i]
                 y == t[j]
                 e == inf[j + 1]
      <4>1. x \in Seq(BEntry) /\ y \in Seq(BEntry) /\ e \in BEntry /\ Grows(x, y)
        BY <3>1, <3>3
      <4> HIDE DEF x, y, e
      <4>2. Len(Append(y, e)) = Len(y) + 1 /\ \A k \in 1..Len(y) : Append(y, e)[k] = y[k]
        BY <4>1
      <4>3. Grows(x, Append(y, e))
        BY <4>1, <4>2
      <4>4. t[j + 1] = Append(y, e)
        BY <3>3, <3>5 DEF BPick, y, e
      <4> QED BY <4>3, <4>4 DEF x
    <3> QED BY <3>4, <3>5
  <2> QED BY <2>1, <2>2
<1>3. \A j \in Nat : P(j)
  <2> DEFINE T == {j \in Nat : P(j)}
  <2> HIDE DEF P
  <2>1. 0 \in T /\ \A j \in Nat : j \in T => j + 1 \in T
    BY <1>1, <1>2
  <2> HIDE DEF T
  <2>2. Nat \subseteq T
    BY <2>1, SetInduction
  <2> QED BY <2>2 DEF T
<1>4. Grows(t[i], t[m])
  BY <1>0, <1>3
<1> QED BY <1>0, <1>4

\* The next entry is the next pointer to bind, or an override.
LEMMA BChosenNext ==
    ASSUME NEW inf \in Seq(BEntry), NEW t, BChosen(inf, t), NEW i \in Nat, i < Len(inf)
    PROVE  /\ inf[i + 1].type = 0 => Len(t[i + 1]) = Len(t[i])
           /\ inf[i + 1].type # 0 => /\ Len(t[i + 1]) = Len(t[i]) + 1
                                     /\ t[Len(inf)][Len(t[i]) + 1] = inf[i + 1]
           /\ Len(t[i]) \in 0..Len(t[Len(inf)]) /\ Len(t[i + 1]) \in 0..Len(t[Len(inf)])
<1>1. i \in 0..Len(inf) /\ i + 1 \in 0..Len(inf) /\ i + 1 \in 1..Len(inf) /\ (i + 1) - 1 = i
  OBVIOUS
<1>2. t[i + 1] = BPick(t[i], inf[i + 1]) /\ inf[i + 1] \in BEntry
  BY <1>1 DEF BChosen
<1>3. /\ t[i] \in Seq(BEntry) /\ Len(t[i]) <= Len(t[Len(inf)]) /\ t[Len(inf)] \in Seq(BEntry)
      /\ t[i + 1] \in Seq(BEntry) /\ Len(t[i + 1]) <= Len(t[Len(inf)])
      /\ \A k \in 1..Len(t[i + 1]) : t[Len(inf)][k] = t[i + 1][k]
  BY <1>1, BChosenGrows
<1>4. Len(t[i]) \in 0..Len(t[Len(inf)]) /\ Len(t[i + 1]) \in 0..Len(t[Len(inf)])
  BY <1>3
<1>5. ASSUME inf[i + 1].type # 0
      PROVE  Len(t[i + 1]) = Len(t[i]) + 1 /\ t[Len(inf)][Len(t[i]) + 1] = inf[i + 1]
  <2>1. t[i + 1] = Append(t[i], inf[i + 1])
    BY <1>2, <1>5 DEF BPick
  <2>2. Len(t[i + 1]) = Len(t[i]) + 1 /\ t[i + 1][Len(t[i]) + 1] = inf[i + 1]
    <3> DEFINE x == t[i]
               e == inf[i + 1]
    <3>1. x \in Seq(BEntry) /\ e \in BEntry
      BY <1>2, <1>3
    <3> HIDE DEF x, e
    <3>2. Len(Append(x, e)) = Len(x) + 1 /\ Append(x, e)[Len(x) + 1] = e
      BY <3>1
    <3> QED BY <2>1, <3>2 DEF x, e
  <2>3. Len(t[i]) + 1 \in 1..Len(t[i + 1])
    BY <2>2, <1>3
  <2> QED BY <2>2, <2>3, <1>3
<1>6. inf[i + 1].type = 0 => Len(t[i + 1]) = Len(t[i])
  BY <1>2 DEF BPick
<1> QED BY <1>4, <1>5, <1>6

(****************************************************************************)
(* The bind and the weak table: the translation of their entries            *)
(****************************************************************************)

\* The opcodes lead dyld to the state s.
BFollows(kd, l, all, ops, s) ==
    /\ ops \in Seq(BOp) /\ s \in BStates(kd, all)
    /\ \E u : /\ u[0] = Binding!Dyld0(kd, l) /\ u[0] \in BStates(kd, all)
              /\ BTrace(kd, l, all, ops, u, 0, Len(ops)) /\ u[Len(ops)] = s

\* One more opcode.
LEMMA BFollowsOne ==
    ASSUME NEW kd, NEW l, NEW all, NEW ops, NEW s, BFollows(kd, l, all, ops, s), NEW o, BOk(kd, l, o),
           NEW r, r = Binding!Run1(kd, l, s, o), r \in BStates(kd, all)
    PROVE  BFollows(kd, l, all, ops \o <<o>>, r)
<1>1. PICK u : /\ u[0] = Binding!Dyld0(kd, l) /\ u[0] \in BStates(kd, all)
               /\ BTrace(kd, l, all, ops, u, 0, Len(ops)) /\ u[Len(ops)] = s
  BY DEF BFollows
<1> DEFINE m == Len(ops)
           new == ops \o <<o>>
           v == [k \in 0..(m + 1) |-> IF k = m + 1 THEN r ELSE u[k]]
<1>2. ops \in Seq(BOp) /\ o \in BOp /\ m \in Nat
  BY DEF BFollows, BOk
<1>3. new \in Seq(BOp) /\ Len(new) = m + 1 /\ new[m + 1] = o /\ \A k \in 1..m : new[k] = ops[k]
  BY <1>2
<1>4. v[m + 1] = r /\ \A k \in 0..m : v[k] = u[k]
  BY <1>2
<1> HIDE DEF new, v, m
<1>5. BTrace(kd, l, all, new, v, 0, m + 1)
  <2> SUFFICES ASSUME NEW k \in (0 + 1)..(m + 1)
               PROVE  BOk(kd, l, new[k]) /\ v[k] \in BStates(kd, all) /\ v[k] = Binding!Run1(kd, l, v[k - 1], new[k])
    BY DEF BTrace
  <2>1. CASE k = m + 1
    <3>1. k - 1 = m /\ m \in 0..m
      BY <2>1, <1>2
    <3>2. v[k - 1] = s
      BY <3>1, <1>1, <1>4 DEF m
    <3> QED BY <2>1, <3>2, <1>3, <1>4
  <2>2. CASE k # m + 1
    <3>1. k \in (0 + 1)..m /\ k \in 1..m /\ k \in 0..m /\ k - 1 \in 0..m
      BY <2>2, <1>2
    <3>2. BOk(kd, l, ops[k]) /\ u[k] \in BStates(kd, all) /\ u[k] = Binding!Run1(kd, l, u[k - 1], ops[k])
      BY <3>1, <1>1 DEF BTrace, m
    <3> QED BY <3>1, <3>2, <1>3, <1>4
  <2> QED BY <2>1, <2>2
<1>7. v[0] = u[0] /\ v[m + 1] = r
  BY <1>2, <1>4
<1>8. BFollows(kd, l, all, new, r)
  BY <1>1, <1>3, <1>5, <1>7 DEF BFollows
<1> QED BY <1>8 DEF new

\* No opcode.
LEMMA BFollowsNone ==
    ASSUME NEW kd, NEW l, NEW all, NEW ops, NEW s, BFollows(kd, l, all, ops, s)
    PROVE  BFollows(kd, l, all, ops \o <<>>, s)
<1>1. ops \in Seq(BOp)
  BY DEF BFollows
<1>2. ops \o <<>> = ops
  BY <1>1
<1> QED BY <1>2

\* The tables of BindInfo.
BKinds == {"bind", "weak", "lazy"}

\* An opcode that sets the library.
BSetsOrdinal(o, x) ==
    /\ o \in {Binding!Op("SET_DYLIB_SPECIAL_IMM", x, 0), Binding!Op("SET_DYLIB_ORDINAL_ULEB", x, 0),
              Binding!Op("SET_DYLIB_ORDINAL_IMM", x, 0)}
    /\ x \in Int /\ -Imm < x /\ (o.op = "SET_DYLIB_SPECIAL_IMM" <=> x <= 0)
    /\ o.op = "SET_DYLIB_ORDINAL_IMM" => x <= Imm - 1

\* The opcode that sets the library, when ld writes it.
LEMMA BOpOrdinal ==
    ASSUME NEW kd \in BKinds, kd # "weak", NEW l, NEW s, NEW o, NEW x, BSetsOrdinal(o, x)
    PROVE  BOk(kd, l, o) /\ Binding!Run1(kd, l, s, o) = [s EXCEPT !.ordinal = x]
<1>1. o.op \in BOrdinals /\ o.a = x /\ o.b = 0 /\ o = [op |-> o.op, a |-> o.a, b |-> o.b]
  BY DEF BSetsOrdinal, Binding!Op, BOrdinals
<1>2. Imm \in Nat /\ x \in Int
  BY WidthAssumption DEF BSetsOrdinal
<1>3. o \in BOp
  BY <1>1, <1>2, BCodes DEF BOp, BOrdinals
<1>4. Binding!Known(kd, o.op)
  BY <1>1 DEF Binding!Known, BKinds, BOrdinals
<1>5. (o.op = "SET_DYLIB_SPECIAL_IMM" <=> x <= 0) /\ (o.op = "SET_DYLIB_ORDINAL_IMM" => x <= Imm - 1) /\ -Imm < x
  BY DEF BSetsOrdinal
<1>6. BOk(kd, l, o)
  BY <1>1, <1>2, <1>3, <1>4, <1>5 DEF BOk, BOrdinals
<1>7. Binding!Run1(kd, l, s, o) = [s EXCEPT !.ordinal = x]
  BY <1>1, <1>4, BRunOrdinal
<1> QED BY <1>6, <1>7

\* What the opcode that names the symbol makes of s.
BNamed(s, f, y) == [s EXCEPT !.sym = y, !.flags = f, !.names = Append(s.names, y)]

\* The opcode that names symbol y, and the one that leads dyld to address a in segment k.
BSymbolOp(f, y) == Binding!Op("SET_SYMBOL_TRAILING_FLAGS_IMM", f, y)

\* The opcode that names the symbol, when ld writes it.
LEMMA BOpSymbol ==
    ASSUME NEW kd \in BKinds, NEW l, NEW s, NEW f \in 0..2, NEW y \in Nat,
           NEW o, o = BSymbolOp(f, y)
    PROVE  BOk(kd, l, o)
           /\ Binding!Run1(kd, l, s, o) = BNamed(s, f, y)
<1>1. o.op = "SET_SYMBOL_TRAILING_FLAGS_IMM" /\ o.a = f /\ o.b = y /\ o \in BOp
  BY BCodes DEF BSymbolOp, Binding!Op, BOp
<1>2. Binding!Known(kd, o.op)
  BY <1>1 DEF Binding!Known, BKinds
<1>3. BOk(kd, l, o)
  BY <1>1, <1>2, WidthAssumption DEF BOk
<1>4. Binding!Run1(kd, l, s, o) = [s EXCEPT !.sym = o.b, !.flags = o.a, !.names = Append(s.names, o.b)]
  <2>1. o.op = "SET_SYMBOL_TRAILING_FLAGS_IMM"
    BY <1>1
  <2> QED BY <2>1, <1>2 DEF Binding!Run1, Binding!ReadUleb
<1>5. [s EXCEPT !.sym = o.b, !.flags = o.a, !.names = Append(s.names, o.b)] = BNamed(s, f, y)
  BY <1>1 DEF BNamed
<1> QED BY <1>3, <1>4, <1>5

\* The opcode that sets the type, when ld writes it.
LEMMA BOpType ==
    ASSUME NEW kd \in BKinds, NEW l, NEW s, NEW y \in {1, 2}, NEW o, o = Binding!Op("SET_TYPE_IMM", y, 0)
    PROVE  BOk(kd, l, o) /\ Binding!Run1(kd, l, s, o) = [s EXCEPT !.type = y]
<1>1. o.op = "SET_TYPE_IMM" /\ o.a = y /\ o.b = 0 /\ o \in BOp
  BY BCodes DEF Binding!Op, BOp
<1>2. Binding!Known(kd, o.op)
  BY <1>1 DEF Binding!Known, BKinds
<1>3. BOk(kd, l, o)
  BY <1>1, <1>2, WidthAssumption DEF BOk
<1> QED BY <1>1, <1>2, <1>3, BRunType

\* The opcode that sets the addend, when ld writes it.
LEMMA BOpAddend ==
    ASSUME NEW kd \in BKinds, NEW l, NEW s, NEW y \in Int, NEW o, o = Binding!Op("SET_ADDEND_SLEB", y, 0)
    PROVE  BOk(kd, l, o) /\ Binding!Run1(kd, l, s, o) = [s EXCEPT !.addend = y]
<1>1. o.op = "SET_ADDEND_SLEB" /\ o.a = y /\ o.b = 0 /\ o \in BOp
  BY BCodes DEF Binding!Op, BOp
<1>2. Binding!Known(kd, o.op)
  BY <1>1 DEF Binding!Known, BKinds
<1>3. BOk(kd, l, o)
  BY <1>1, <1>2 DEF BOk
<1> QED BY <1>1, <1>2, <1>3, BRunAddend

\* What the opcodes that move dyld make of s, and how far they move it.
BLoadedAt(s, a, x) == [s EXCEPT !.address = a, !.segEnd = x]
BMovedTo(s, a) == [s EXCEPT !.address = a]
BApart(s, a) == (a - s.address) % LdWord

BSegmentOp(l, k, a) == Binding!Op("SET_SEGMENT_AND_OFFSET_ULEB", k - 1, a - l[k].start)

\* The opcode that sets segment and offset leads dyld to the pointer.
LEMMA BOpSegment ==
    ASSUME NEW kd \in BKinds, NEW l, WellFormed(l), NEW s, NEW k, NEW a \in Nat, Within(l, k, a),
           NEW o, o = BSegmentOp(l, k, a)
    PROVE  BOk(kd, l, o) /\ Binding!Run1(kd, l, s, o) = BLoadedAt(s, a, l[k].limit)
<1>1. /\ k - 1 \in Nat /\ k - 1 < Len(l) - 1 /\ k - 1 < Len(l) /\ (k - 1) + 1 = k /\ Len(l) \in Nat
      /\ l[k].start \in Nat /\ l[k].limit \in Nat /\ l[k].start <= a /\ a \in 0..(DyldWord - 1)
      /\ DyldWord \in Nat \ {0}
  BY WithinFacts, SegmentFacts, WordsNest
<1>2. o \in BOp /\ o.op = "SET_SEGMENT_AND_OFFSET_ULEB" /\ o.a = k - 1 /\ o.b = a - l[k].start
  BY <1>1, BCodes DEF BSegmentOp, BOp, Binding!Op
<1>3. Binding!Known(kd, o.op)
  BY <1>2 DEF Binding!Known, BKinds
<1>4. o.a \in 0..(Len(l) - 2) /\ ~(o.a >= Len(l))
  BY <1>1, <1>2
<1>5. BOk(kd, l, o)
  BY <1>1, <1>2, <1>3, <1>4 DEF BOk
<1>6. (l[k].start + ((a - l[k].start) % DyldWord)) % DyldWord = a
  <2> DEFINE st == l[k].start
  <2>1. st \in 0..(DyldWord - 1) /\ a >= st /\ a \in 0..(DyldWord - 1)
    BY <1>1
  <2> HIDE DEF st
  <2>2. (st + ((a - st) % DyldWord)) % DyldWord = a
    BY <2>1, Steps
  <2> QED BY <2>2 DEF st
<1>7. Binding!Run1(kd, l, s, o) = [s EXCEPT !.address = (l[k].start + ((a - l[k].start) % DyldWord)) % DyldWord,
                                            !.segEnd = l[k].limit]
  BY <1>1, <1>2, <1>3, <1>4 DEF Binding!Run1, Binding!ReadUleb, Binding!segActualLoadAddress,
                               Binding!segActualEndAddress
<1> QED BY <1>5, <1>6, <1>7 DEF BLoadedAt

\* The opcode that adds to the address leads dyld to the pointer.
LEMMA BOpAdd ==
    ASSUME NEW kd \in BKinds, NEW l, NEW s \in BState, NEW a \in 0..(DyldWord - 1),
           NEW o, o = Binding!Op("ADD_ADDR_ULEB", BApart(s, a), 0)
    PROVE  BOk(kd, l, o) /\ Binding!Run1(kd, l, s, o) = BMovedTo(s, a)
<1>0. o = Binding!Op("ADD_ADDR_ULEB", (a - s.address) % LdWord, 0)
  BY DEF BApart
<1>1. s.address \in 0..(DyldWord - 1) /\ DyldWord \in Nat \ {0} /\ LdWord \in Nat \ {0}
  BY WordsNest DEF BState
<1>2. (a - s.address) % LdWord \in Nat
  <2> DEFINE y == a - s.address
  <2>1. y \in Int
    BY <1>1
  <2> HIDE DEF y
  <2>2. y % LdWord \in 0..(LdWord - 1)
    BY <2>1, <1>1, DivDef
  <2> QED BY <2>2, <1>1 DEF y
<1>3. o \in BOp /\ o.op = "ADD_ADDR_ULEB" /\ o.a = (a - s.address) % LdWord /\ o.b = 0
  BY <1>0, <1>2, BCodes DEF BOp, Binding!Op
<1>4. Binding!Known(kd, o.op)
  BY <1>3 DEF Binding!Known, BKinds
<1>5. BOk(kd, l, o)
  BY <1>2, <1>3, <1>4 DEF BOk
<1>6. (s.address + (((a - s.address) % LdWord) % DyldWord)) % DyldWord = a
  <2> DEFINE y == s.address
  <2>1. y \in 0..(DyldWord - 1)
    BY <1>1
  <2> HIDE DEF y
  <2>2. (y + (((a - y) % LdWord) % DyldWord)) % DyldWord = a
    BY <2>1, Steps
  <2> QED BY <2>2 DEF y
<1>7. Binding!Run1(kd, l, s, o) = [s EXCEPT !.address = (s.address + (o.a % DyldWord)) % DyldWord]
  BY <1>3, <1>4, BRunAdd
<1> QED BY <1>3, <1>5, <1>6, <1>7 DEF BMovedTo

\* The record that a bind appends.
BBound(s) == [type |-> s.type, flags |-> s.flags, ordinal |-> s.ordinal, sym |-> s.sym,
              address |-> s.address, addend |-> s.addend]

\* The opcode that binds does so at the pointer, and inside the segment.
LEMMA BOpDo ==
    ASSUME NEW kd \in BKinds, NEW l, WellFormed(l), NEW s \in BState, NEW k, NEW a \in Nat, Within(l, k, a),
           s.address = a, s.segEnd = l[k].limit,
           NEW o, o = Binding!Op("DO_BIND", 0, 0), NEW r, r = Binding!Run1(kd, l, s, o)
    PROVE  /\ BOk(kd, l, o) /\ r \in BState /\ BSame(r, s) /\ r.address = a + PtrSize
           /\ r.bound = s.bound \o <<BBound(s)>> /\ BBound(s) \in BEntry /\ r.bad = s.bad
<1>1. o \in BOp /\ o.op = "DO_BIND" /\ o.a = 0 /\ o.b = 0
  BY BCodes DEF BOp, Binding!Op
<1>2. Binding!Known(kd, o.op)
  BY <1>1 DEF Binding!Known, BKinds
<1>3. BOk(kd, l, o)
  BY <1>1, <1>2 DEF BOk
<1>4. /\ a < l[k].limit /\ l[k].limit \in Nat /\ a \in 0..(DyldWord - 1)
      /\ a + PtrSize \in 0..(DyldWord - 1) /\ DyldWord \in Nat \ {0} /\ PtrSize \in Nat
  BY WithinFacts, WordsNest
<1>5. BIsTimes(kd, r, s, 1, 0)
  <2>1. r = Binding!BindTimes(kd, s, 1, 0)
    BY <1>1, <1>2, BRunDo
  <2> QED BY <2>1, BTimes
<1>6. At(s, 0, 0) = a /\ At(s, 1, 0) = a + PtrSize
  <2>2. s.address + 0 * (0 + PtrSize) = a /\ s.address + 1 * (0 + PtrSize) = a + PtrSize
    BY <1>4
  <2>3. a % DyldWord = a /\ (a + PtrSize) % DyldWord = a + PtrSize
    BY <1>4, ModSmall
  <2> QED BY <2>2, <2>3 DEF At
<1>7. BTuple(s, a) = BBound(s) /\ BBound(s) \in BEntry
  <2>1. BTuple(s, a) = BBound(s)
    BY DEF BTuple, BBound
  <2> QED BY <2>1, BTupleIs
<1>8. BList(s, 1, 0) = <<BBound(s)>>
  <2>1. BList(s, 1, 0) = [i \in 1..1 |-> BTuple(s, At(s, i - 1, 0))]
    BY DEF BList
  <2>2. \A i \in 1..1 : i - 1 = 0
    OBVIOUS
  <2>3. BList(s, 1, 0) = [i \in 1..1 |-> BBound(s)]
    BY <2>1, <2>2, <1>6, <1>7
  <2> QED BY <2>3
<1>9. ~BPast(kd, s, 1, 0)
  <2>1. \A i \in 1..1 : ~(At(s, i - 1, 0) >= s.segEnd)
    <3>1. \A i \in 1..1 : i - 1 = 0
      OBVIOUS
    <3> QED BY <3>1, <1>4, <1>6
  <2> QED BY <2>1 DEF BPast
<1>10. r.bad = s.bad
  <2>1. r.bad = (s.bad \/ BPast(kd, s, 1, 0)) /\ s.bad \in BOOLEAN
    BY <1>5 DEF BIsTimes, BState
  <2> QED BY <2>1, <1>9
<1> QED BY <1>3, <1>5, <1>6, <1>7, <1>8, <1>10 DEF BIsTimes

\* Columns that bind nothing do not matter to what is bound.
LEMMA BStatesSame ==
    ASSUME NEW kd, NEW all, NEW s \in BStates(kd, all), NEW r \in BState,
           r.bad = s.bad, r.fast = s.fast, r.names = s.names, r.bound = s.bound
    PROVE  r \in BStates(kd, all) /\ \A c : BBinds(s, all, c) => BBinds(r, all, c)
<1>1. \A c : BBinds(s, all, c) => BBinds(r, all, c)
  BY DEF BBinds
<1>2. BNames(s) => BNames(r)
  BY DEF BNames
<1> QED BY <1>1, <1>2 DEF BStates

\* What the weak table says of the symbols, after i entries.
BNamesAt(kd, inf, i, s) ==
    /\ kd = "weak" => s.ordinal = 0
    /\ kd = "weak" => \A k \in 1..Len(s.names) : s.names[k] <= s.sym
    /\ kd = "weak" /\ i = 0 => s.sym = 0
    /\ kd = "weak" /\ i > 0 => s.sym = inf[i].sym /\ (s.flags = 2 <=> s.sym \in Overrides)

\* Where the linker and dyld are, after some entries.
BAt(l, cu, ad, s) ==
    \/ cu = NoSegment /\ ad = LdWord - 1
    \/ \E k, a : /\ a \in Nat /\ Within(l, k, a) /\ cu = SegmentAt(l, k) /\ ad = a + PtrSize
                 /\ s.address = a + PtrSize /\ s.segEnd = l[k].limit

\* The first entry of a symbol in the weak table has its flags.
LEMMA BFirstFlags ==
    ASSUME NEW l, NEW inf, BTable("weak", l, inf), NEW i \in Nat, i < Len(inf),
           i = 0 \/ inf[i].sym # inf[i + 1].sym
    PROVE  /\ inf[i + 1].flags = 2 <=> inf[i + 1].sym \in Overrides
           /\ i > 0 => inf[i].sym < inf[i + 1].sym
<1> DEFINE e == inf[i + 1]
<1>0. inf \in Seq(BEntry) /\ Len(inf) \in Nat /\ i + 1 \in 1..Len(inf) /\ BGrouped(inf)
  BY DEF BTable
<1>1. \A j \in 1..Len(inf) : BIn("weak", l, inf[j]) /\ inf[j].sym \in Nat /\ inf[j].type \in 0..2
  BY DEF BTable, BIn, BEntry
<1>2. i > 0 => inf[i].sym < e.sym
  <2> SUFFICES ASSUME i > 0 PROVE inf[i].sym < e.sym
    OBVIOUS
  <2>1. i \in 1..Len(inf) /\ i < i + 1
    BY <1>0
  <2>2. inf[i].sym <= e.sym
    BY <1>0, <2>1 DEF BGrouped
  <2>3. inf[i].sym \in Nat /\ e.sym \in Nat
    BY <1>0, <1>1, <2>1
  <2> QED BY <2>2, <2>3
<1>3. ASSUME e.sym \in Overrides PROVE e.flags = 2
  <2>1. PICK m \in 1..Len(inf) : inf[m].sym = e.sym /\ inf[m].type = 0
    BY <1>0, <1>3 DEF BGrouped
  <2>2. CASE m <= i
    <3>1. i > 0 /\ i \in 1..Len(inf) /\ (m = i \/ m < i)
      BY <2>2, <1>0
    <3>2. inf[m].sym <= inf[i].sym
      <4>1. CASE m = i
        <5>1. inf[i].sym \in Nat
          BY <1>1, <3>1
        <5> QED BY <4>1, <5>1
      <4>2. CASE m < i
        BY <4>2, <3>1, <1>0 DEF BGrouped
      <4> QED BY <3>1, <4>1, <4>2
    <3>3. inf[m].sym \in Nat /\ inf[i].sym \in Nat /\ e.sym \in Nat
      BY <1>0, <1>1, <3>1
    <3> QED BY <3>1, <3>2, <3>3, <2>1, <1>2
  <2>3. CASE ~(m <= i)
    <3>1. m = i + 1 \/ i + 1 < m
      BY <2>3, <1>0
    <3>2. e.type <= 0
      <4>1. CASE m = i + 1
        BY <4>1, <2>1
      <4>2. CASE i + 1 < m
        <5>1. inf[i + 1].sym = inf[m].sym => inf[i + 1].type <= inf[m].type
          BY <4>2, <1>0 DEF BGrouped
        <5> QED BY <5>1, <2>1
      <4> QED BY <3>1, <4>1, <4>2
    <3>3. e.type = 0
      <4>1. e.type \in 0..2
        BY <1>0, <1>1
      <4> QED BY <3>2, <4>1
    <3> QED BY <3>3, <1>0, <1>1 DEF BIn
  <2> QED BY <2>2, <2>3
<1>4. ASSUME e.flags = 2 PROVE e.sym \in Overrides
  BY <1>0, <1>1, <1>4 DEF BIn
<1> QED BY <1>2, <1>3, <1>4

\* What the translation of an entry starts from.
BBefore(kd, l, all, inf, i, ops, s, c) ==
    /\ WellFormed(l) /\ BTable(kd, l, inf) /\ i \in Nat /\ i < Len(inf)
    /\ BFollows(kd, l, all, ops, s) /\ BBinds(s, all, c)

\* The library of the next entry.
LEMMA BOrdinalsStep ==
    ASSUME NEW kd, NEW l, NEW all, NEW inf, NEW i, NEW ops, NEW s, NEW c, BBefore(kd, l, all, inf, i, ops, s, c),
           BNamesAt(kd, inf, i, s), NEW ord, kd # "weak" => ord = Binding!NoOrdinal \/ ord = s.ordinal,
           NEW e, e = inf[i + 1], NEW out,
           out = IF kd = "weak" \/ ord = e.ordinal THEN <<>>
                 ELSE <<Binding!Op(IF e.ordinal <= 0 THEN "SET_DYLIB_SPECIAL_IMM" ELSE "SET_DYLIB_ORDINAL_ULEB",
                                   e.ordinal, 0)>>
    PROVE  LET r == [s EXCEPT !.ordinal = e.ordinal]
           IN  BBefore(kd, l, all, inf, i, ops \o out, r, c) /\ BNamesAt(kd, inf, i, r) /\ r \in BState
<1> DEFINE r == [s EXCEPT !.ordinal = e.ordinal]
<1>1. s \in BStates(kd, all) /\ s \in BState /\ kd \in BKinds /\ i + 1 \in 1..Len(inf)
  BY DEF BBefore, BFollows, BStates, BTable, BKinds
<1>2. BIn(kd, l, e) /\ e.ordinal \in Int
  BY <1>1 DEF BBefore, BTable, BIn, BEntry
<1>3. r \in BState
  BY <1>1, <1>2 DEF BState
<1>4. r.bad = s.bad /\ r.fast = s.fast /\ r.names = s.names /\ r.bound = s.bound /\ r.sym = s.sym /\ r.flags = s.flags
      /\ r.ordinal = e.ordinal
  BY <1>1 DEF BState
<1>5. r \in BStates(kd, all) /\ BBinds(r, all, c)
  <2> HIDE DEF r
  <2> QED BY <1>1, <1>3, <1>4, BStatesSame DEF BBefore
<1>6. BNamesAt(kd, inf, i, r)
  <2>1. kd = "weak" => e.ordinal = 0
    BY <1>2 DEF BIn
  <2> HIDE DEF r
  <2> QED BY <2>1, <1>4 DEF BNamesAt
<1>7. BFollows(kd, l, all, ops \o out, r)
  <2>1. CASE kd = "weak" \/ ord = e.ordinal
    <3>1. s.ordinal = e.ordinal
      BY <2>1, <1>2 DEF BNamesAt, BIn
    <3>2. r = s
      BY <3>1, <1>1 DEF BState
    <3>3. out = <<>>
      BY <2>1
    <3> HIDE DEF r
    <3> QED BY <3>2, <3>3, BFollowsNone DEF BBefore
  <2>2. CASE ~(kd = "weak" \/ ord = e.ordinal)
    <3> DEFINE o == Binding!Op(IF e.ordinal <= 0 THEN "SET_DYLIB_SPECIAL_IMM" ELSE "SET_DYLIB_ORDINAL_ULEB",
                               e.ordinal, 0)
    <3>1. out = <<o>>
      BY <2>2
    <3>2. BSetsOrdinal(o, e.ordinal)
      <4>1. -Imm < e.ordinal
        BY <1>2 DEF BIn
      <4>2. CASE e.ordinal <= 0
        <5>1. o = Binding!Op("SET_DYLIB_SPECIAL_IMM", e.ordinal, 0)
          BY <4>2
        <5> QED BY <5>1, <4>1, <4>2, <1>2 DEF BSetsOrdinal, Binding!Op
      <4>3. CASE ~(e.ordinal <= 0)
        <5>1. o = Binding!Op("SET_DYLIB_ORDINAL_ULEB", e.ordinal, 0)
          BY <4>3
        <5> QED BY <5>1, <4>1, <4>3, <1>2 DEF BSetsOrdinal, Binding!Op
      <4> QED BY <4>2, <4>3
    <3> HIDE DEF o
    <3>3. BOk(kd, l, o) /\ Binding!Run1(kd, l, s, o) = r
      BY <2>2, <3>2, <1>1, BOpOrdinal
    <3> HIDE DEF r
    <3> QED BY <3>1, <3>3, <1>5, BFollowsOne DEF BBefore
  <2> QED BY <2>1, <2>2
<1> HIDE DEF r
<1>8. BBefore(kd, l, all, inf, i, ops \o out, r, c)
  BY <1>5, <1>7 DEF BBefore
<1> QED BY <1>3, <1>6, <1>8 DEF r

\* An opcode that sets a column and binds nothing.
LEMMA BSetStep ==
    ASSUME NEW kd, NEW l, NEW all, NEW inf, NEW i, NEW ops, NEW s, NEW c, BBefore(kd, l, all, inf, i, ops, s, c),
           NEW o, BOk(kd, l, o), NEW r \in BState, r = Binding!Run1(kd, l, s, o),
           r.bad = s.bad, r.fast = s.fast, r.names = s.names, r.bound = s.bound
    PROVE  BBefore(kd, l, all, inf, i, ops \o <<o>>, r, c)
<1>1. s \in BStates(kd, all) /\ BFollows(kd, l, all, ops, s) /\ BBinds(s, all, c)
  BY DEF BBefore, BFollows
<1>2. r \in BStates(kd, all) /\ BBinds(r, all, c)
  BY <1>1, BStatesSame
<1>3. BFollows(kd, l, all, ops \o <<o>>, r)
  BY <1>1, <1>2, BFollowsOne
<1> QED BY <1>2, <1>3 DEF BBefore

\* No opcode.
LEMMA BSkipStep ==
    ASSUME NEW kd, NEW l, NEW all, NEW inf, NEW i, NEW ops, NEW s, NEW c, BBefore(kd, l, all, inf, i, ops, s, c)
    PROVE  BBefore(kd, l, all, inf, i, ops \o <<>>, s, c)
BY BFollowsNone DEF BBefore

\* Everything but what an opcode sets.
BSameNames(r, s) == r.ordinal = s.ordinal /\ r.sym = s.sym /\ r.flags = s.flags /\ r.names = s.names
BSamePlace(r, s) == r.address = s.address /\ r.segEnd = s.segEnd

\* Opcodes that name nothing leave the names.
LEMMA BNamesStay ==
    ASSUME NEW kd, NEW inf, NEW i, NEW s, NEW r, BNamesAt(kd, inf, i, s), BSameNames(r, s)
    PROVE  BNamesAt(kd, inf, i, r)
BY DEF BNamesAt, BSameNames

\* What is known before the translation of an entry.
LEMMA BBeforeFacts ==
    ASSUME NEW kd, NEW l, NEW all, NEW inf, NEW i, NEW ops, NEW s, NEW c, BBefore(kd, l, all, inf, i, ops, s, c)
    PROVE  /\ s \in BStates(kd, all) /\ s \in BState /\ kd \in BKinds /\ inf \in Seq(BEntry)
           /\ i + 1 \in 1..Len(inf) /\ i + 1 \in Nat /\ Len(inf) \in Nat
           /\ inf[i + 1] \in BEntry /\ BIn(kd, l, inf[i + 1])
BY DEF BBefore, BFollows, BStates, BTable, BKinds

\* The type of the next entry.
LEMMA BTypeStep ==
    ASSUME NEW kd, NEW l, NEW all, NEW inf, NEW i, NEW ops, NEW s, NEW c, BBefore(kd, l, all, inf, i, ops, s, c),
           NEW y \in {1, 2}, NEW out,
           out = IF s.type # y THEN <<Binding!Op("SET_TYPE_IMM", y, 0)>> ELSE <<>>
    PROVE  \E r : /\ BBefore(kd, l, all, inf, i, ops \o out, r, c) /\ BSameNames(r, s) /\ BSamePlace(r, s)
                  /\ r.type = y /\ r.addend = s.addend
<1>1. s \in BState /\ kd \in BKinds
  BY BBeforeFacts
<1>2. CASE s.type = y
  BY <1>2, BSkipStep DEF BSameNames, BSamePlace
<1>3. CASE s.type # y
  <2> DEFINE o == Binding!Op("SET_TYPE_IMM", y, 0)
             r == Binding!Run1(kd, l, s, o)
  <2>1. out = <<o>>
    BY <1>3
  <2>2. BOk(kd, l, o) /\ r = [s EXCEPT !.type = y]
    BY <1>1, BOpType
  <2>3. r \in BState /\ r.bad = s.bad /\ r.fast = s.fast /\ r.names = s.names /\ r.bound = s.bound
        /\ BSameNames(r, s) /\ BSamePlace(r, s) /\ r.type = y /\ r.addend = s.addend
    BY <1>1, <2>2 DEF BState, BSameNames, BSamePlace
  <2>4. r = Binding!Run1(kd, l, s, o)
    OBVIOUS
  <2> HIDE DEF r, o
  <2>5. BBefore(kd, l, all, inf, i, ops \o <<o>>, r, c)
    BY <2>2, <2>3, <2>4, BSetStep
  <2> QED BY <2>1, <2>3, <2>5
<1> QED BY <1>2, <1>3

\* The addend of the next entry.
LEMMA BAddendStep ==
    ASSUME NEW kd, NEW l, NEW all, NEW inf, NEW i, NEW ops, NEW s, NEW c, BBefore(kd, l, all, inf, i, ops, s, c),
           NEW y \in Int, NEW out,
           out = IF s.addend # y THEN <<Binding!Op("SET_ADDEND_SLEB", y, 0)>> ELSE <<>>
    PROVE  \E r : /\ BBefore(kd, l, all, inf, i, ops \o out, r, c) /\ BSameNames(r, s) /\ BSamePlace(r, s)
                  /\ r.type = s.type /\ r.addend = y
<1>1. s \in BState /\ kd \in BKinds
  BY BBeforeFacts
<1>2. CASE s.addend = y
  BY <1>2, BSkipStep DEF BSameNames, BSamePlace
<1>3. CASE s.addend # y
  <2> DEFINE o == Binding!Op("SET_ADDEND_SLEB", y, 0)
             r == Binding!Run1(kd, l, s, o)
  <2>1. out = <<o>>
    BY <1>3
  <2>2. BOk(kd, l, o) /\ r = [s EXCEPT !.addend = y]
    BY <1>1, BOpAddend
  <2>3. r \in BState /\ r.bad = s.bad /\ r.fast = s.fast /\ r.names = s.names /\ r.bound = s.bound
        /\ BSameNames(r, s) /\ BSamePlace(r, s) /\ r.type = s.type /\ r.addend = y
    BY <1>1, <2>2 DEF BState, BSameNames, BSamePlace
  <2>4. r = Binding!Run1(kd, l, s, o)
    OBVIOUS
  <2> HIDE DEF r, o
  <2>5. BBefore(kd, l, all, inf, i, ops \o <<o>>, r, c)
    BY <2>2, <2>3, <2>4, BSetStep
  <2> QED BY <2>1, <2>3, <2>5
<1> QED BY <1>2, <1>3

\* The names that a state has, with one more.
LEMMA BNamesGrow ==
    ASSUME NEW s \in BState, NEW y \in Nat, \A k \in 1..Len(s.names) : s.names[k] < y, BNames(s),
           NEW r, r.names = Append(s.names, y), r.bound = s.bound
    PROVE  BNames(r) /\ \A k \in 1..Len(r.names) : r.names[k] <= y
<1> DEFINE x == s.names
           z == Append(x, y)
<1>1. x \in Seq(Nat) /\ Len(x) \in Nat /\ Len(z) = Len(x) + 1 /\ z[Len(x) + 1] = y
      /\ \A k \in 1..Len(x) : z[k] = x[k] /\ x[k] \in Nat
  <2>1. x \in Seq(Nat)
    BY DEF BState
  <2> HIDE DEF x
  <2> QED BY <2>1
<1>2. /\ \A j, k \in 1..Len(x) : j < k => x[j] < x[k]
      /\ \A k \in 1..Len(x) : x[k] < y
  BY DEF BNames
<1>3. r.names = z
  OBVIOUS
<1> HIDE DEF x, z
<1>4. \A k \in 1..Len(z) : z[k] <= y
  <2> TAKE k \in 1..Len(z)
  <2>1. k = Len(x) + 1 \/ k \in 1..Len(x)
    BY <1>1
  <2> QED BY <2>1, <1>1, <1>2
<1>5. \A j, k \in 1..Len(z) : j < k => z[j] < z[k]
  <2> SUFFICES ASSUME NEW j \in 1..Len(z), NEW k \in 1..Len(z), j < k PROVE z[j] < z[k]
    OBVIOUS
  <2>1. j \in 1..Len(x) /\ (k = Len(x) + 1 \/ k \in 1..Len(x))
    <3> DEFINE m == Len(x)
    <3>1. m \in Nat /\ Len(z) = m + 1
      BY <1>1
    <3> HIDE DEF m
    <3> QED BY <3>1 DEF m
  <2> QED BY <2>1, <1>1, <1>2
<1> QED BY <1>3, <1>4, <1>5 DEF BNames

\* The symbol of the next entry; in the weak table it is larger than all before it.
LEMMA BSymbolStep ==
    ASSUME NEW kd, NEW l, NEW all, NEW inf, NEW i, NEW ops, NEW s, NEW c, BBefore(kd, l, all, inf, i, ops, s, c),
           BNamesAt(kd, inf, i, s), NEW e, e = inf[i + 1], NEW out,
           out = IF s.sym # e.sym THEN <<Binding!Op("SET_SYMBOL_TRAILING_FLAGS_IMM", e.flags, e.sym)>> ELSE <<>>
    PROVE  \E r : /\ BBefore(kd, l, all, inf, i, ops \o out, r, c) /\ BNamesAt(kd, inf, i + 1, r)
                  /\ r.sym = e.sym /\ r.ordinal = s.ordinal /\ BSamePlace(r, s)
                  /\ r.type = s.type /\ r.addend = s.addend
<1>1. s \in BState /\ s \in BStates(kd, all) /\ kd \in BKinds /\ BIn(kd, l, e) /\ e \in BEntry /\ i + 1 > 0
  BY BBeforeFacts
<1>2. e.sym \in Nat /\ e.sym # 0 /\ e.flags \in 0..2 /\ i \in Nat /\ i < Len(inf)
  BY <1>1 DEF BIn, BEntry, BBefore
<1>3. CASE s.sym = e.sym
  <2>1. BNamesAt(kd, inf, i + 1, s)
    <3>1. kd = "weak" => i > 0
      BY <1>2, <1>3 DEF BNamesAt
    <3> QED BY <3>1, <1>1, <1>2, <1>3 DEF BNamesAt
  <2> QED BY <1>3, <2>1, BSkipStep DEF BSamePlace
<1>4. CASE s.sym # e.sym
  <2> DEFINE o == Binding!Op("SET_SYMBOL_TRAILING_FLAGS_IMM", e.flags, e.sym)
             r == Binding!Run1(kd, l, s, o)
             f == e.flags
             y == e.sym
             ns == Append(s.names, y)
  <2>1. out = <<o>>
    BY <1>4
  <2>2. BOk(kd, l, o) /\ r = [s EXCEPT !.sym = y, !.flags = f, !.names = ns]
    <3>1. f \in 0..2 /\ y \in Nat /\ o = BSymbolOp(f, y)
      BY <1>2 DEF BSymbolOp
    <3>2. r = Binding!Run1(kd, l, s, o)
      OBVIOUS
    <3> HIDE DEF f, y, o, r
    <3>3. kd \in BKinds
      BY <1>1
    <3>4. BOk(kd, l, o)
          /\ Binding!Run1(kd, l, s, o) = BNamed(s, f, y)
      BY <3>1, <3>3, BOpSymbol
    <3>5. BNamed(s, f, y) = [s EXCEPT !.sym = y, !.flags = f, !.names = ns]
      BY DEF BNamed
    <3> HIDE DEF ns
    <3> QED BY <3>2, <3>4, <3>5, Zenon
  <2>3. s.names \in Seq(Nat) /\ ns \in Seq(Nat) /\ f \in Nat /\ y \in Nat
    <3>1. s.names \in Seq(Nat)
      BY <1>1 DEF BState
    <3>2. y \in Nat /\ f \in Nat
      BY <1>2
    <3> HIDE DEF y, f
    <3>3. ns \in Seq(Nat)
      BY <3>1, <3>2
    <3> QED BY <3>1, <3>2, <3>3
  <2> HIDE DEF ns
  <2>4. r \in BState /\ r.bad = s.bad /\ r.fast = s.fast /\ r.names = Append(s.names, e.sym) /\ r.bound = s.bound
        /\ r.sym = e.sym /\ r.flags = e.flags /\ r.ordinal = s.ordinal /\ BSamePlace(r, s)
        /\ r.type = s.type /\ r.addend = s.addend
    <3> HIDE DEF f, y, r
    <3>1. r \in BState /\ r.bad = s.bad /\ r.fast = s.fast /\ r.names = ns /\ r.bound = s.bound
          /\ r.sym = y /\ r.flags = f /\ r.ordinal = s.ordinal /\ r.type = s.type /\ r.addend = s.addend
          /\ r.address = s.address /\ r.segEnd = s.segEnd
      BY <1>1, <2>2, <2>3 DEF BState
    <3> QED BY <3>1 DEF f, y, ns, BSamePlace
  <2>5. r = Binding!Run1(kd, l, s, o)
    OBVIOUS
  <2> HIDE DEF r, o
  <2>6. ASSUME kd = "weak"
        PROVE  /\ BNames(r) /\ \A k \in 1..Len(r.names) : r.names[k] <= e.sym
               /\ e.flags = 2 <=> e.sym \in Overrides
    <3>1. BTable("weak", l, inf)
      BY <2>6 DEF BBefore
    <3>2. i = 0 \/ inf[i].sym # inf[i + 1].sym
      BY <2>6, <1>2, <1>4 DEF BNamesAt
    <3>3. (e.flags = 2 <=> e.sym \in Overrides) /\ (i > 0 => inf[i].sym < e.sym)
      BY <3>1, <3>2, <1>2, BFirstFlags
    <3>4. s.sym < e.sym
      <4>1. CASE i = 0
        BY <4>1, <2>6, <1>2 DEF BNamesAt
      <4>2. CASE i > 0
        BY <4>2, <3>3, <2>6 DEF BNamesAt
      <4> QED BY <4>1, <4>2, <1>2
    <3>5. \A k \in 1..Len(s.names) : s.names[k] < e.sym
      <4>1. \A k \in 1..Len(s.names) : s.names[k] <= s.sym /\ s.names[k] \in Nat
        BY <2>6, <2>3 DEF BNamesAt
      <4>2. s.sym \in Nat
        BY <1>1 DEF BState
      <4> QED BY <4>1, <4>2, <3>4, <1>2
    <3>6. BNames(s)
      BY <2>6, <1>1 DEF BStates
    <3> QED BY <3>3, <3>5, <3>6, <2>4, <1>1, <1>2, BNamesGrow
  <2>7. BNamesAt(kd, inf, i + 1, r)
    BY <2>4, <2>6, <1>1, <1>2 DEF BNamesAt
  <2>8. r \in BStates(kd, all) /\ BBinds(r, all, c)
    <3>1. BBinds(s, all, c) /\ \A x : BBinds(s, all, x) => BBinds(r, all, x)
      BY <2>4 DEF BBinds, BBefore
    <3>2. ~s.bad /\ s.fast = 0 /\ \E x \in 0..Len(all) : BBinds(s, all, x)
      BY <1>1 DEF BStates
    <3> QED BY <3>1, <3>2, <2>4, <2>6 DEF BStates
  <2>9. BFollows(kd, l, all, ops \o <<o>>, r)
    BY <2>2, <2>5, <2>8, BFollowsOne DEF BBefore
  <2>10. BBefore(kd, l, all, inf, i, ops \o <<o>>, r, c)
    BY <2>8, <2>9 DEF BBefore
  <2> QED BY <2>1, <2>4, <2>7, <2>10
<1> QED BY <1>3, <1>4

\* Gaps of LinkEdit, for one layout.
BGaps(l) == \A j, k \in 1..Len(l) : j < k => l[j].end < l[k].start

\* Where encode believes that it is in the right segment, it is, and so is dyld: without a
\* gap between the sections of two segments it would not be.
LEMMA BWhereFrom ==
    ASSUME NEW l, WellFormed(l), BGaps(l), NEW a \in Nat, NEW k, Within(l, k, a),
           NEW cu, NEW ad, NEW s, BAt(l, cu, ad, s), ad = a \/ ~(a < cu.start \/ a >= cu.end)
    PROVE  ad = s.address /\ cu = SegmentAt(l, k) /\ s.segEnd = l[k].limit
<1>1. /\ k \in 1..Len(l) /\ k \in Nat /\ l[k].start \in Nat /\ l[k].end \in Nat /\ l[k].start <= a /\ a < l[k].end
      /\ a < LdWord - 1 /\ PtrSize \in Nat \ {0}
  BY WithinFacts, WordsNest
<1>2. ~(cu = NoSegment /\ ad = LdWord - 1)
  <2> SUFFICES ASSUME cu = NoSegment, ad = LdWord - 1 PROVE FALSE
    OBVIOUS
  <2>1. cu.end = 0
    BY DEF NoSegment
  <2> QED BY <2>1, <1>1, WordsNest
<1>3. PICK j, b : /\ b \in Nat /\ Within(l, j, b) /\ cu = SegmentAt(l, j) /\ ad = b + PtrSize
                  /\ s.address = b + PtrSize /\ s.segEnd = l[j].limit
  BY <1>2 DEF BAt
<1>4. /\ j \in 1..Len(l) /\ j \in Nat /\ l[j].start \in Nat /\ l[j].end \in Nat
      /\ l[j].start <= b /\ b < l[j].end /\ b + PtrSize <= l[j].end
  BY <1>3, WithinFacts
<1>5. cu.start = l[j].start /\ cu.end = l[j].end
  BY <1>3 DEF SegmentAt
<1>6. l[j].start <= a /\ a < l[j].end
  <2> DEFINE st == l[j].start
             en == l[j].end
  <2>1. st \in Nat /\ en \in Nat /\ st <= b /\ b + PtrSize <= en
    BY <1>4
  <2>2. CASE ad = a
    <3>1. a = b + PtrSize
      BY <2>2, <1>3
    <3>2. ASSUME a = en PROVE FALSE
      <4>1. CASE j = k
        BY <4>1, <3>2, <1>1
      <4>2. CASE j < k
        <5>1. en < l[k].start
          BY <4>2, <1>1, <1>4 DEF BGaps
        <5> HIDE DEF en
        <5> QED BY <5>1, <3>2, <1>1
      <4>3. CASE k < j
        <5>1. l[k].limit <= st /\ l[k].end <= l[k].limit /\ l[k].limit \in Nat
          BY <4>3, <1>1, <1>4, SegmentFacts
        <5> HIDE DEF st, en
        <5> QED BY <5>1, <3>1, <2>1, <1>1, <1>3
      <4> QED BY <4>1, <4>2, <4>3, <1>1, <1>4
    <3> HIDE DEF st, en
    <3>3. st <= a /\ a < en
      BY <3>1, <3>2, <2>1, <1>1, <1>3
    <3> QED BY <3>3 DEF st, en
  <2>3. CASE ~(a < cu.start \/ a >= cu.end)
    BY <2>3, <1>1, <1>4, <1>5
  <2> QED BY <2>2, <2>3
<1>7. j = k
  BY <1>1, <1>4, <1>6, WithinOne
<1> QED BY <1>3, <1>7

\* What encode computes to move to the address a.
BMoves(l, cu, ad, a, out, seg, moved) ==
    /\ out = (a < cu.start \/ a >= cu.end)
    /\ seg = (IF ad # a /\ out THEN findSegment(l, a) ELSE cu)
    /\ moved = (IF ad = a THEN <<>>
                ELSE IF out
                THEN <<Binding!Op("SET_SEGMENT_AND_OFFSET_ULEB", seg.index, a - seg.start)>>
                ELSE <<Binding!Op("ADD_ADDR_ULEB", (a - ad) % LdWord, 0)>>)

\* A move leaves the columns.
BStaysNamed(r, s) == BSameNames(r, s) /\ r.type = s.type /\ r.addend = s.addend

\* dyld is led to the address of the next entry.
LEMMA BMovedStep ==
    ASSUME NEW kd, NEW l, NEW all, NEW inf, NEW i, NEW ops, NEW s, NEW c, BBefore(kd, l, all, inf, i, ops, s, c),
           BGaps(l), NEW a \in Nat, NEW k, Within(l, k, a), NEW cu, NEW ad, BAt(l, cu, ad, s),
           NEW out, NEW seg, NEW moved, BMoves(l, cu, ad, a, out, seg, moved)
    PROVE  /\ seg = SegmentAt(l, k)
           /\ \E r : /\ BBefore(kd, l, all, inf, i, ops \o moved, r, c) /\ BStaysNamed(r, s)
                     /\ r.address = a /\ r.segEnd = l[k].limit
<1>1. s \in BState /\ kd \in BKinds /\ WellFormed(l)
  BY BBeforeFacts DEF BBefore
<1>2. a \in 0..(DyldWord - 1) /\ l[k].limit \in Nat
  BY <1>1, WithinFacts
<1>3. ad = a \/ ~out => ad = s.address /\ cu = SegmentAt(l, k) /\ s.segEnd = l[k].limit
  <2> SUFFICES ASSUME ad = a \/ ~out PROVE ad = s.address /\ cu = SegmentAt(l, k) /\ s.segEnd = l[k].limit
    OBVIOUS
  <2>1. ad = a \/ ~(a < cu.start \/ a >= cu.end)
    BY DEF BMoves
  <2> QED BY <2>1, <1>1, BWhereFrom
<1>4. findSegment(l, a) = SegmentAt(l, k)
  BY <1>1, FindsSegment
<1>5. seg = SegmentAt(l, k) /\ seg.start = l[k].start /\ seg.index = k - 1
  <2>1. seg = SegmentAt(l, k)
    BY <1>3, <1>4 DEF BMoves
  <2> QED BY <2>1 DEF SegmentAt
<1>6. CASE ad = a
  <2>1. moved = <<>>
    BY <1>6 DEF BMoves
  <2>2. BBefore(kd, l, all, inf, i, ops \o moved, s, c)
    BY <2>1, BSkipStep
  <2> QED BY <2>2, <1>3, <1>5, <1>6 DEF BStaysNamed, BSameNames
<1>7. CASE ad # a /\ out
  <2> DEFINE o == Binding!Op("SET_SEGMENT_AND_OFFSET_ULEB", k - 1, a - l[k].start)
             r == Binding!Run1(kd, l, s, o)
  <2>1. moved = <<o>>
    BY <1>5, <1>7 DEF BMoves
  <2>2. BOk(kd, l, o) /\ r = BLoadedAt(s, a, l[k].limit)
    <3>1. o = BSegmentOp(l, k, a) /\ r = Binding!Run1(kd, l, s, o)
      BY DEF BSegmentOp
    <3> HIDE DEF o, r
    <3>2. BOk(kd, l, o) /\ Binding!Run1(kd, l, s, o) = BLoadedAt(s, a, l[k].limit)
      BY <3>1, <1>1, BOpSegment
    <3> QED BY <3>1, <3>2
  <2>3. r \in BState /\ r.bad = s.bad /\ r.fast = s.fast /\ r.names = s.names /\ r.bound = s.bound
        /\ BStaysNamed(r, s) /\ r.address = a /\ r.segEnd = l[k].limit
    <3> DEFINE x == l[k].limit
    <3>1. x \in Nat /\ r = [s EXCEPT !.address = a, !.segEnd = x]
      BY <1>2, <2>2 DEF BLoadedAt
    <3> HIDE DEF r, x
    <3>2. r \in BState
      BY <1>1, <1>2, <3>1 DEF BState
    <3>3. /\ r.bad = s.bad /\ r.fast = s.fast /\ r.names = s.names /\ r.bound = s.bound
          /\ BStaysNamed(r, s) /\ r.address = a /\ r.segEnd = x
      BY <1>1, <3>1 DEF BState, BStaysNamed, BSameNames
    <3> QED BY <3>2, <3>3 DEF x
  <2>4. r = Binding!Run1(kd, l, s, o)
    OBVIOUS
  <2> HIDE DEF r, o
  <2>5. BBefore(kd, l, all, inf, i, ops \o <<o>>, r, c)
    BY <2>2, <2>3, <2>4, BSetStep
  <2> QED BY <2>1, <2>3, <2>5, <1>5
<1>8. CASE ad # a /\ ~out
  <2> DEFINE o == Binding!Op("ADD_ADDR_ULEB", (a - s.address) % LdWord, 0)
             r == Binding!Run1(kd, l, s, o)
  <2>1. moved = <<o>>
    BY <1>3, <1>8 DEF BMoves
  <2>2. BOk(kd, l, o) /\ r = BMovedTo(s, a)
    <3>1. o = Binding!Op("ADD_ADDR_ULEB", BApart(s, a), 0) /\ r = Binding!Run1(kd, l, s, o)
      BY DEF BApart
    <3> HIDE DEF o, r
    <3>2. BOk(kd, l, o) /\ Binding!Run1(kd, l, s, o) = BMovedTo(s, a)
      BY <3>1, <1>1, <1>2, BOpAdd
    <3> QED BY <3>1, <3>2
  <2>3. r \in BState /\ r.bad = s.bad /\ r.fast = s.fast /\ r.names = s.names /\ r.bound = s.bound
        /\ BStaysNamed(r, s) /\ r.address = a /\ r.segEnd = s.segEnd
    <3> HIDE DEF r
    <3> QED BY <1>1, <1>2, <2>2 DEF BState, BStaysNamed, BSameNames, BLoadedAt, BMovedTo
  <2>4. r = Binding!Run1(kd, l, s, o)
    OBVIOUS
  <2> HIDE DEF r, o
  <2>5. BBefore(kd, l, all, inf, i, ops \o <<o>>, r, c)
    BY <2>2, <2>3, <2>4, BSetStep
  <2> QED BY <2>1, <2>3, <2>5, <1>3, <1>5, <1>8
<1> QED BY <1>6, <1>7, <1>8 DEF BMoves

\* A list and one more entry.
LEMMA BLastOf ==
    ASSUME NEW x \in Seq(BEntry), NEW b \in BEntry
    PROVE  /\ x \o <<b>> \in Seq(BEntry) /\ Len(x) \in Nat /\ Len(x \o <<b>>) = Len(x) + 1
           /\ (x \o <<b>>)[Len(x) + 1] = b
           /\ \A k \in 1..Len(x) : (x \o <<b>>)[k] = x[k]
OBVIOUS

\* One more entry is bound.
LEMMA BBindsAdd ==
    ASSUME NEW s \in BState, NEW all, NEW c, BBinds(s, all, c), NEW b \in BEntry,
           Binding!Tuple(b) = Binding!Tuple(all[c + 1]), NEW r, r.bound = s.bound \o <<b>>
    PROVE  BBinds(r, all, c + 1)
<1> DEFINE x == s.bound
           z == x \o <<b>>
<1>1. x \in Seq(BEntry) /\ Len(x) = c /\ \A k \in 1..c : Binding!Tuple(x[k]) = Binding!Tuple(all[k])
  BY DEF BState, BBinds
<1>2. r.bound = z
  OBVIOUS
<1> HIDE DEF x
<1>3. Len(z) = c + 1 /\ z[c + 1] = b /\ c \in Nat /\ \A k \in 1..c : z[k] = x[k]
  BY <1>1, BLastOf
<1> HIDE DEF z
<1>4. ASSUME NEW k \in 1..(c + 1) PROVE Binding!Tuple(z[k]) = Binding!Tuple(all[k])
  <2>1. k = c + 1 \/ k \in 1..c
    BY <1>3
  <2> QED BY <2>1, <1>1, <1>3
<1> QED BY <1>2, <1>3, <1>4 DEF BBinds

\* An entry that is bound says of its symbol what the weak table has to say.
LEMMA BNamesAdd ==
    ASSUME NEW s \in BState, BNames(s), NEW b \in BEntry, b.flags = 2 <=> b.sym \in Overrides,
           NEW r, r.bound = s.bound \o <<b>>, r.names = s.names
    PROVE  BNames(r)
<1> DEFINE x == s.bound
           z == x \o <<b>>
<1>1. x \in Seq(BEntry) /\ \A k \in 1..Len(x) : (x[k].flags = 2) <=> (x[k].sym \in Overrides)
  BY DEF BState, BNames
<1>2. r.bound = z
  OBVIOUS
<1> HIDE DEF x
<1>3. Len(z) = Len(x) + 1 /\ z[Len(x) + 1] = b /\ Len(x) \in Nat /\ \A k \in 1..Len(x) : z[k] = x[k]
  BY <1>1, BLastOf
<1> HIDE DEF z
<1>4. ASSUME NEW k \in 1..Len(z) PROVE (z[k].flags = 2) <=> (z[k].sym \in Overrides)
  <2>1. k = Len(x) + 1 \/ k \in 1..Len(x)
    BY <1>3
  <2>2. CASE k = Len(x) + 1
    <3>1. z[k] = b
      BY <2>2, <1>3
    <3> QED BY <3>1
  <2>3. CASE k \in 1..Len(x)
    <3>1. z[k] = x[k]
      BY <2>3, <1>3
    <3> QED BY <2>3, <3>1, <1>1
  <2> QED BY <2>1, <2>2, <2>3
<1> QED BY <1>2, <1>4 DEF BNames

\* The bind of the next entry.
LEMMA BDoStep ==
    ASSUME NEW kd, NEW l, NEW all, NEW inf, NEW i, NEW ops, NEW s, NEW c, BBefore(kd, l, all, inf, i, ops, s, c),
           BNamesAt(kd, inf, i + 1, s), NEW e \in BEntry, e = inf[i + 1], all[c + 1] = e, c + 1 \in 0..Len(all),
           s.sym = e.sym, s.ordinal = e.ordinal, s.type = e.type, s.addend = e.addend, s.address = e.address,
           NEW k, Within(l, k, e.address), s.segEnd = l[k].limit
    PROVE  \E r : /\ BFollows(kd, l, all, ops \o <<Binding!Op("DO_BIND", 0, 0)>>, r)
                  /\ BBinds(r, all, c + 1) /\ BSame(r, s) /\ r.address = e.address + PtrSize
<1>1. s \in BState /\ s \in BStates(kd, all) /\ kd \in BKinds /\ i + 1 > 0 /\ WellFormed(l) /\ BBinds(s, all, c)
      /\ BFollows(kd, l, all, ops, s)
  BY BBeforeFacts DEF BBefore
<1> DEFINE o == Binding!Op("DO_BIND", 0, 0)
           r == Binding!Run1(kd, l, s, o)
           a == e.address
<1>2. a \in Nat /\ Within(l, k, a) /\ s.address = a
  BY DEF BEntry
<1>3. r = Binding!Run1(kd, l, s, o) /\ o = Binding!Op("DO_BIND", 0, 0)
  OBVIOUS
<1> HIDE DEF o, r
<1>4. /\ BOk(kd, l, o) /\ r \in BState /\ BSame(r, s) /\ r.address = a + PtrSize
      /\ r.bound = s.bound \o <<BBound(s)>> /\ BBound(s) \in BEntry /\ r.bad = s.bad
  <2> HIDE DEF a
  <2> QED BY <1>1, <1>2, <1>3, BOpDo
<1>5. Binding!Tuple(BBound(s)) = Binding!Tuple(e)
  BY DEF BBound, Binding!Tuple
<1>6. BBound(s).flags = s.flags /\ BBound(s).sym = s.sym
  BY DEF BBound
<1>7. BBinds(r, all, c + 1)
  BY <1>1, <1>4, <1>5, BBindsAdd
<1>8. kd = "weak" => BNames(r)
  <2> SUFFICES ASSUME kd = "weak" PROVE BNames(r)
    OBVIOUS
  <2>1. BBound(s).flags = 2 <=> BBound(s).sym \in Overrides
    BY <1>1, <1>6 DEF BNamesAt
  <2>2. BNames(s) /\ r.names = s.names
    BY <1>1, <1>4 DEF BStates, BSame
  <2> QED BY <2>1, <2>2, <1>1, <1>4, BNamesAdd
<1>9. r \in BStates(kd, all)
  BY <1>1, <1>4, <1>7, <1>8 DEF BStates, BSame
<1>10. BFollows(kd, l, all, ops \o <<o>>, r)
  BY <1>1, <1>3, <1>4, <1>9, BFollowsOne
<1> QED BY <1>4, <1>7, <1>10, <1>3

\* The linker's columns.
BCol == [ordinal : Int, sym : Nat, type : Nat, address : Int, addend : Int]

\* Where the translation of the first i entries, c of them pointers, leaves the
\* linker's variables and dyld's.
BPlace(kd, l, all, inf, i, c, cu, co, s) ==
    /\ i \in 0..Len(inf) /\ co \in BCol /\ BBinds(s, all, c)
    /\ s.type = co.type /\ s.addend = co.addend /\ s.sym = co.sym
    /\ kd # "weak" => co.ordinal = Binding!NoOrdinal \/ co.ordinal = s.ordinal
    /\ BNamesAt(kd, inf, i, s) /\ BAt(l, cu, co.address, s)

\* What encode computes for the names of entry e, and for the rest of it.
BNaming(kd, co, e, ords, symd) ==
    /\ ords = (IF kd = "weak" \/ co.ordinal = e.ordinal THEN <<>>
               ELSE <<Binding!Op(IF e.ordinal <= 0 THEN "SET_DYLIB_SPECIAL_IMM" ELSE "SET_DYLIB_ORDINAL_ULEB",
                                 e.ordinal, 0)>>)
    /\ symd = (IF co.sym # e.sym THEN <<Binding!Op("SET_SYMBOL_TRAILING_FLAGS_IMM", e.flags, e.sym)>> ELSE <<>>)

\* What encode computes for the type, the place and the addend of entry e.
BPointing(l, cu, co, e, typed, out, seg, moved, added) ==
    /\ typed = (IF co.type # e.type THEN <<Binding!Op("SET_TYPE_IMM", e.type, 0)>> ELSE <<>>)
    /\ BMoves(l, cu, co.address, e.address, out, seg, moved)
    /\ added = (IF co.addend # e.addend THEN <<Binding!Op("SET_ADDEND_SLEB", e.addend, 0)>> ELSE <<>>)

\* The library and the symbol of the next entry.
LEMMA BNamedStep ==
    ASSUME NEW kd, NEW l, NEW all, NEW inf, NEW i, NEW ops, NEW s, NEW c, BBefore(kd, l, all, inf, i, ops, s, c),
           NEW cu, NEW co, BPlace(kd, l, all, inf, i, c, cu, co, s),
           NEW e, e = inf[i + 1], NEW ords, NEW symd, BNaming(kd, co, e, ords, symd)
    PROVE  \E r : /\ BBefore(kd, l, all, inf, i, (ops \o ords) \o symd, r, c) /\ BNamesAt(kd, inf, i + 1, r)
                  /\ r.sym = e.sym /\ r.ordinal = e.ordinal /\ BSamePlace(r, s)
                  /\ r.type = s.type /\ r.addend = s.addend
<1> DEFINE s1 == [s EXCEPT !.ordinal = e.ordinal]
           ops1 == ops \o ords
           ord == co.ordinal
<1>1. s \in BState
  BY BBeforeFacts
<1>2. BNamesAt(kd, inf, i, s) /\ (kd # "weak" => ord = Binding!NoOrdinal \/ ord = s.ordinal) /\ s.sym = co.sym
  BY DEF BPlace
<1>3. ords = IF kd = "weak" \/ ord = e.ordinal THEN <<>>
             ELSE <<Binding!Op(IF e.ordinal <= 0 THEN "SET_DYLIB_SPECIAL_IMM" ELSE "SET_DYLIB_ORDINAL_ULEB",
                               e.ordinal, 0)>>
  BY DEF BNaming
<1>4. BBefore(kd, l, all, inf, i, ops1, s1, c) /\ BNamesAt(kd, inf, i, s1)
  <2> HIDE DEF ord
  <2> QED BY <1>2, <1>3, BOrdinalsStep
<1>5. s1.ordinal = e.ordinal /\ s1.sym = s.sym /\ BSamePlace(s1, s) /\ s1.type = s.type /\ s1.addend = s.addend
  BY <1>1 DEF BState, BSamePlace
<1>6. symd = IF s1.sym # e.sym THEN <<Binding!Op("SET_SYMBOL_TRAILING_FLAGS_IMM", e.flags, e.sym)>> ELSE <<>>
  BY <1>2, <1>5 DEF BNaming
<1> HIDE DEF s1, ops1, ord
<1>7. PICK r : /\ BBefore(kd, l, all, inf, i, ops1 \o symd, r, c) /\ BNamesAt(kd, inf, i + 1, r)
               /\ r.sym = e.sym /\ r.ordinal = s1.ordinal /\ BSamePlace(r, s1)
               /\ r.type = s1.type /\ r.addend = s1.addend
  BY <1>4, <1>6, BSymbolStep
<1>8. BSamePlace(r, s)
  BY <1>5, <1>7 DEF BSamePlace
<1> QED BY <1>5, <1>7, <1>8 DEF ops1

\* A symbol that is overridden here: its name, and nothing to bind.
LEMMA BOverrideStep ==
    ASSUME NEW l, NEW all, NEW inf, NEW i, NEW ops, NEW s, NEW c, BBefore("weak", l, all, inf, i, ops, s, c),
           NEW cu, NEW co, BPlace("weak", l, all, inf, i, c, cu, co, s),
           NEW e, e = inf[i + 1], NEW ords, NEW symd, BNaming("weak", co, e, ords, symd)
    PROVE  \E r : /\ BFollows("weak", l, all, (ops \o ords) \o symd, r)
                  /\ BPlace("weak", l, all, inf, i + 1, c, cu, [co EXCEPT !.sym = e.sym], r)
<1>1. PICK r : /\ BBefore("weak", l, all, inf, i, (ops \o ords) \o symd, r, c) /\ BNamesAt("weak", inf, i + 1, r)
               /\ r.sym = e.sym /\ r.ordinal = e.ordinal /\ BSamePlace(r, s)
               /\ r.type = s.type /\ r.addend = s.addend
  BY BNamedStep
<1>2. BFollows("weak", l, all, (ops \o ords) \o symd, r) /\ BBinds(r, all, c)
  BY <1>1 DEF BBefore
<1>3. e \in BEntry /\ i + 1 \in 0..Len(inf) /\ e.sym \in Nat
  <2>1. e \in BEntry /\ i + 1 \in 1..Len(inf)
    BY BBeforeFacts
  <2> QED BY <2>1 DEF BEntry
<1> DEFINE co1 == [co EXCEPT !.sym = e.sym]
<1>4. co1 \in BCol /\ co1.sym = e.sym /\ co1.type = co.type /\ co1.addend = co.addend /\ co1.address = co.address
  BY <1>3 DEF BPlace, BCol
<1> HIDE DEF co1
<1>5. BAt(l, cu, co1.address, r)
  BY <1>1, <1>4 DEF BPlace, BAt, BSamePlace
<1>6. s.type = co.type /\ s.addend = co.addend
  BY DEF BPlace
<1>7. BPlace("weak", l, all, inf, i + 1, c, cu, co1, r)
  BY <1>1, <1>2, <1>3, <1>4, <1>5, <1>6 DEF BPlace
<1> QED BY <1>2, <1>7 DEF co1

\* The columns after entry e.
BColOf(e) == [ordinal |-> e.ordinal, sym |-> e.sym, type |-> e.type,
              address |-> (e.address + PtrSize) % LdWord, addend |-> e.addend]

\* The linker's columns after an entry.
LEMMA BColIs ==
    ASSUME NEW l, WellFormed(l), NEW e \in BEntry, NEW k, Within(l, k, e.address)
    PROVE  /\ BColOf(e) \in BCol /\ BColOf(e).address = e.address + PtrSize
           /\ BColOf(e).ordinal = e.ordinal /\ BColOf(e).sym = e.sym /\ BColOf(e).type = e.type
           /\ BColOf(e).addend = e.addend
<1> DEFINE a == e.address
<1>1. a \in Nat /\ Within(l, k, a) /\ e.ordinal \in Int /\ e.sym \in Nat /\ e.type \in Nat /\ e.addend \in Int
  BY DEF BEntry
<1>2. BColOf(e) = [ordinal |-> e.ordinal, sym |-> e.sym, type |-> e.type,
                   address |-> (a + PtrSize) % LdWord, addend |-> e.addend]
  BY DEF BColOf
<1> HIDE DEF a
<1>3. a + PtrSize < LdWord /\ PtrSize \in Nat /\ LdWord \in Nat \ {0}
  BY <1>1, WithinFacts, WordsNest
<1>4. a + PtrSize \in 0..(LdWord - 1) /\ a + PtrSize \in Int
  BY <1>1, <1>3
<1>5. (a + PtrSize) % LdWord = a + PtrSize
  BY <1>3, <1>4, ModSmall
<1>6. BColOf(e) = [ordinal |-> e.ordinal, sym |-> e.sym, type |-> e.type, address |-> a + PtrSize,
                   addend |-> e.addend]
  BY <1>2, <1>5
<1>7. BColOf(e) \in BCol
  BY <1>1, <1>4, <1>6 DEF BCol
<1> QED BY <1>6, <1>7 DEF a

\* A pointer: its name, its type, its place, its addend and the bind.
LEMMA BPointerStep ==
    ASSUME NEW kd, NEW l, NEW all, NEW inf, NEW i, NEW ops, NEW s, NEW c, BBefore(kd, l, all, inf, i, ops, s, c),
           BGaps(l), NEW cu, NEW co, BPlace(kd, l, all, inf, i, c, cu, co, s),
           NEW e, e = inf[i + 1], e.type # 0, all[c + 1] = e, c + 1 \in 0..Len(all),
           NEW ords, NEW symd, BNaming(kd, co, e, ords, symd),
           NEW typed, NEW out, NEW seg, NEW moved, NEW added, BPointing(l, cu, co, e, typed, out, seg, moved, added)
    PROVE  /\ Covered(l, e.address)
           /\ \E r : /\ BFollows(kd, l, all,
                                 (((((ops \o ords) \o symd) \o typed) \o moved) \o added)
                                 \o <<Binding!Op("DO_BIND", 0, 0)>>, r)
                     /\ BPlace(kd, l, all, inf, i + 1, c + 1, seg, BColOf(e), r)
<1>1. e \in BEntry /\ BIn(kd, l, e) /\ WellFormed(l) /\ i + 1 \in 1..Len(inf) /\ i + 1 \in 0..Len(inf)
  <2>1. inf[i + 1] \in BEntry /\ BIn(kd, l, inf[i + 1]) /\ i + 1 \in 1..Len(inf)
    BY BBeforeFacts
  <2> QED BY <2>1 DEF BBefore
<1> DEFINE a == e.address
           y == e.type
           z == e.addend
<1>2. a \in Nat /\ z \in Int
  BY <1>1 DEF BEntry
<1>3. y \in {1, 2} /\ \E k : Within(l, k, a)
  BY <1>1 DEF BIn
<1>4. PICK k : Within(l, k, a)
  BY <1>3
<1> DEFINE ad == co.address
           ops2 == (ops \o ords) \o symd
           ops3 == ops2 \o typed
           ops4 == ops3 \o moved
           ops5 == ops4 \o added
<1>5. s.type = co.type /\ s.addend = co.addend /\ BAt(l, cu, ad, s)
  BY DEF BPlace
<1>6. BMoves(l, cu, ad, a, out, seg, moved)
      /\ typed = (IF s.type # y THEN <<Binding!Op("SET_TYPE_IMM", y, 0)>> ELSE <<>>)
      /\ added = (IF s.addend # z THEN <<Binding!Op("SET_ADDEND_SLEB", z, 0)>> ELSE <<>>)
  BY <1>5 DEF BPointing
<1>7. PICK s2 : /\ BBefore(kd, l, all, inf, i, ops2, s2, c) /\ BNamesAt(kd, inf, i + 1, s2)
                /\ s2.sym = e.sym /\ s2.ordinal = e.ordinal /\ BSamePlace(s2, s)
                /\ s2.type = s.type /\ s2.addend = s.addend
  BY BNamedStep
<1> HIDE DEF a, y, z, ad, ops2, ops3, ops4, ops5
<1>8. PICK s3 : /\ BBefore(kd, l, all, inf, i, ops2 \o typed, s3, c) /\ BSameNames(s3, s2) /\ BSamePlace(s3, s2)
                /\ s3.type = y /\ s3.addend = s2.addend
  <2>1. typed = (IF s2.type # y THEN <<Binding!Op("SET_TYPE_IMM", y, 0)>> ELSE <<>>)
    BY <1>6, <1>7
  <2>2. y \in {1, 2} /\ BBefore(kd, l, all, inf, i, ops2, s2, c)
    BY <1>3, <1>7
  <2>3. \E r : /\ BBefore(kd, l, all, inf, i, ops2 \o typed, r, c) /\ BSameNames(r, s2) /\ BSamePlace(r, s2)
               /\ r.type = y /\ r.addend = s2.addend
    BY <2>1, <2>2, BTypeStep
  <2> QED BY <2>3
<1>9. BAt(l, cu, ad, s3)
  BY <1>5, <1>7, <1>8 DEF BAt, BSamePlace
<1>10. BBefore(kd, l, all, inf, i, ops3, s3, c)
  BY <1>8 DEF ops3
<1>11. /\ seg = SegmentAt(l, k)
       /\ \E r : /\ BBefore(kd, l, all, inf, i, ops3 \o moved, r, c) /\ BStaysNamed(r, s3)
                 /\ r.address = a /\ r.segEnd = l[k].limit
  BY <1>2, <1>4, <1>6, <1>9, <1>10, BMovedStep
<1>12. PICK s4 : /\ BBefore(kd, l, all, inf, i, ops3 \o moved, s4, c) /\ BStaysNamed(s4, s3)
                 /\ s4.address = a /\ s4.segEnd = l[k].limit
  BY <1>11
<1>13. BBefore(kd, l, all, inf, i, ops4, s4, c)
  BY <1>12 DEF ops4
<1>14. s4.addend = s.addend /\ s4.type = y /\ BSameNames(s4, s2)
  BY <1>7, <1>8, <1>12 DEF BStaysNamed, BSameNames
<1>15. PICK s5 : /\ BBefore(kd, l, all, inf, i, ops4 \o added, s5, c) /\ BSameNames(s5, s4) /\ BSamePlace(s5, s4)
                 /\ s5.type = s4.type /\ s5.addend = z
  <2>1. added = (IF s4.addend # z THEN <<Binding!Op("SET_ADDEND_SLEB", z, 0)>> ELSE <<>>)
    BY <1>6, <1>14
  <2> QED BY <2>1, <1>2, <1>13, BAddendStep
<1>16. BBefore(kd, l, all, inf, i, ops5, s5, c)
  BY <1>15 DEF ops5
<1>17. BSameNames(s5, s2) /\ s5.type = y /\ s5.addend = z /\ s5.address = a /\ s5.segEnd = l[k].limit
  BY <1>12, <1>14, <1>15 DEF BSameNames, BSamePlace
<1>18. BNamesAt(kd, inf, i + 1, s5)
  BY <1>7, <1>17, BNamesStay
<1>19. s5.sym = e.sym /\ s5.ordinal = e.ordinal /\ s5.type = e.type /\ s5.addend = e.addend
       /\ s5.address = e.address
  BY <1>7, <1>17 DEF BSameNames, a, y, z
<1>20. PICK r : /\ BFollows(kd, l, all, ops5 \o <<Binding!Op("DO_BIND", 0, 0)>>, r)
                /\ BBinds(r, all, c + 1) /\ BSame(r, s5) /\ r.address = e.address + PtrSize
  <2>1. Within(l, k, e.address)
    BY <1>4 DEF a
  <2> QED BY <2>1, <1>1, <1>16, <1>17, <1>18, <1>19, BDoStep
<1>21. BPlace(kd, l, all, inf, i + 1, c + 1, seg, BColOf(e), r)
  <2>1. /\ BColOf(e) \in BCol /\ BColOf(e).address = e.address + PtrSize
        /\ BColOf(e).ordinal = e.ordinal /\ BColOf(e).sym = e.sym /\ BColOf(e).type = e.type
        /\ BColOf(e).addend = e.addend
    BY <1>1, <1>4, BColIs DEF a
  <2>2. r.type = e.type /\ r.addend = e.addend /\ r.sym = e.sym /\ r.ordinal = e.ordinal /\ r.segEnd = l[k].limit
        /\ BSameNames(r, s5)
    BY <1>17, <1>19, <1>20 DEF BSame, BSameNames
  <2>3. BNamesAt(kd, inf, i + 1, r)
    BY <1>18, <2>2, BNamesStay
  <2>4. r.address = a + PtrSize /\ BColOf(e).address = a + PtrSize
    BY <1>20, <2>1 DEF a
  <2>5. BAt(l, seg, BColOf(e).address, r)
    BY <1>2, <1>4, <1>11, <2>2, <2>4 DEF BAt
  <2> QED BY <1>1, <1>20, <2>1, <2>2, <2>3, <2>5 DEF BPlace
<1>22. Covered(l, e.address)
  <2>1. Covered(l, a)
    BY <1>1, <1>2, <1>4, FindsSegment
  <2> QED BY <2>1 DEF a
<1> QED BY <1>20, <1>21, <1>22 DEF ops5, ops4, ops3, ops2

\* The pointers to bind, and how many of them the first i entries hold.
BAll(inf) == Binding!ToBind(inf)
BCount(inf, i) == Len(Binding!ToBind(SubSeq(inf, 1, i)))

\* How many of the first entries are pointers, and which.
LEMMA BAllFacts ==
    ASSUME NEW inf \in Seq(BEntry)
    PROVE  /\ BAll(inf) \in Seq(BEntry) /\ BCount(inf, 0) = 0 /\ BCount(inf, Len(inf)) = Len(BAll(inf))
           /\ \A i \in 0..Len(inf) :
                /\ BCount(inf, i) \in 0..Len(BAll(inf))
                /\ Len(Binding!ToBind(SubSeq(inf, 1, i))) = BCount(inf, i)
                /\ \A k \in 1..BCount(inf, i) : Binding!ToBind(SubSeq(inf, 1, i))[k] = BAll(inf)[k]
           /\ \A i \in 0..(Len(inf) - 1) :
                /\ inf[i + 1].type = 0 => BCount(inf, i + 1) = BCount(inf, i)
                /\ inf[i + 1].type # 0 => /\ BCount(inf, i + 1) = BCount(inf, i) + 1
                                          /\ BAll(inf)[BCount(inf, i) + 1] = inf[i + 1]
<1>0. Len(inf) \in Nat /\ SubSeq(inf, 1, Len(inf)) = inf /\ 0 \in 0..Len(inf) /\ Len(inf) \in 0..Len(inf)
  OBVIOUS
<1>1. PICK t : BChosen(inf, t)
  BY BChosenExists
<1>2. \A i \in 0..Len(inf) : Binding!ToBind(SubSeq(inf, 1, i)) = t[i] /\ BCount(inf, i) = Len(t[i])
  BY <1>1, BChosenIs DEF BCount
<1>3. BAll(inf) = t[Len(inf)]
  BY <1>0, <1>2 DEF BAll
<1>4. t[0] = <<>> /\ Len(<<>>) = 0
  BY <1>1 DEF BChosen
<1>5. \A i \in 0..Len(inf) : /\ t[i] \in Seq(BEntry) /\ Len(t[i]) <= Len(t[Len(inf)])
                             /\ \A k \in 1..Len(t[i]) : t[Len(inf)][k] = t[i][k]
  BY <1>1, BChosenGrows
<1>6. \A i \in 0..Len(inf) : Len(t[i]) \in 0..Len(t[Len(inf)])
  <2> TAKE i \in 0..Len(inf)
  <2>1. t[i] \in Seq(BEntry) /\ Len(t[i]) <= Len(t[Len(inf)]) /\ t[Len(inf)] \in Seq(BEntry)
    BY <1>0, <1>5
  <2>2. Len(t[i]) \in Nat /\ Len(t[Len(inf)]) \in Nat
    BY <2>1
  <2> QED BY <2>1, <2>2
<1>7. \A i \in 0..(Len(inf) - 1) :
         /\ inf[i + 1].type = 0 => BCount(inf, i + 1) = BCount(inf, i)
         /\ inf[i + 1].type # 0 => /\ BCount(inf, i + 1) = BCount(inf, i) + 1
                                   /\ BAll(inf)[BCount(inf, i) + 1] = inf[i + 1]
  <2> TAKE i \in 0..(Len(inf) - 1)
  <2>1. i \in Nat /\ i < Len(inf) /\ i \in 0..Len(inf) /\ i + 1 \in 0..Len(inf)
    BY <1>0
  <2>2. /\ inf[i + 1].type = 0 => Len(t[i + 1]) = Len(t[i])
        /\ inf[i + 1].type # 0 => Len(t[i + 1]) = Len(t[i]) + 1 /\ t[Len(inf)][Len(t[i]) + 1] = inf[i + 1]
    BY <1>1, <2>1, BChosenNext
  <2>3. BCount(inf, i) = Len(t[i]) /\ BCount(inf, i + 1) = Len(t[i + 1])
    BY <1>2, <2>1
  <2> QED BY <2>2, <2>3, <1>3
<1>8. BAll(inf) \in Seq(BEntry) /\ BCount(inf, 0) = 0 /\ BCount(inf, Len(inf)) = Len(BAll(inf))
  BY <1>0, <1>2, <1>3, <1>4, <1>5
<1>9. \A i \in 0..Len(inf) :
         /\ BCount(inf, i) \in 0..Len(BAll(inf))
         /\ Len(Binding!ToBind(SubSeq(inf, 1, i))) = BCount(inf, i)
         /\ \A k \in 1..BCount(inf, i) : Binding!ToBind(SubSeq(inf, 1, i))[k] = BAll(inf)[k]
  <2> TAKE i \in 0..Len(inf)
  <2>1. Binding!ToBind(SubSeq(inf, 1, i)) = t[i] /\ BCount(inf, i) = Len(t[i])
    BY <1>2
  <2>2. \A k \in 1..Len(t[i]) : t[Len(inf)][k] = t[i][k]
    BY <1>5
  <2>3. Len(t[i]) \in 0..Len(t[Len(inf)])
    BY <1>6
  <2> QED BY <2>1, <2>2, <2>3, <1>3
<1> QED BY <1>7, <1>8, <1>9

\* The images considered.
LEMMA BLayout ==
    ASSUME NEW l \in BindLayouts
    PROVE  /\ WellFormed(l) /\ Len(l) \in Nat
           /\ FewSegments => Len(l) <= Imm + 1
           /\ Gaps => BGaps(l)
<1>1. WellFormed(l)
  BY LayoutAssumption
<1>2. Len(l) \in Nat
  BY <1>1, SegmentFacts
<1> QED BY <1>1, <1>2 DEF FewSegments, Gaps, BGaps

\* dyld before the first opcode.
LEMMA BDyld0 ==
    ASSUME NEW kd \in BKinds, NEW l, WellFormed(l), NEW all \in Seq(BEntry)
    PROVE  LET s == Binding!Dyld0(kd, l)
           IN  /\ s \in BStates(kd, all) /\ BBinds(s, all, 0) /\ s.sym = 0 /\ s.ordinal = 0 /\ s.addend = 0
               /\ s.names = <<>> /\ s.bound = <<>> /\ s.type = (IF kd = "lazy" THEN 1 ELSE 0)
<1> DEFINE s == Binding!Dyld0(kd, l)
<1>1. 1 \in 1..Len(l) /\ 0 + 1 = 1
  BY SegmentFacts
<1>2. l[1].start \in Nat /\ l[1].limit \in Nat /\ l[1].start < DyldWord /\ DyldWord \in Nat \ {0}
  BY <1>1, SegmentFacts, WordsNest
<1>3. s = [address |-> IF kd = "weak" THEN 0 ELSE l[1].start, segEnd |-> l[1].limit,
           type |-> IF kd = "lazy" THEN 1 ELSE 0, sym |-> 0, flags |-> 0, ordinal |-> 0, addend |-> 0,
           fast |-> 0, bad |-> FALSE, names |-> <<>>, bound |-> <<>>]
  BY <1>1 DEF Binding!Dyld0, Binding!segActualLoadAddress, Binding!segActualEndAddress, Binding!Pointer,
              Binding!NoSymbol
<1>4. (IF kd = "weak" THEN 0 ELSE l[1].start) \in 0..(DyldWord - 1)
  BY <1>2
<1>5. <<>> \in Seq(BEntry) /\ <<>> \in Seq(Nat) /\ (IF kd = "lazy" THEN 1 ELSE 0) \in Nat /\ Len(<<>>) = 0
  OBVIOUS
<1>6. /\ s \in BState /\ ~s.bad /\ s.fast = 0 /\ s.sym = 0 /\ s.ordinal = 0 /\ s.addend = 0
      /\ s.names = <<>> /\ s.bound = <<>> /\ s.type = (IF kd = "lazy" THEN 1 ELSE 0)
  BY <1>2, <1>3, <1>4, <1>5 DEF BState
<1> HIDE DEF s
<1>7. BNames(s) /\ BBinds(s, all, 0) /\ 0 \in 0..Len(all)
  <2>1. Len(all) \in Nat
    OBVIOUS
  <2> QED BY <1>5, <1>6, <2>1 DEF BNames, BBinds
<1>8. s \in BStates(kd, all)
  BY <1>6, <1>7 DEF BStates
<1> QED BY <1>6, <1>7, <1>8 DEF s

(****************************************************************************)
(* The bind and the weak table: their invariant                             *)
(****************************************************************************)

\* The array that the first pass reads.
LEMMA BEndsTranslation ==
    ASSUME NEW kd, NEW l, NEW all, NEW ops, NEW s, BFollows(kd, l, all, ops, s), BBinds(s, all, Len(all))
    PROVE  \E u : BPass(kd, l, all, Append(ops, Binding!Done), 1, 1, u, u, Len(ops) + 1)
<1>1. PICK u : /\ u[0] = Binding!Dyld0(kd, l) /\ u[0] \in BStates(kd, all)
               /\ BTrace(kd, l, all, ops, u, 0, Len(ops)) /\ u[Len(ops)] = s
  BY DEF BFollows
<1> DEFINE m == Len(ops)
           new == Append(ops, Binding!Done)
<1>2. ops \in Seq(BOp) /\ Binding!Done \in BOp /\ Binding!Done.op = "DONE" /\ m \in Nat
  BY BCodes DEF BFollows, Binding!Done, Binding!Op, BOp
<1>3. new \in Seq(BOp) /\ Len(new) = m + 1 /\ new[m + 1] = Binding!Done /\ \A k \in 1..m : new[k] = ops[k]
  BY <1>2
<1>4. BTrace(kd, l, all, ops, u, 0, m) /\ u[m] = s
  BY <1>1
<1> HIDE DEF new, m
<1>5. BTrace(kd, l, all, new, u, 0, m)
  <2> SUFFICES ASSUME NEW k \in (0 + 1)..m
               PROVE  BOk(kd, l, new[k]) /\ u[k] \in BStates(kd, all) /\ u[k] = Binding!Run1(kd, l, u[k - 1], new[k])
    BY DEF BTrace
  <2>1. k \in 1..m
    OBVIOUS
  <2> QED BY <2>1, <1>3, <1>4 DEF BTrace
<1>6. BTrace(kd, l, all, new, u, 0, 0)
  BY DEF BTrace
<1>7. 1 - 1 = 0 /\ (m + 1) - 1 = m /\ m + 1 \in 1..Len(new) /\ 1 \in 1..1 /\ 1 \in Nat \ {0}
  BY <1>2, <1>3
<1>8. BPass(kd, l, all, new, 1, 1, u, u, m + 1)
  BY <1>1, <1>2, <1>3, <1>4, <1>5, <1>6, <1>7 DEF BPass
<1> QED BY <1>8 DEF new, m

\* During the translation nothing is left to be read.
LEMMA BFollowsMeaning ==
    ASSUME kind \in {"bind", "weak", "lazy"}, NEW all, NEW ops, NEW s, BFollows(kind, layout, all, ops, s)
    PROVE  Binding!Meaning(SubSeq(ops, 1, 0) \o SubSeq(ops, 1, Len(ops))) = s
<1>1. PICK u : /\ u[0] = Binding!Dyld0(kind, layout)
               /\ BTrace(kind, layout, all, ops, u, 0, Len(ops)) /\ u[Len(ops)] = s
  BY DEF BFollows
<1>2. ops \in Seq(BOp) /\ Len(ops) \in Nat
  BY DEF BFollows
<1>3. SubSeq(ops, 1, 0) \o SubSeq(ops, 1, Len(ops)) = ops
  BY <1>2
<1>4. \A k \in 1..Len(ops) : ops[k].op # "DONE" /\ u[k] = Binding!Run1(kind, layout, u[k - 1], ops[k])
  <2> TAKE k \in 1..Len(ops)
  <2>1. k \in (0 + 1)..Len(ops)
    OBVIOUS
  <2> QED BY <2>1, <1>1 DEF BTrace, BOk
<1>5. Binding!Meaning(ops) = u[Len(ops)]
  <2> DEFINE m == Len(ops)
  <2>1. /\ m \in Nat /\ m = Len(ops)
        /\ \A k \in 1..m : ops[k].op # "DONE" /\ u[k] = Binding!Run1(kind, layout, u[k - 1], ops[k])
    BY <1>2, <1>4
  <2> HIDE DEF m
  <2>2. Binding!Meaning(ops) = u[m]
    <3>1. m = Len(ops) \/ (m < Len(ops) /\ ops[m + 1].op = "DONE")
      BY <2>1
    <3> QED BY <2>1, <3>1, <1>1, <1>2, BMeaning, Zenon
  <2> QED BY <2>1, <2>2
<1> QED BY <1>1, <1>3, <1>5

\* The phases that these tables go through: "threw" is none of them.
BPhases == {"translate", "pairs", "skips", "immediates", "convert", "dyld", "done"}

\* The opcodes translated so far lead dyld to where encode believes to be.
BTranslating ==
    /\ src = 1 /\ dst = 1
    /\ \E s : /\ BFollows(kind, layout, BAll(info), mid, s)
              /\ BPlace(kind, layout, BAll(info), info, n, BCount(info, n), cur, col, s)

\* During the passes.
BPassing ==
    /\ n = Len(info) /\ (phase = "convert" => src = 1 /\ dst = 1)
    /\ \E w, u, D : BPass(kind, layout, BAll(info), mid, src, dst, w, u, D)

\* dyld has run the opcodes before the next, each of them where it was written.
BReading ==
    \E m, u, off :
        /\ BLoaded(kind, layout, BAll(info), mid, data, m, u, off)
        /\ phase = "dyld" => \E j \in 0..m : p = off[j] + 1 /\ dyld = u[j]
        /\ phase = "done" => dyld = u[m]

\* The inductive invariant of the bind and the weak table.
BInv ==
    /\ kind \in {"bind", "weak"} /\ BTable(kind, layout, info) /\ phase \in BPhases
    /\ phase = "translate" => BTranslating
    /\ phase \in {"pairs", "skips", "immediates", "convert"} => BPassing
    /\ phase \notin {"dyld", "done"} => p = 1 /\ dyld = Binding!Dyld0(kind, layout)
    /\ phase \in {"dyld", "done"} => BReading

\* The invariant of the bind and the weak table holds at first.
LEMMA BInit ==
    ASSUME Binding!Init, kind # "lazy"
    PROVE  BInv
<1>1. kind \in Kinds /\ layout \in BindLayouts
  BY DEF Binding!Init
<1>2. kind \in {"bind", "weak"} /\ kind \in BKinds
  BY <1>1, TablesAssumption DEF BKinds
<1>3. PICK S \in SUBSET Binding!Places(layout) :
         \E ref \in [S -> Refs] :
            Binding!Possible(kind, ref) /\ info = Binding!Sorted(kind, Binding!Entries(kind, ref))
  BY DEF Binding!Init
<1>4. PICK ref \in [S -> Refs] :
         Binding!Possible(kind, ref) /\ info = Binding!Sorted(kind, Binding!Entries(kind, ref))
  BY <1>3
<1>5. WellFormed(layout)
  BY <1>1, BLayout
<1>6. BTable(kind, layout, info)
  BY <1>1, <1>4, <1>5, BSortedTable
<1>7. info \in Seq(BEntry) /\ Len(info) \in Nat /\ 0 \in 0..Len(info)
  BY <1>6 DEF BTable
<1>8. BAll(info) \in Seq(BEntry) /\ BCount(info, 0) = 0
  BY <1>7, BAllFacts
<1> DEFINE s == Binding!Dyld0(kind, layout)
           all == BAll(info)
           u == [k \in 0..0 |-> s]
<1>9. /\ s \in BStates(kind, all) /\ BBinds(s, all, 0) /\ s.sym = 0 /\ s.ordinal = 0 /\ s.addend = 0
      /\ s.names = <<>> /\ s.type = 0
  BY <1>2, <1>5, <1>8, BDyld0
<1>10. s = Binding!Dyld0(kind, layout)
  OBVIOUS
<1> HIDE DEF s, all
<1>11. BFollows(kind, layout, all, <<>>, s)
  <2>1. u[0] = s /\ Len(<<>>) = 0 /\ <<>> \in Seq(BOp)
    OBVIOUS
  <2> HIDE DEF u
  <2>2. BTrace(kind, layout, all, <<>>, u, 0, Len(<<>>))
    BY <2>1 DEF BTrace
  <2> QED BY <2>1, <2>2, <1>9, <1>10, Zenon DEF BFollows
<1>12. /\ n = 0 /\ cur = NoSegment /\ mid = <<>> /\ phase = "translate" /\ src = 1 /\ dst = 1 /\ p = 1
       /\ dyld = Binding!Dyld0(kind, layout)
       /\ col = [ordinal |-> Binding!NoOrdinal, sym |-> 0, type |-> 0, address |-> LdWord - 1, addend |-> 0]
  BY DEF Binding!Init, Binding!NoSegment, NoSegment, Binding!NoSymbol
<1>13. /\ col \in BCol /\ col.ordinal = Binding!NoOrdinal /\ col.sym = 0 /\ col.type = 0 /\ col.address = LdWord - 1
       /\ col.addend = 0
  <2>1. LdWord - 1 \in Int /\ Binding!NoOrdinal \in Int
    BY WordsNest DEF Binding!NoOrdinal
  <2> QED BY <2>1, <1>12 DEF BCol
<1>14. BAt(layout, cur, col.address, s)
  BY <1>12, <1>13 DEF BAt
<1>15. BNamesAt(kind, info, 0, s)
  <2>1. Len(s.names) = 0
    BY <1>9
  <2> QED BY <2>1, <1>9 DEF BNamesAt
<1>16. BPlace(kind, layout, all, info, n, BCount(info, n), cur, col, s)
  BY <1>7, <1>8, <1>9, <1>12, <1>13, <1>14, <1>15 DEF BPlace
<1>17. BTranslating
  BY <1>11, <1>12, <1>16 DEF BTranslating, all
<1> QED BY <1>2, <1>6, <1>12, <1>17 DEF BInv, BPhases

\* A list of at most one element.
LEMMA AtMostOne ==
    ASSUME NEW X, NEW o \in X, NEW x, x = <<>> \/ x = <<o>>
    PROVE  x \in Seq(X)
<1>1. <<>> \in Seq(X) /\ <<o>> \in Seq(X)
  OBVIOUS
<1>2. CASE x = <<>>
  BY <1>1, <1>2, Zenon
<1>3. CASE x = <<o>>
  BY <1>1, <1>3, Zenon
<1> QED BY <1>2, <1>3

\* The opcodes of the library and the symbol, appended together or one after the other.
LEMMA BNamingSeqs ==
    ASSUME NEW kd, NEW co, NEW e \in BEntry, NEW ords, NEW symd, BNaming(kd, co, e, ords, symd), NEW ops \in Seq(BOp)
    PROVE  ops \o (ords \o symd) = (ops \o ords) \o symd
<1>1. e.ordinal \in Int /\ e.flags \in Int /\ e.sym \in Nat
  BY DEF BEntry
<1>2. \A op \in DOMAIN Binding!Codes, a \in Int, b \in Nat : Binding!Op(op, a, b) \in BOp
  BY DEF Binding!Op, BOp
<1>3. Binding!Op(IF e.ordinal <= 0 THEN "SET_DYLIB_SPECIAL_IMM" ELSE "SET_DYLIB_ORDINAL_ULEB", e.ordinal, 0) \in BOp
  <2>1. (IF e.ordinal <= 0 THEN "SET_DYLIB_SPECIAL_IMM" ELSE "SET_DYLIB_ORDINAL_ULEB") \in DOMAIN Binding!Codes
    BY BCodes
  <2>2. 0 \in Nat
    OBVIOUS
  <2> QED BY <2>1, <2>2, <1>1, <1>2
<1>4. Binding!Op("SET_SYMBOL_TRAILING_FLAGS_IMM", e.flags, e.sym) \in BOp
  <2>1. "SET_SYMBOL_TRAILING_FLAGS_IMM" \in DOMAIN Binding!Codes
    BY BCodes
  <2> QED BY <2>1, <1>1, <1>2
<1>5. ords \in Seq(BOp)
  <2> DEFINE o == Binding!Op(IF e.ordinal <= 0 THEN "SET_DYLIB_SPECIAL_IMM" ELSE "SET_DYLIB_ORDINAL_ULEB", e.ordinal, 0)
  <2>1. ords = <<>> \/ ords = <<o>>
    BY DEF BNaming
  <2>2. o \in BOp
    BY <1>3
  <2> HIDE DEF o
  <2> QED BY <2>1, <2>2, AtMostOne
<1>6. symd \in Seq(BOp)
  <2> DEFINE o == Binding!Op("SET_SYMBOL_TRAILING_FLAGS_IMM", e.flags, e.sym)
  <2>1. symd = <<>> \/ symd = <<o>>
    BY DEF BNaming
  <2>2. o \in BOp
    BY <1>4
  <2> HIDE DEF o
  <2> QED BY <2>1, <2>2, AtMostOne
<1> QED BY <1>5, <1>6, ConcatAssoc

\* The moves of the linker are the ones the model makes of two parts.
LEMMA BMovesAre ==
    ASSUME NEW cu, NEW ad, NEW a, NEW l, NEW out, NEW seg, NEW moved,
           out = (a < cu.start \/ a >= cu.end),
           seg = IF ad # a /\ out THEN findSegment(l, a) ELSE cu,
           moved = IF ad = a THEN <<>>
                   ELSE (IF out THEN <<Binding!Op("SET_SEGMENT_AND_OFFSET_ULEB", seg.index, a - seg.start)>> ELSE <<>>)
                        \o (IF ~out THEN <<Binding!Op("ADD_ADDR_ULEB", (a - ad) % LdWord, 0)>> ELSE <<>>)
    PROVE  BMoves(l, cu, ad, a, out, seg, moved)
<1> DEFINE x == Binding!Op("SET_SEGMENT_AND_OFFSET_ULEB", seg.index, a - seg.start)
           y == Binding!Op("ADD_ADDR_ULEB", (a - ad) % LdWord, 0)
<1>1. moved = IF ad = a THEN <<>> ELSE (IF out THEN <<x>> ELSE <<>>) \o (IF ~out THEN <<y>> ELSE <<>>)
  OBVIOUS
<1>2. BMoves(l, cu, ad, a, out, seg, moved) <=>
         /\ out = (a < cu.start \/ a >= cu.end)
         /\ seg = (IF ad # a /\ out THEN findSegment(l, a) ELSE cu)
         /\ moved = IF ad = a THEN <<>> ELSE IF out THEN <<x>> ELSE <<y>>
  BY DEF BMoves
<1> HIDE DEF x, y
<1>3. <<x>> \o <<>> = <<x>> /\ <<>> \o <<y>> = <<y>>
  OBVIOUS
<1>4. moved = IF ad = a THEN <<>> ELSE IF out THEN <<x>> ELSE <<y>>
  BY <1>1, <1>3
<1> QED BY <1>2, <1>4

\* The translation of an entry keeps the invariant, if the sections of segments are apart.
LEMMA BKeepsTranslate ==
    ASSUME BInv, Gaps, Binding!Translate
    PROVE  BInv'
<1>1. /\ phase = "translate" /\ kind # "lazy" /\ n < Len(info) /\ phase' = phase /\ kind' = kind /\ layout' = layout
      /\ info' = info /\ src' = src /\ dst' = dst /\ p' = p /\ dyld' = dyld /\ n' = n + 1
  BY DEF Binding!Translate, Binding!table
<1>2. /\ BTable(kind, layout, info) /\ src = 1 /\ dst = 1 /\ p = 1 /\ dyld = Binding!Dyld0(kind, layout)
      /\ kind \in {"bind", "weak"}
  BY <1>1 DEF BInv, BTranslating
<1> DEFINE all == BAll(info)
           c == BCount(info, n)
           e == info[n + 1]
<1>3. PICK s : BFollows(kind, layout, all, mid, s) /\ BPlace(kind, layout, all, info, n, c, cur, col, s)
  BY <1>1 DEF BInv, BTranslating
<1>4. /\ WellFormed(layout) /\ BGaps(layout) /\ Len(info) \in Nat /\ n \in Nat /\ info \in Seq(BEntry)
      /\ n \in 0..(Len(info) - 1) /\ n + 1 \in 1..Len(info) /\ n + 1 \in 0..Len(info) /\ layout \in BindLayouts
  <2>1. info \in Seq(BEntry) /\ layout \in BindLayouts
    BY <1>2 DEF BTable
  <2>2. Len(info) \in Nat
    BY <2>1
  <2>3. n \in 0..Len(info)
    BY <1>3 DEF BPlace
  <2> QED BY <2>1, <2>2, <2>3, <1>1, BLayout
<1>5. /\ e.type = 0 => BCount(info, n + 1) = c
      /\ e.type # 0 => BCount(info, n + 1) = c + 1 /\ all[c + 1] = e
      /\ BCount(info, n + 1) \in 0..Len(all)
  BY <1>4, BAllFacts
<1>6. BIn(kind, layout, e) /\ e \in BEntry
  BY <1>2, <1>4 DEF BTable
<1>7. BBefore(kind, layout, all, info, n, mid, s, c)
  BY <1>1, <1>2, <1>3, <1>4 DEF BBefore, BPlace
<1> DEFINE ords == Binding!Ordinals(e)
           symd == Binding!Ops(col.sym # e.sym, "SET_SYMBOL_TRAILING_FLAGS_IMM", e.flags, e.sym)
           out == e.address < cur.start \/ e.address >= cur.end
           seg == IF col.address # e.address /\ out THEN findSegment(layout, e.address) ELSE cur
           typed == Binding!Ops(col.type # e.type, "SET_TYPE_IMM", e.type, 0)
           moved == Binding!Moved(e, seg, out)
           added == Binding!Ops(col.addend # e.addend, "SET_ADDEND_SLEB", e.addend, 0)
           over == kind = "weak" /\ e.type = 0
<1>8. /\ over => mid' = mid \o (ords \o symd) /\ col' = [col EXCEPT !.sym = e.sym] /\ cur' = cur
      /\ ~over => /\ mid' = ((((mid \o (ords \o symd)) \o typed) \o moved) \o added)
                             \o <<Binding!Op("DO_BIND", 0, 0)>>
                  /\ col' = BColOf(e) /\ cur' = seg
  BY DEF Binding!Translate, Binding!Override, BColOf, Binding!findSegment, findSegment
<1>9. BNaming(kind, col, e, ords, symd)
  BY DEF BNaming, Binding!Ordinals, Binding!Ops
<1>10. BPointing(layout, cur, col, e, typed, out, seg, moved, added)
  <2>1. moved = IF col.address = e.address THEN <<>>
                ELSE (IF out THEN <<Binding!Op("SET_SEGMENT_AND_OFFSET_ULEB", seg.index, e.address - seg.start)>>
                      ELSE <<>>)
                     \o (IF ~out THEN <<Binding!Op("ADD_ADDR_ULEB", (e.address - col.address) % LdWord, 0)>>
                         ELSE <<>>)
    BY DEF Binding!Moved, Binding!Ops
  <2>2. out = (e.address < cur.start \/ e.address >= cur.end)
        /\ seg = IF col.address # e.address /\ out THEN findSegment(layout, e.address) ELSE cur
    OBVIOUS
  <2>3. typed = (IF col.type # e.type THEN <<Binding!Op("SET_TYPE_IMM", e.type, 0)>> ELSE <<>>)
        /\ added = (IF col.addend # e.addend THEN <<Binding!Op("SET_ADDEND_SLEB", e.addend, 0)>> ELSE <<>>)
    BY DEF Binding!Ops
  <2> HIDE DEF moved, out, seg, typed, added
  <2> DEFINE a == e.address
             ad == col.address
  <2>4. BMoves(layout, cur, ad, a, out, seg, moved)
    <3>1. moved = IF ad = a THEN <<>>
                  ELSE (IF out THEN <<Binding!Op("SET_SEGMENT_AND_OFFSET_ULEB", seg.index, a - seg.start)>> ELSE <<>>)
                       \o (IF ~out THEN <<Binding!Op("ADD_ADDR_ULEB", (a - ad) % LdWord, 0)>> ELSE <<>>)
      BY <2>1
    <3>2. out = (a < cur.start \/ a >= cur.end) /\ seg = IF ad # a /\ out THEN findSegment(layout, a) ELSE cur
      BY <2>2
    <3> HIDE DEF a, ad
    <3> QED BY <3>1, <3>2, BMovesAre
  <2> QED BY <2>3, <2>4 DEF BPointing
<1> HIDE DEF all, c, e, ords, symd, out, seg, typed, moved, added
<1>11. mid \o (ords \o symd) = (mid \o ords) \o symd
  <2>1. mid \in Seq(BOp)
    BY <1>3 DEF BFollows
  <2> QED BY <2>1, <1>6, <1>9, BNamingSeqs
<1>12. CASE over
  <2>1. BBefore("weak", layout, all, info, n, mid, s, c) /\ BPlace("weak", layout, all, info, n, c, cur, col, s)
        /\ BNaming("weak", col, e, ords, symd) /\ e = info[n + 1]
    BY <1>3, <1>7, <1>9, <1>12 DEF e
  <2>2. PICK r : /\ BFollows("weak", layout, all, (mid \o ords) \o symd, r)
                 /\ BPlace("weak", layout, all, info, n + 1, c, cur, [col EXCEPT !.sym = e.sym], r)
    BY <2>1, BOverrideStep
  <2>3. BFollows(kind, layout, all, mid', r) /\ BPlace(kind, layout, all, info, n', BCount(info, n'), cur', col', r)
    BY <2>2, <1>1, <1>5, <1>8, <1>11, <1>12
  <2>4. BTranslating'
    BY <2>3, <1>1, <1>2 DEF BTranslating, all
  <2> QED BY <2>4, <1>1, <1>2 DEF BInv, BPhases
<1>13. CASE ~over
  <2>1. e.type # 0 /\ e = info[n + 1]
    BY <1>2, <1>6, <1>13 DEF BIn, e
  <2>2. all[c + 1] = e /\ c + 1 \in 0..Len(all) /\ BCount(info, n + 1) = c + 1
    BY <2>1, <1>5
  <2>3. \E r : /\ BFollows(kind, layout, all,
                           (((((mid \o ords) \o symd) \o typed) \o moved) \o added)
                           \o <<Binding!Op("DO_BIND", 0, 0)>>, r)
               /\ BPlace(kind, layout, all, info, n + 1, c + 1, seg, BColOf(e), r)
    <3>1. /\ BBefore(kind, layout, all, info, n, mid, s, c) /\ BGaps(layout)
          /\ BPlace(kind, layout, all, info, n, c, cur, col, s)
          /\ BNaming(kind, col, e, ords, symd)
          /\ BPointing(layout, cur, col, e, typed, out, seg, moved, added)
      BY <1>3, <1>4, <1>7, <1>9, <1>10
    <3> HIDE DEF over
    <3>2. e = info[n + 1] /\ e.type # 0 /\ all[c + 1] = e /\ c + 1 \in 0..Len(all)
      BY <2>1, <2>2
    <3> QED BY <3>1, <3>2, BPointerStep, ZenonT(60)
  <2>4. PICK r : /\ BFollows(kind, layout, all,
                             (((((mid \o ords) \o symd) \o typed) \o moved) \o added)
                             \o <<Binding!Op("DO_BIND", 0, 0)>>, r)
                 /\ BPlace(kind, layout, all, info, n + 1, c + 1, seg, BColOf(e), r)
    BY <2>3
  <2>5. BFollows(kind, layout, all, mid', r) /\ BPlace(kind, layout, all, info, n', BCount(info, n'), cur', col', r)
    BY <2>2, <2>4, <1>1, <1>8, <1>11, <1>13
  <2>6. BTranslating'
    BY <2>5, <1>1, <1>2 DEF BTranslating, all
  <2> QED BY <2>6, <1>1, <1>2 DEF BInv, BPhases
<1> QED BY <1>12, <1>13

\* The DONE after the last entry keeps the invariant.
LEMMA BKeepsEndTranslate ==
    ASSUME BInv, Binding!EndTranslate
    PROVE  BInv'
<1>1. /\ phase = "translate" /\ kind # "lazy" /\ n = Len(info) /\ phase' = "pairs" /\ kind' = kind
      /\ layout' = layout /\ info' = info /\ mid' = Append(mid, Binding!Done) /\ n' = n
      /\ src' = src /\ dst' = dst /\ p' = p /\ dyld' = dyld
  BY DEF Binding!EndTranslate, Binding!table
<1>2. /\ BTable(kind, layout, info) /\ src = 1 /\ dst = 1 /\ p = 1 /\ dyld = Binding!Dyld0(kind, layout)
      /\ kind \in {"bind", "weak"}
  BY <1>1 DEF BInv, BTranslating
<1>3. PICK s : /\ BFollows(kind, layout, BAll(info), mid, s)
               /\ BPlace(kind, layout, BAll(info), info, n, BCount(info, n), cur, col, s)
  BY <1>1 DEF BInv, BTranslating
<1>4. info \in Seq(BEntry)
  BY <1>2 DEF BTable
<1>5. BCount(info, n) = Len(BAll(info))
  BY <1>1, <1>4, BAllFacts
<1>6. BBinds(s, BAll(info), Len(BAll(info)))
  BY <1>3, <1>5 DEF BPlace
<1>7. \E u : BPass(kind, layout, BAll(info), mid', 1, 1, u, u, Len(mid) + 1)
  BY <1>1, <1>3, <1>6, BEndsTranslation
<1>8. BPassing'
  BY <1>1, <1>2, <1>7 DEF BPassing
<1> QED BY <1>1, <1>2, <1>8 DEF BInv, BPhases

\* The step of each of the passes keeps the meaning.
LEMMA BStepOkOf ==
    ASSUME kind \in {"bind", "weak"}, NEW all, NEW u, NEW D, BReads(all, u, D), phase \in DOMAIN Binding!Passes
    PROVE  BStepOk(CASE phase = "pairs" -> Binding!Pairs [] phase = "skips" -> Binding!Skips
                     [] phase = "immediates" -> Binding!Immediates, u, D)
<1> DEFINE r == CASE phase = "pairs" -> Binding!Pairs [] phase = "skips" -> Binding!Skips
                  [] phase = "immediates" -> Binding!Immediates
<1>1. phase \in {"pairs", "skips", "immediates"}
  BY DEF Binding!Passes
<1>2. CASE phase = "pairs"
  <2>1. r = Binding!Pairs
    BY <1>2
  <2> HIDE DEF r
  <2>2. BStepOk(r, u, D)
    BY <2>1, BPairsStep
  <2> QED BY <2>2 DEF r
<1>3. CASE phase = "skips"
  <2>1. r = Binding!Skips
    BY <1>3
  <2> HIDE DEF r
  <2>2. BStepOk(r, u, D)
    BY <2>1, BSkipsStep
  <2> QED BY <2>2 DEF r
<1>4. CASE phase = "immediates"
  <2>1. r = Binding!Immediates
    BY <1>4
  <2> HIDE DEF r
  <2>2. BStepOk(r, u, D)
    BY <2>1, BImmediatesStep
  <2> QED BY <2>2 DEF r
<1> QED BY <1>1, <1>2, <1>3, <1>4

\* A step of a pass keeps the invariant.
LEMMA BKeepsOptimize ==
    ASSUME BInv, Binding!Optimize
    PROVE  BInv'
<1> DEFINE r == CASE phase = "pairs" -> Binding!Pairs [] phase = "skips" -> Binding!Skips
                  [] phase = "immediates" -> Binding!Immediates
<1>1. /\ phase \in DOMAIN Binding!Passes /\ mid[src].op # "DONE" /\ kind' = kind
      /\ mid' = [mid EXCEPT ![dst] = r.put] /\ src' = src + r.take /\ dst' = dst + 1
      /\ phase' = phase /\ layout' = layout /\ info' = info /\ n' = n /\ p' = p /\ dyld' = dyld
  BY DEF Binding!Optimize, Binding!table
<1>2. phase \in {"pairs", "skips", "immediates"} /\ kind \in {"bind", "weak"}
  BY <1>1 DEF Binding!Passes, BInv
<1>3. BTable(kind, layout, info) /\ n = Len(info) /\ p = 1 /\ dyld = Binding!Dyld0(kind, layout)
  BY <1>2 DEF BInv, BPassing
<1> DEFINE all == BAll(info)
<1>4. PICK w, u, D : BPass(kind, layout, all, mid, src, dst, w, u, D)
  BY <1>2 DEF BInv, BPassing
<1> HIDE DEF all
<1>5. BReads(all, u, D)
  BY <1>1, <1>4, BPassReads
<1>6. BStepOk(r, u, D)
  BY <1>1, <1>2, <1>5, BStepOkOf
<1> HIDE DEF r
<1> DEFINE take == r.take
           put == r.put
<1>7. /\ take \in Nat \ {0} /\ src + take <= D /\ BOk(kind, layout, put)
      /\ Binding!Run1(kind, layout, u[src - 1], put) = u[src + take - 1]
  BY <1>6 DEF BStepOk
<1>8. mid' = [mid EXCEPT ![dst] = put] /\ src' = src + take
  BY <1>1
<1> HIDE DEF take, put
<1>9. PICK v : BPass(kind, layout, all, [mid EXCEPT ![dst] = put], src + take, dst + 1, v, u, D)
  BY <1>4, <1>7, BPassOptimize
<1>10. BPass(kind', layout', BAll(info'), mid', src', dst', v, u, D)
  BY <1>1, <1>8, <1>9 DEF all
<1>11. BPassing'
  BY <1>1, <1>2, <1>3, <1>10 DEF BPassing
<1> QED BY <1>1, <1>2, <1>3, <1>11 DEF BInv, BPhases

\* The end of a pass keeps the invariant.
LEMMA BKeepsEndPass ==
    ASSUME BInv, Binding!EndPass
    PROVE  BInv'
<1>1. /\ phase \in DOMAIN Binding!Passes /\ mid[src].op = "DONE" /\ kind' = kind
      /\ mid' = [mid EXCEPT ![dst].op = "DONE"] /\ src' = 1 /\ dst' = 1
      /\ phase' = Binding!Passes[phase]
      /\ layout' = layout /\ info' = info /\ n' = n /\ p' = p /\ dyld' = dyld
  BY DEF Binding!EndPass, Binding!table
<1>2. /\ phase \in {"pairs", "skips", "immediates"} /\ phase' \in {"skips", "immediates", "convert"}
      /\ kind \in {"bind", "weak"}
  BY <1>1 DEF Binding!Passes, BInv
<1>3. BTable(kind, layout, info) /\ n = Len(info) /\ p = 1 /\ dyld = Binding!Dyld0(kind, layout)
  BY <1>2 DEF BInv, BPassing
<1>4. PICK w, u, D : BPass(kind, layout, BAll(info), mid, src, dst, w, u, D)
  BY <1>2 DEF BInv, BPassing
<1>5. BPass(kind, layout, BAll(info), mid', 1, 1, w, w, dst)
  BY <1>1, <1>4, BPassEnd
<1>6. BPassing'
  BY <1>1, <1>2, <1>3, <1>5 DEF BPassing
<1> QED BY <1>1, <1>2, <1>3, <1>6 DEF BInv, BPhases

\* Writing the bytes keeps the invariant, if the immediates fit.
LEMMA BKeepsConvert ==
    ASSUME BInv, FewSegments, Binding!Convert
    PROVE  BInv'
<1>1. /\ phase = "convert" /\ phase' = "dyld" /\ kind' = kind
      /\ layout' = layout /\ info' = info /\ p' = p /\ dyld' = dyld /\ mid' = mid
  BY DEF Binding!Convert, Binding!linker, Binding!table
<1>2. /\ BTable(kind, layout, info) /\ p = 1 /\ dyld = Binding!Dyld0(kind, layout) /\ src = 1 /\ dst = 1
      /\ kind \in {"bind", "weak"}
  BY <1>1 DEF BInv, BPassing
<1> DEFINE all == BAll(info)
<1>3. PICK w, u, D : BPass(kind, layout, all, mid, 1, 1, w, u, D)
  BY <1>1, <1>2 DEF BInv, BPassing
<1>4. Binding!First({k \in 1..Len(mid) : mid[k].op = "DONE"}) = D
  BY <1>3, BFirstDone
<1> DEFINE ss == [k \in 1..(D - 1) |-> Binding!Bytes(mid[k])]
           done == IF kind = "weak" THEN Binding!Bytes(Binding!Done) ELSE <<>>
<1>5. PICK padding \in {<<>>, << 0 >>} : data' = Binding!Joined(ss) \o done \o padding
  BY <1>4 DEF Binding!Convert
<1>6. layout \in BindLayouts
  BY <1>2 DEF BTable
<1>7. Len(layout) \in Nat /\ Len(layout) <= Imm + 1
  BY <1>6, BLayout
<1>8. done \in {<<>>, Binding!Bytes(Binding!Done)}
  OBVIOUS
<1> HIDE DEF done, all
<1>9. done \in Seq(Int) /\ padding \in Seq(Int) /\ BEnding(done \o padding)
  BY <1>8, BEndings
<1>11. /\ Binding!Joined(ss) \in Seq(Int)
       /\ \E off : BLoaded(kind, layout, all, mid, Binding!Joined(ss) \o (done \o padding), D - 1, u, off)
  BY <1>3, <1>7, <1>9, BConverts
<1>10. PICK off : BLoaded(kind, layout, all, mid, Binding!Joined(ss) \o (done \o padding), D - 1, u, off)
  BY <1>11
<1> HIDE DEF ss
<1>12. data' = Binding!Joined(ss) \o (done \o padding)
  <2> DEFINE f == Binding!Joined(ss)
  <2>1. f \in Seq(Int) /\ data' = (f \o done) \o padding
    BY <1>5, <1>11
  <2> HIDE DEF f
  <2>2. (f \o done) \o padding = f \o (done \o padding)
    <3>1. f \in Seq(Int) /\ done \in Seq(Int) /\ padding \in Seq(Int)
      BY <2>1, <1>9
    <3> QED BY <3>1, ConcatInt, Zenon
  <2> QED BY <2>1, <2>2 DEF f
<1>13. BLoaded(kind, layout, all, mid, data', D - 1, u, off)
  BY <1>10, <1>12
<1>14. off[0] = 0 /\ u[0] = Binding!Dyld0(kind, layout) /\ 0 \in 0..(D - 1)
  BY <1>13 DEF BLoaded
<1>15. p = off[0] + 1 /\ dyld = u[0]
  BY <1>2, <1>14
<1>16. \E m, v, of : /\ BLoaded(kind, layout, all, mid, data', m, v, of)
                     /\ \E j \in 0..m : p = of[j] + 1 /\ dyld = v[j]
  BY <1>13, <1>14, <1>15
<1>17. BReading'
  BY <1>1, <1>16 DEF BReading, all
<1> QED BY <1>1, <1>2, <1>17 DEF BInv, BPhases

\* An opcode that dyld reads and runs keeps the invariant.
LEMMA BKeepsBind ==
    ASSUME BInv, FewSegments, Binding!Bind
    PROVE  BInv'
<1>1. /\ phase = "dyld" /\ p <= Len(data) /\ kind' = kind
      /\ layout' = layout /\ info' = info /\ mid' = mid /\ data' = data
  BY DEF Binding!Bind, Binding!linker, Binding!table
<1>2. BTable(kind, layout, info) /\ kind \in {"bind", "weak"}
  BY DEF BInv
<1> DEFINE all == BAll(info)
<1>3. PICK m, u, off : /\ BLoaded(kind, layout, all, mid, data, m, u, off)
                       /\ \E j \in 0..m : p = off[j] + 1 /\ dyld = u[j]
  BY <1>1 DEF BInv, BReading
<1>4. PICK j \in 0..m : p = off[j] + 1 /\ dyld = u[j]
  BY <1>3
<1>5. Len(layout) \in Nat /\ Len(layout) <= Imm + 1
  <2>1. layout \in BindLayouts
    BY <1>2 DEF BTable
  <2> QED BY <2>1, BLayout
<1> HIDE DEF all
<1>6. m \in Nat
  BY <1>3 DEF BLoaded
<1>7. u[j] \in BStates(kind, all) /\ off[j] \in Nat /\ Len(data) \in Nat
  BY <1>3, <1>5, BLoadedReads
<1>8. CASE j < m
  <2>1. /\ Binding!Readable(p) /\ Binding!OpAt(p) = mid[j + 1]
        /\ BOk(kind, layout, mid[j + 1])
        /\ Binding!Run1(kind, layout, u[j], mid[j + 1]) = u[j + 1] /\ u[j + 1] \in BStates(kind, all)
        /\ p + 1 + Binding!Cells(mid[j + 1].op) = off[j + 1] + 1
    BY <1>3, <1>4, <1>5, <1>8, BLoadedReads
  <2>2. mid[j + 1].op # "DONE" /\ ~u[j + 1].bad
    BY <2>1 DEF BOk, BStates
  <2>3. dyld' = u[j + 1] /\ p' = off[j + 1] + 1 /\ phase' = "dyld"
    BY <1>1, <1>4, <2>1, <2>2 DEF Binding!Bind
  <2>4. j + 1 \in 0..m
    BY <1>6, <1>8
  <2>5. BReading'
    BY <1>1, <1>3, <2>3, <2>4 DEF BReading, all
  <2> QED BY <1>1, <1>2, <2>3, <2>5 DEF BInv, BPhases
<1>9. CASE j = m
  <2>1. data[p] = 0 /\ p \in Nat
    BY <1>1, <1>3, <1>4, <1>7, <1>9 DEF BLoaded
  <2>2. Binding!Readable(p) /\ Binding!OpAt(p).op = "DONE"
    BY <1>1, <1>7, <2>1, BDecodesPadding
  <2>3. Binding!Run1(kind, layout, dyld, Binding!OpAt(p)) = dyld
    BY <1>2, <2>2, BRunDone
  <2>4. ~dyld.bad
    BY <1>4, <1>7 DEF BStates
  <2>5. dyld' = dyld /\ phase' = "done"
    BY <1>2, <2>2, <2>3, <2>4 DEF Binding!Bind
  <2>6. BReading'
    BY <1>1, <1>3, <1>4, <1>9, <2>5 DEF BReading, all
  <2> QED BY <1>1, <1>2, <2>5, <2>6 DEF BInv, BPhases
<1> QED BY <1>6, <1>8, <1>9

\* When dyld comes to the end it has bound everything.
LEMMA BKeepsEndOfData ==
    ASSUME BInv, FewSegments, Binding!EndOfData
    PROVE  BInv'
<1>1. /\ phase = "dyld" /\ p > Len(data) /\ phase' = "done" /\ kind' = kind
      /\ layout' = layout /\ info' = info /\ mid' = mid /\ data' = data /\ p' = p /\ dyld' = dyld
  BY DEF Binding!EndOfData, Binding!linker, Binding!table
<1>2. BTable(kind, layout, info) /\ kind \in {"bind", "weak"}
  BY DEF BInv
<1>3. PICK m, u, off : /\ BLoaded(kind, layout, BAll(info), mid, data, m, u, off)
                       /\ \E j \in 0..m : p = off[j] + 1 /\ dyld = u[j]
  BY <1>1 DEF BInv, BReading
<1>4. PICK j \in 0..m : p = off[j] + 1 /\ dyld = u[j]
  BY <1>3
<1>5. Len(layout) \in Nat /\ Len(layout) <= Imm + 1
  <2>1. layout \in BindLayouts
    BY <1>2 DEF BTable
  <2> QED BY <2>1, BLayout
<1>6. m \in Nat
  BY <1>3 DEF BLoaded
<1>7. off[j] \in Nat /\ Len(data) \in Nat /\ (j < m => off[j] + 1 <= Len(data))
  BY <1>3, <1>5, BLoadedReads
<1>8. j = m
  BY <1>1, <1>4, <1>6, <1>7
<1>9. BReading'
  BY <1>1, <1>3, <1>4, <1>8 DEF BReading
<1> QED BY <1>1, <1>2, <1>9 DEF BInv, BPhases

\* The invariant of the bind and the weak table is inductive.
LEMMA BStep ==
    ASSUME BInv, FewSegments, Gaps, Binding!Next
    PROVE  BInv'
<1>1. kind # "lazy"
  BY DEF BInv
<1>2. ~Binding!LazyEntry /\ ~Binding!EndLazy /\ ~Binding!FastLazy
  BY <1>1 DEF Binding!LazyEntry, Binding!EndLazy, Binding!FastLazy
<1>3. CASE Binding!Stopped
  BY <1>3 DEF Binding!Stopped, Binding!vars, BInv, BTranslating, BPassing, BReading
<1> QED BY <1>2, <1>3, BKeepsTranslate, BKeepsEndTranslate, BKeepsOptimize, BKeepsEndPass, BKeepsConvert,
           BKeepsBind, BKeepsEndOfData DEF Binding!Next

\* Two lists with the same columns.
LEMMA BSameTuples ==
    ASSUME NEW x \in Seq(BEntry), NEW y \in Seq(BEntry), Len(x) = Len(y),
           \A k \in 1..Len(y) : Binding!Tuple(x[k]) = Binding!Tuple(y[k])
    PROVE  Binding!Tuples(x) = Binding!Tuples(y)
BY DEF Binding!Tuples

\* The pointers to bind are entries.
LEMMA BToBindSeq ==
    ASSUME NEW inf \in Seq(BEntry), NEW i \in 0..Len(inf)
    PROVE  Binding!ToBind(SubSeq(inf, 1, i)) \in Seq(BEntry)
<1>1. PICK t : BChosen(inf, t)
  BY BChosenExists
<1>2. Binding!ToBind(SubSeq(inf, 1, i)) = t[i] /\ t[i] \in Seq(BEntry)
  BY <1>1, BChosenIs, BChosenGrows
<1> QED BY <1>2

\* What dyld has bound has the columns of the first entries to bind.
LEMMA BTuplesOf ==
    ASSUME NEW s \in BState, NEW inf \in Seq(BEntry), NEW i \in 0..Len(inf), BBinds(s, BAll(inf), BCount(inf, i))
    PROVE  Binding!Tuples(s.bound) = Binding!Tuples(Binding!ToBind(SubSeq(inf, 1, i)))
<1> DEFINE x == s.bound
           y == Binding!ToBind(SubSeq(inf, 1, i))
           c == BCount(inf, i)
<1>1. x \in Seq(BEntry)
  BY DEF BState
<1>2. y \in Seq(BEntry)
  BY BToBindSeq
<1>3. Len(y) = c /\ \A k \in 1..c : y[k] = BAll(inf)[k]
  BY BAllFacts
<1>4. Len(x) = c /\ \A k \in 1..c : Binding!Tuple(x[k]) = Binding!Tuple(BAll(inf)[k])
  BY DEF BBinds
<1> HIDE DEF x, y, c
<1>5. Len(x) = Len(y) /\ \A k \in 1..Len(y) : Binding!Tuple(x[k]) = Binding!Tuple(y[k])
  BY <1>3, <1>4
<1>6. Binding!Tuples(x) = Binding!Tuples(y)
  BY <1>1, <1>2, <1>5, BSameTuples
<1> QED BY <1>6 DEF x, y

\* A list that agrees with the beginning of another is how it begins.
LEMMA PrefixIs ==
    ASSUME NEW X, NEW x \in Seq(X), NEW y \in Seq(X), Len(x) <= Len(y), \A k \in 1..Len(x) : x[k] = y[k]
    PROVE  Binding!Begins(x, y)
<1>1. SubSeq(x, 1, Len(x)) = x
  OBVIOUS
<1>2. SubSeq(y, 1, Len(x)) \in Seq(X) /\ Len(SubSeq(y, 1, Len(x))) = Len(x)
  OBVIOUS
<1>3. \A k \in 1..Len(x) : SubSeq(y, 1, Len(x))[k] = x[k]
  OBVIOUS
<1>4. SubSeq(y, 1, Len(x)) = x
  <2> DEFINE z == SubSeq(y, 1, Len(x))
  <2>1. z \in Seq(X) /\ Len(z) = Len(x) /\ \A k \in 1..Len(x) : z[k] = x[k]
    BY <1>2, <1>3
  <2> HIDE DEF z
  <2>2. z = x
    BY <2>1
  <2> QED BY <2>2 DEF z
<1> QED BY <1>1, <1>4 DEF Binding!Begins

\* The columns of an entry.
BColumns == {Binding!Tuple(e) : e \in BEntry}

\* What dyld has bound is a prefix of the pointers to bind.
LEMMA BTuplesPrefix ==
    ASSUME NEW s \in BState, NEW all \in Seq(BEntry), NEW c \in 0..Len(all), BBinds(s, all, c)
    PROVE  /\ Binding!Begins(Binding!Tuples(s.bound), Binding!Tuples(all))
           /\ c = Len(all) => Binding!Tuples(s.bound) = Binding!Tuples(all)
<1> DEFINE x == s.bound
           tx == Binding!Tuples(x)
           ta == Binding!Tuples(all)
<1>1. x \in Seq(BEntry)
  BY DEF BState
<1>2. Len(x) = c /\ \A k \in 1..c : Binding!Tuple(x[k]) = Binding!Tuple(all[k])
  BY DEF BBinds
<1> HIDE DEF x
<1>3. Len(tx) = c /\ Len(ta) = Len(all) /\ \A k \in 1..c : tx[k] = ta[k]
  <2>1. tx = [k \in 1..Len(x) |-> Binding!Tuple(x[k])] /\ ta = [k \in 1..Len(all) |-> Binding!Tuple(all[k])]
    BY DEF Binding!Tuples
  <2>2. Len(tx) = Len(x) /\ Len(ta) = Len(all)
    BY <1>1, <2>1
  <2>3. \A k \in 1..c : tx[k] = Binding!Tuple(x[k]) /\ ta[k] = Binding!Tuple(all[k])
    BY <1>1, <1>2, <2>1
  <2> QED BY <1>2, <2>2, <2>3
<1>4. tx \in Seq(BColumns) /\ ta \in Seq(BColumns)
  <2>1. \A k \in 1..Len(x) : Binding!Tuple(x[k]) \in BColumns
    BY <1>1 DEF BColumns
  <2>2. \A k \in 1..Len(all) : Binding!Tuple(all[k]) \in BColumns
    BY DEF BColumns
  <2> QED BY <1>1, <2>1, <2>2 DEF Binding!Tuples
<1> HIDE DEF tx, ta
<1>5. c = Len(all) => tx = ta
  BY <1>3, <1>4
<1>6. Binding!Begins(tx, ta)
  BY <1>3, <1>4, PrefixIs
<1> QED BY <1>5, <1>6 DEF tx, ta, x

\* What dyld has done in every state of the invariant.
LEMMA BDyldIs ==
    ASSUME BInv, FewSegments
    PROVE  /\ dyld \in BStates(kind, BAll(info))
           /\ phase = "done" => BBinds(dyld, BAll(info), Len(BAll(info)))
<1>1. BTable(kind, layout, info) /\ phase \in BPhases /\ kind \in {"bind", "weak"}
  BY DEF BInv
<1>2. layout \in BindLayouts /\ info \in Seq(BEntry)
  BY <1>1 DEF BTable
<1>3. WellFormed(layout) /\ Len(layout) \in Nat /\ Len(layout) <= Imm + 1 /\ kind \in BKinds
  BY <1>1, <1>2, BLayout DEF BKinds
<1>4. BAll(info) \in Seq(BEntry)
  BY <1>2, BAllFacts
<1> DEFINE all == BAll(info)
<1>5. CASE phase \notin {"dyld", "done"}
  <2>1. dyld = Binding!Dyld0(kind, layout)
    BY <1>5 DEF BInv
  <2> HIDE DEF all
  <2>2. all \in Seq(BEntry)
    BY <1>4 DEF all
  <2>3. Binding!Dyld0(kind, layout) \in BStates(kind, all)
    BY <1>3, <2>2, BDyld0
  <2> QED BY <1>5, <2>1, <2>3 DEF all
<1>6. CASE phase \in {"dyld", "done"}
  <2>1. PICK m, u, off : /\ BLoaded(kind, layout, all, mid, data, m, u, off)
                         /\ phase = "dyld" => \E j \in 0..m : dyld = u[j]
                         /\ phase = "done" => dyld = u[m]
    BY <1>6 DEF BInv, BReading
  <2> HIDE DEF all
  <2>2. \A j \in 0..m : u[j] \in BStates(kind, all)
    BY <2>1, <1>3, BLoadedReads
  <2>3. m \in 0..m /\ BBinds(u[m], all, Len(all))
    BY <2>1 DEF BLoaded
  <2> QED BY <2>1, <2>2, <2>3, <1>6 DEF all
<1> QED BY <1>5, <1>6

\* The invariant of the bind and the weak table implies their properties.
LEMMA BImplies ==
    ASSUME BInv, FewSegments
    PROVE  Binding!PassesKeepMeaning /\ Binding!DyldBindsTable /\ Binding!WeakNamesSorted
<1>1. BTable(kind, layout, info) /\ phase \in BPhases /\ kind \in {"bind", "weak", "lazy"}
  BY DEF BInv
<1>2. layout \in BindLayouts /\ info \in Seq(BEntry) /\ Len(info) \in Nat
  BY <1>1 DEF BTable
<1>3. BAll(info) \in Seq(BEntry)
  BY <1>2, BAllFacts
<1>4. Binding!PassesKeepMeaning
  <2> DEFINE m == Binding!Meaning(SubSeq(mid, 1, dst - 1) \o SubSeq(mid, src, Len(mid)))
  <2>1. CASE phase = "translate"
    <3>1. src = 1 /\ dst = 1 /\ dst - 1 = 0
      BY <2>1 DEF BInv, BTranslating
    <3>2. PICK s : /\ BFollows(kind, layout, BAll(info), mid, s)
                   /\ BPlace(kind, layout, BAll(info), info, n, BCount(info, n), cur, col, s)
      BY <2>1 DEF BInv, BTranslating
    <3>3. m = s
      BY <1>1, <3>1, <3>2, BFollowsMeaning
    <3>4. ~s.bad /\ s \in BState /\ n \in 0..Len(info) /\ BBinds(s, BAll(info), BCount(info, n))
      BY <3>2 DEF BPlace, BFollows, BStates
    <3>5. Binding!Tuples(s.bound) = Binding!Tuples(Binding!ToBind(SubSeq(info, 1, n)))
      BY <1>2, <3>4, BTuplesOf
    <3> QED BY <3>3, <3>4, <3>5, Zenon DEF Binding!PassesKeepMeaning
  <2>2. CASE phase \in {"pairs", "skips", "immediates", "convert"}
    <3>1. n = Len(info)
      BY <2>2 DEF BInv, BPassing
    <3>2. PICK w, u, D : BPass(kind, layout, BAll(info), mid, src, dst, w, u, D)
      BY <2>2 DEF BInv, BPassing
    <3>3. m = u[D - 1]
      BY <1>1, <3>2, BPassMeaning
    <3>4. BBinds(u[D - 1], BAll(info), Len(BAll(info))) /\ D - 1 \in (src - 1)..(D - 1)
      BY <3>2 DEF BPass
    <3>5. u[D - 1] \in BStates(kind, BAll(info))
      BY <3>2, <3>4, BPassStates
    <3>6. ~u[D - 1].bad /\ u[D - 1] \in BState
      BY <3>5 DEF BStates
    <3>7. n \in 0..Len(info) /\ BCount(info, n) = Len(BAll(info))
      BY <1>2, <3>1, BAllFacts
    <3>8. BBinds(u[D - 1], BAll(info), BCount(info, n))
      BY <3>4, <3>7
    <3>9. Binding!Tuples(u[D - 1].bound) = Binding!Tuples(Binding!ToBind(SubSeq(info, 1, n)))
      BY <1>2, <3>6, <3>7, <3>8, BTuplesOf
    <3> QED BY <3>3, <3>6, <3>9, Zenon DEF Binding!PassesKeepMeaning
  <2>3. CASE phase \in {"dyld", "done"}
    BY <2>3 DEF Binding!PassesKeepMeaning, Binding!Passes
  <2> QED BY <2>1, <2>2, <2>3, <1>1 DEF BPhases
<1>5. /\ dyld \in BStates(kind, BAll(info))
      /\ phase = "done" => BBinds(dyld, BAll(info), Len(BAll(info)))
  BY BDyldIs
<1>6. dyld \in BState /\ dyld.fast = 0 /\ (kind = "weak" => BNames(dyld))
  BY <1>5 DEF BStates
<1>7. PICK c \in 0..Len(BAll(info)) : BBinds(dyld, BAll(info), c)
  BY <1>5 DEF BStates
<1>8. Binding!DyldBindsTable
  <2>1. Binding!Begins(Binding!Tuples(dyld.bound), Binding!Tuples(Binding!ToBind(info)))
    BY <1>3, <1>6, <1>7, BTuplesPrefix DEF BAll
  <2>2. phase = "done" => Binding!Tuples(dyld.bound) = Binding!Tuples(Binding!ToBind(info))
    <3>1. Len(BAll(info)) \in 0..Len(BAll(info))
      BY <1>3
    <3> QED BY <3>1, <1>3, <1>5, <1>6, BTuplesPrefix DEF BAll
  <2>3. phase # "threw"
    BY <1>1 DEF BPhases
  <2> QED BY <1>6, <2>1, <2>2, <2>3, Zenon DEF Binding!DyldBindsTable
<1>9. Binding!WeakNamesSorted
  BY <1>6 DEF Binding!WeakNamesSorted, BNames, Binding!NonWeakDefinition
<1> QED BY <1>4, <1>8, <1>9

\* The kind of the table never changes.
LEMMA BKeepsKind ==
    ASSUME Binding!Next
    PROVE  kind' = kind
BY DEF Binding!Next, Binding!Translate, Binding!EndTranslate, Binding!Optimize, Binding!EndPass, Binding!Convert,
       Binding!LazyEntry, Binding!EndLazy, Binding!FastLazy, Binding!Bind, Binding!EndOfData, Binding!Stopped,
       Binding!table, Binding!vars

(****************************************************************************)
(* The lazy table: one entry                                                *)
(****************************************************************************)

\* The opcodes of an entry of the lazy table, one at a time.
LOp(l, e, j) ==
    CASE j = 1 -> Binding!Op("SET_SEGMENT_AND_OFFSET_ULEB", findSegment(l, e.address).index,
                             e.address - findSegment(l, e.address).start)
      [] j = 2 -> (IF e.ordinal <= 0 THEN Binding!Op("SET_DYLIB_SPECIAL_IMM", e.ordinal, 0)
                   ELSE IF e.ordinal <= Imm - 1 THEN Binding!Op("SET_DYLIB_ORDINAL_IMM", e.ordinal, 0)
                   ELSE Binding!Op("SET_DYLIB_ORDINAL_ULEB", e.ordinal, 0))
      [] j = 3 -> Binding!Op("SET_SYMBOL_TRAILING_FLAGS_IMM", e.flags, e.sym)
      [] j = 4 -> Binding!Op("DO_BIND", 0, 0)
      [] j = 5 -> Binding!Done

\* What dyld knows after j of them.
LAt(l, e, j, s) ==
    /\ j \in 1..3 => \E x : Within(l, x, e.address) /\ s.address = e.address /\ s.segEnd = l[x].limit
    /\ j \in 2..3 => s.ordinal = e.ordinal
    /\ j = 3 => s.sym = e.sym

\* A state of eachLazyBind or doBindFastLazySymbol.
LState(s) == s \in BState /\ ~s.bad /\ s.type = 1 /\ s.addend = 0

\* The first opcode of an entry sets segment and offset.
LEMMA LSegment ==
    ASSUME NEW l, WellFormed(l), NEW e, BIn("lazy", l, e), NEW s, LState(s)
    PROVE  /\ BOk("lazy", l, LOp(l, e, 1))
           /\ \A r : r = Binding!Run1("lazy", l, s, LOp(l, e, 1))
                     => LState(r) /\ LAt(l, e, 1, r) /\ r.fast = s.fast /\ r.bound = s.bound
<1>1. PICK x : Within(l, x, e.address)
  BY DEF BIn
<1>2. e.address \in Nat
  BY DEF BIn, BEntry
<1> DEFINE a == e.address
           o == Binding!Op("SET_SEGMENT_AND_OFFSET_ULEB", x - 1, a - l[x].start)
           r == BLoadedAt(s, a, l[x].limit)
<1>3. a \in Nat /\ Within(l, x, a) /\ a = e.address
  BY <1>1, <1>2
<1>4. LOp(l, e, 1) = o
  <2>1. findSegment(l, e.address) = SegmentAt(l, x)
    BY <1>1, <1>2, FindsSegment
  <2> QED BY <2>1 DEF LOp, SegmentAt
<1>5. o = BSegmentOp(l, x, a)
  BY DEF BSegmentOp
<1> HIDE DEF o, a
<1>6. BOk("lazy", l, o) /\ Binding!Run1("lazy", l, s, o) = r
  <2> DEFINE kd == "lazy"
  <2>1. kd \in BKinds
    BY DEF BKinds
  <2> HIDE DEF kd
  <2> DEFINE t == Binding!Run1(kd, l, s, o)
  <2>2. t = Binding!Run1(kd, l, s, o)
    OBVIOUS
  <2> HIDE DEF t, r
  <2>3. BOk(kd, l, o) /\ t = BLoadedAt(s, a, l[x].limit)
    BY <1>3, <1>5, <2>1, <2>2, BOpSegment
  <2> QED BY <2>2, <2>3 DEF kd, r
<1>7. a \in 0..(DyldWord - 1) /\ l[x].limit \in Nat
  BY <1>3, WithinFacts
<1>8. LState(r) /\ r.fast = s.fast /\ r.bound = s.bound /\ r.address = a /\ r.segEnd = l[x].limit
  BY <1>7 DEF LState, BLoadedAt, BState
<1> HIDE DEF r
<1>9. LAt(l, e, 1, r)
  BY <1>1, <1>3, <1>8 DEF LAt
<1> QED BY <1>4, <1>6, <1>8, <1>9

\* The second sets the library.
LEMMA LOrdinal ==
    ASSUME NEW l, WellFormed(l), NEW e, BIn("lazy", l, e), NEW s, LState(s), LAt(l, e, 1, s)
    PROVE  /\ BOk("lazy", l, LOp(l, e, 2))
           /\ \A r : r = Binding!Run1("lazy", l, s, LOp(l, e, 2))
                     => LState(r) /\ LAt(l, e, 2, r) /\ r.fast = s.fast /\ r.bound = s.bound
<1> DEFINE o == LOp(l, e, 2)
           y == e.ordinal
           r == [s EXCEPT !.ordinal = y]
<1>1. y \in Int /\ -Imm < y /\ Imm \in Nat
  BY WidthAssumption DEF BIn, BEntry
<1>2. o = IF y <= 0 THEN Binding!Op("SET_DYLIB_SPECIAL_IMM", y, 0)
          ELSE IF y <= Imm - 1 THEN Binding!Op("SET_DYLIB_ORDINAL_IMM", y, 0)
          ELSE Binding!Op("SET_DYLIB_ORDINAL_ULEB", y, 0)
  BY DEF LOp
<1> HIDE DEF o
<1>3. BSetsOrdinal(o, y)
  <2> HIDE DEF y
  <2>1. CASE y <= 0
    BY <1>1, <1>2, <2>1 DEF BSetsOrdinal, Binding!Op
  <2>2. CASE ~(y <= 0) /\ y <= Imm - 1
    BY <1>1, <1>2, <2>2 DEF BSetsOrdinal, Binding!Op
  <2>3. CASE ~(y <= 0) /\ ~(y <= Imm - 1)
    BY <1>1, <1>2, <2>3 DEF BSetsOrdinal, Binding!Op
  <2> QED BY <2>1, <2>2, <2>3
<1>4. BOk("lazy", l, o) /\ Binding!Run1("lazy", l, s, o) = r
  <2>1. "lazy" \in BKinds /\ "lazy" # "weak"
    BY DEF BKinds
  <2> QED BY <1>3, <2>1, BOpOrdinal
<1>5. /\ LState(r) /\ r.fast = s.fast /\ r.bound = s.bound /\ r.address = s.address /\ r.segEnd = s.segEnd
      /\ r.ordinal = y
  BY <1>1 DEF LState, BState
<1> HIDE DEF r
<1>6. LAt(l, e, 2, r)
  BY <1>5 DEF LAt
<1> QED BY <1>4, <1>5, <1>6 DEF o

\* The third names the symbol.
LEMMA LSymbol ==
    ASSUME NEW l, WellFormed(l), NEW e, BIn("lazy", l, e), NEW s, LState(s), LAt(l, e, 2, s)
    PROVE  /\ BOk("lazy", l, LOp(l, e, 3))
           /\ \A r : r = Binding!Run1("lazy", l, s, LOp(l, e, 3))
                     => LState(r) /\ LAt(l, e, 3, r) /\ r.fast = s.fast /\ r.bound = s.bound
<1> DEFINE o == LOp(l, e, 3)
           f == e.flags
           y == e.sym
           r == BNamed(s, f, y)
<1>1. f \in 0..2 /\ y \in Nat
  BY DEF BIn, BEntry
<1>2. o = BSymbolOp(f, y)
  BY DEF LOp, BSymbolOp
<1> HIDE DEF o
<1>3. BOk("lazy", l, o) /\ Binding!Run1("lazy", l, s, o) = r
  <2> HIDE DEF f, y
  <2>1. "lazy" \in BKinds
    BY DEF BKinds
  <2> QED BY <1>1, <1>2, <2>1, BOpSymbol
<1>4. /\ LState(r) /\ r.fast = s.fast /\ r.bound = s.bound /\ r.address = s.address /\ r.segEnd = s.segEnd
      /\ r.ordinal = s.ordinal /\ r.sym = y
  <2> DEFINE ns == Append(s.names, y)
  <2> HIDE DEF f, y
  <2>1. s.names \in Seq(Nat)
    BY DEF LState, BState
  <2>2. ns \in Seq(Nat)
    BY <2>1, <1>1
  <2>3. r = [s EXCEPT !.sym = y, !.flags = f, !.names = ns]
    BY DEF BNamed
  <2> HIDE DEF ns, r
  <2>4. s \in BState /\ ~s.bad /\ s.type = 1 /\ s.addend = 0 /\ f \in Nat /\ y \in Nat
    BY <1>1 DEF LState
  <2>5. /\ r \in BState /\ ~r.bad /\ r.type = 1 /\ r.addend = 0 /\ r.fast = s.fast /\ r.bound = s.bound
        /\ r.address = s.address /\ r.segEnd = s.segEnd /\ r.ordinal = s.ordinal /\ r.sym = y
    BY <2>2, <2>3, <2>4 DEF BState
  <2> QED BY <2>5 DEF LState
<1> HIDE DEF r
<1>5. LAt(l, e, 3, r)
  BY <1>4 DEF LAt
<1> QED BY <1>3, <1>4, <1>5 DEF o

\* The fourth binds the pointer of the entry.
LEMMA LDo ==
    ASSUME NEW l, WellFormed(l), NEW e, BIn("lazy", l, e), NEW s, LState(s), LAt(l, e, 3, s)
    PROVE  /\ BOk("lazy", l, LOp(l, e, 4))
           /\ \A r : r = Binding!Run1("lazy", l, s, LOp(l, e, 4))
                     => /\ LState(r) /\ r.fast = s.fast
                        /\ \A all : \A c \in Nat : all[c + 1] = e /\ BBinds(s, all, c) => BBinds(r, all, c + 1)
<1> DEFINE o == LOp(l, e, 4)
           r == Binding!Run1("lazy", l, s, o)
           a == e.address
<1>1. PICK x : Within(l, x, e.address) /\ s.address = e.address /\ s.segEnd = l[x].limit
  BY DEF LAt
<1>2. s.ordinal = e.ordinal /\ s.sym = e.sym /\ s.type = e.type /\ s.addend = e.addend /\ s \in BState
  BY DEF LAt, LState, BIn
<1>3. a \in Nat /\ Within(l, x, a) /\ s.address = a /\ s.segEnd = l[x].limit
  BY <1>1 DEF BIn, BEntry
<1>4. r = Binding!Run1("lazy", l, s, o) /\ o = Binding!Op("DO_BIND", 0, 0)
  BY DEF LOp
<1> HIDE DEF o, r
<1>5. /\ BOk("lazy", l, o) /\ r \in BState /\ BSame(r, s) /\ r.address = a + PtrSize
      /\ r.bound = s.bound \o <<BBound(s)>> /\ BBound(s) \in BEntry /\ r.bad = s.bad
  <2>1. "lazy" \in BKinds
    BY DEF BKinds
  <2> HIDE DEF a
  <2> QED BY <1>2, <1>3, <1>4, <2>1, BOpDo
<1>6. Binding!Tuple(BBound(s)) = Binding!Tuple(e)
  BY <1>1, <1>2 DEF BBound, Binding!Tuple
<1>7. LState(r) /\ r.fast = s.fast
  BY <1>5 DEF LState, BSame
<1>8. \A all : \A c \in Nat : all[c + 1] = e /\ BBinds(s, all, c) => BBinds(r, all, c + 1)
  BY <1>2, <1>5, <1>6, BBindsAdd
<1> QED BY <1>4, <1>5, <1>7, <1>8 DEF o

\* ld may write these opcodes.
LEMMA LOks ==
    ASSUME NEW l, WellFormed(l), NEW e, BIn("lazy", l, e)
    PROVE  \A j \in 1..4 : BOk("lazy", l, LOp(l, e, j))
<1> DEFINE s0 == Binding!Dyld0("lazy", l)
           s1 == Binding!Run1("lazy", l, s0, LOp(l, e, 1))
           s2 == Binding!Run1("lazy", l, s1, LOp(l, e, 2))
           s3 == Binding!Run1("lazy", l, s2, LOp(l, e, 3))
<1>1. LState(s0)
  <2>1. "lazy" \in BKinds /\ <<>> \in Seq(BEntry)
    BY DEF BKinds
  <2>2. s0 \in BStates("lazy", <<>>) /\ s0.addend = 0 /\ s0.type = (IF "lazy" = "lazy" THEN 1 ELSE 0)
    BY <2>1, BDyld0
  <2> QED BY <2>2 DEF LState, BStates
<1> HIDE DEF s0
<1>2. BOk("lazy", l, LOp(l, e, 1)) /\ LState(s1) /\ LAt(l, e, 1, s1)
  BY <1>1, LSegment
<1> HIDE DEF s1
<1>3. BOk("lazy", l, LOp(l, e, 2)) /\ LState(s2) /\ LAt(l, e, 2, s2)
  BY <1>2, LOrdinal
<1> HIDE DEF s2
<1>4. BOk("lazy", l, LOp(l, e, 3)) /\ LState(s3) /\ LAt(l, e, 3, s3)
  BY <1>3, LSymbol
<1> HIDE DEF s3
<1>5. BOk("lazy", l, LOp(l, e, 4))
  BY <1>4, LDo
<1>6. \A j \in 1..4 : j = 1 \/ j = 2 \/ j = 3 \/ j = 4
  OBVIOUS
<1> QED BY <1>2, <1>3, <1>4, <1>5, <1>6

\* The byte of DONE.
LEMMA BDoneByte ==
    Binding!Bytes(Binding!Done) = << 0 >> /\ Binding!Done.op = "DONE" /\ Binding!Cells("DONE") = 0
<1>1. Binding!Done.op = "DONE" /\ Binding!Done \in BOp
  BY BCodes DEF Binding!Done, Binding!Op, BOp
<1>2. Binding!Bytes(Binding!Done) \in {<<>>, Binding!Bytes(Binding!Done)} /\ <<>> \in {<<>>, << 0 >>}
  OBVIOUS
<1> DEFINE x == Binding!Bytes(Binding!Done)
<1>3. x \in Seq(Int) /\ BEnding(x \o <<>>)
  BY <1>2, BEndings
<1>4. x = <<Binding!Byte(Binding!Codes["DONE"], 0)>>
  BY <1>1 DEF Binding!Bytes, Binding!ImmediateOps
<1>5. Len(x) = 1 /\ x = <<x[1]>>
  BY <1>4
<1> HIDE DEF x
<1>6. x \o <<>> = x
  BY <1>3
<1>7. x[1] = 0
  BY <1>3, <1>5, <1>6 DEF BEnding
<1>8. x = << 0 >>
  BY <1>5, <1>7
<1> QED BY <1>1, <1>8 DEF Binding!Cells, x

\* The cells of the opcodes of an entry.
LEMMA LBytes ==
    ASSUME NEW l, WellFormed(l), Len(l) <= Imm + 1, NEW e, BIn("lazy", l, e), NEW j \in 1..5
    PROVE  /\ Binding!Bytes(LOp(l, e, j)) \in Seq(Int)
           /\ Len(Binding!Bytes(LOp(l, e, j))) = 1 + Binding!Cells(LOp(l, e, j).op)
           /\ Binding!Cells(LOp(l, e, j).op) \in Nat
<1>1. CASE j \in 1..4
  <2>1. BOk("lazy", l, LOp(l, e, j)) /\ Len(l) \in Nat
    BY <1>1, LOks, SegmentFacts
  <2>2. LOp(l, e, j).op \in DOMAIN Binding!Codes
    BY <2>1 DEF BOk, BOp
  <2> QED BY <2>1, <2>2, BBytes, BCells
<1>2. CASE j = 5
  <2>1. LOp(l, e, j) = Binding!Done
    BY <1>2 DEF LOp
  <2>2. Len(<< 0 >>) = 1 /\ << 0 >> \in Seq(Int)
    OBVIOUS
  <2> QED BY <2>1, <2>2, BDoneByte
<1> QED BY <1>1, <1>2

\* The opcodes of entry e are in d, the j-th of them after t[j - 1].
LBlock(l, e, d, t) ==
    /\ t \in [0..5 -> Nat]
    /\ \A j \in 1..5 : t[j] = t[j - 1] + 1 + Binding!Cells(LOp(l, e, j).op)
    /\ \A j \in 1..5 : \A c \in 1..Len(Binding!Bytes(LOp(l, e, j))) :
          t[j - 1] + c \in 1..Len(d) /\ d[t[j - 1] + c] = Binding!Bytes(LOp(l, e, j))[c]

\* What is appended later leaves an entry where it is.
LEMMA LBlockStays ==
    ASSUME NEW l, NEW e, NEW d \in Seq(Int), NEW x \in Seq(Int), NEW t, LBlock(l, e, d, t)
    PROVE  LBlock(l, e, d \o x, t)
<1> DEFINE y == d \o x
<1>1. Len(y) = Len(d) + Len(x) /\ \A i \in 1..Len(d) : y[i] = d[i]
  OBVIOUS
<1>2. Len(d) \in Nat /\ Len(x) \in Nat
  OBVIOUS
<1> HIDE DEF y
<1>3. \A i \in 1..Len(d) : i \in 1..Len(y)
  BY <1>1, <1>2
<1>4. LBlock(l, e, y, t)
  BY <1>1, <1>3 DEF LBlock
<1> QED BY <1>4 DEF y

\* What encode appends for an entry.
LCells(l, e) == Binding!Joined([j \in 1..5 |-> Binding!Bytes(LOp(l, e, j))])

\* The entry that encode appends.
LEMMA LBlockNew ==
    ASSUME NEW l, WellFormed(l), Len(l) <= Imm + 1, NEW e, BIn("lazy", l, e), NEW d \in Seq(Int)
    PROVE  /\ LCells(l, e) \in Seq(Int)
           /\ \E t : LBlock(l, e, d \o LCells(l, e), t) /\ t[0] = Len(d) /\ t[5] = Len(d \o LCells(l, e))
<1> DEFINE ss == [j \in 1..5 |-> Binding!Bytes(LOp(l, e, j))]
           f == Joined(ss)
           y == d \o f
<1>1. ss \in [1..5 -> Seq(Int)] /\ \A j \in 1..5 : ss[j] = Binding!Bytes(LOp(l, e, j))
  BY LBytes
<1>2. LCells(l, e) = f
  BY DEF LCells, Binding!Joined, Joined
<1> HIDE DEF ss, f
<1>3. PICK off \in [0..5 -> Nat] :
         /\ off[0] = 0 /\ \A k \in 1..5 : off[k] = off[k - 1] + Len(ss[k])
         /\ f \in Seq(Int) /\ Len(f) = off[5] /\ Reads(f, off, ss, 5)
  BY <1>1, Flatten DEF f
<1>4. y \in Seq(Int) /\ Len(y) = Len(d) + Len(f)
      /\ \A i \in 1..(Len(d) + Len(f)) : y[i] = IF i <= Len(d) THEN d[i] ELSE f[i - Len(d)]
  <2>1. f \in Seq(Int)
    BY <1>3
  <2> QED BY <2>1, Concat
<1> HIDE DEF y
<1> DEFINE m == Len(d)
           t == [j \in 0..5 |-> m + off[j]]
<1>5. m \in Nat /\ Len(f) \in Nat /\ m = Len(d)
  BY <1>3
<1> HIDE DEF m
<1>6. t \in [0..5 -> Nat] /\ \A j \in 0..5 : t[j] = m + off[j]
  <2>1. \A j \in 0..5 : off[j] \in Nat
    BY <1>3
  <2>2. \A j \in 0..5 : m + off[j] \in Nat
    <3> TAKE j \in 0..5
    <3> DEFINE o == off[j]
    <3>1. o \in Nat
      BY <2>1
    <3> HIDE DEF o
    <3>2. m + o \in Nat
      BY <3>1, <1>5
    <3> QED BY <3>2 DEF o
  <2> QED BY <2>2
<1>7. t[0] = m /\ t[5] = m + Len(f)
  BY <1>3, <1>5, <1>6
<1> HIDE DEF t
<1>8. \A j \in 1..5 : t[j] = t[j - 1] + 1 + Binding!Cells(LOp(l, e, j).op)
  <2> TAKE j \in 1..5
  <2> DEFINE cells == Binding!Cells(LOp(l, e, j).op)
  <2>1. cells \in Nat /\ Len(ss[j]) = 1 + cells
    BY <1>1, LBytes
  <2>2. j \in 0..5 /\ j - 1 \in 0..5
    OBVIOUS
  <2>3. off[j] = off[j - 1] + Len(ss[j]) /\ off[j - 1] \in Nat
    BY <2>2, <1>3
  <2> HIDE DEF cells
  <2>4. t[j] = m + off[j] /\ t[j - 1] = m + off[j - 1]
    BY <2>2, <1>6
  <2>5. t[j] = t[j - 1] + 1 + cells
    <3> DEFINE u == off[j - 1]
               v == Len(ss[j])
               w == off[j]
    <3>1. cells \in Nat /\ v = 1 + cells /\ w = u + v /\ u \in Nat /\ t[j] = m + w /\ t[j - 1] = m + u
      BY <2>1, <2>3, <2>4
    <3> HIDE DEF u, v, w
    <3>2. m + w = (m + u) + 1 + cells
      BY <3>1, <1>5
    <3> QED BY <3>1, <3>2
  <2> QED BY <2>5 DEF cells
<1>9. \A j \in 1..5 : \A c \in 1..Len(Binding!Bytes(LOp(l, e, j))) :
         t[j - 1] + c \in 1..Len(y) /\ y[t[j - 1] + c] = Binding!Bytes(LOp(l, e, j))[c]
  <2> TAKE j \in 1..5
  <2> TAKE c \in 1..Len(Binding!Bytes(LOp(l, e, j)))
  <2>0. j - 1 \in 0..5
    OBVIOUS
  <2>1. ss[j] = Binding!Bytes(LOp(l, e, j))
    BY <1>1
  <2>2. off[j - 1] + c \in 1..off[5] /\ f[off[j - 1] + c] = ss[j][c]
    BY <2>1, <1>3 DEF Reads
  <2>3. t[j - 1] = m + off[j - 1] /\ off[j - 1] \in Nat
    <3>1. t[j - 1] = m + off[j - 1]
      BY <2>0, <1>6
    <3>2. off[j - 1] \in Nat
      BY <2>0, <1>3
    <3> QED BY <3>1, <3>2
  <2>4. c \in Nat
    OBVIOUS
  <2>5. t[j - 1] + c = m + (off[j - 1] + c)
    BY <2>3, <2>4, <1>5
  <2> DEFINE i == off[j - 1] + c
  <2>6. i \in 1..Len(f) /\ f[i] = ss[j][c]
    BY <2>2, <1>3
  <2> HIDE DEF i
  <2>7. m + i \in 1..Len(y) /\ ~(m + i <= m) /\ (m + i) - m = i
    <3> DEFINE a == Len(f)
               b == Len(y)
    <3>1. a \in Nat /\ m \in Nat /\ i \in 1..a
      BY <2>6, <1>5
    <3>3. b = m + a
      BY <1>4, <1>5
    <3> HIDE DEF a, b
    <3>4. i \in Nat /\ 1 <= i /\ i <= a
      BY <3>1
    <3>2. m + i \in 1..b /\ ~(m + i <= m) /\ (m + i) - m = i
      BY <3>1, <3>3, <3>4
    <3> QED BY <3>2 DEF b
  <2>8. y[m + i] = f[i]
    <3>1. m + i \in 1..(Len(d) + Len(f)) /\ ~(m + i <= Len(d)) /\ (m + i) - Len(d) = i
      BY <2>7, <1>4, <1>5
    <3> QED BY <3>1, <1>4
  <2> QED BY <2>1, <2>5, <2>6, <2>7, <2>8 DEF i
<1>10. LBlock(l, e, y, t)
  BY <1>6, <1>8, <1>9 DEF LBlock
<1>11. t[0] = Len(d) /\ t[5] = Len(y)
  BY <1>4, <1>5, <1>7
<1> QED BY <1>2, <1>3, <1>10, <1>11 DEF y

(****************************************************************************)
(* The lazy table: its invariant                                            *)
(****************************************************************************)

\* Where the opcodes of the first k entries end.
LEnd(at, k) == IF k = 0 THEN 0 ELSE at[k][5]

\* The data d hold the opcodes of the first i entries, offs tells where they begin.
LCode(l, inf, i, d, offs, at) ==
    /\ d \in Seq(Int) /\ i \in 0..Len(inf) /\ offs \in Seq(Nat) /\ Len(offs) = i
    /\ \A k \in 1..i : LBlock(l, inf[k], d, at[k]) /\ at[k][0] = LEnd(at, k - 1) /\ offs[k] = at[k][0] + 1
    /\ LEnd(at, i) \in 0..Len(d)

\* One more entry is in the data, and the stub helper is told where it begins.
LEMMA LCodeNext ==
    ASSUME NEW l, WellFormed(l), Len(l) <= Imm + 1, NEW inf, NEW i, NEW d, NEW offs, NEW at,
           LCode(l, inf, i, d, offs, at), i < Len(inf), Len(inf) \in Nat, LEnd(at, i) = Len(d),
           BIn("lazy", l, inf[i + 1])
    PROVE  \E v : /\ LCode(l, inf, i + 1, d \o LCells(l, inf[i + 1]), Append(offs, Len(d) + 1), v)
                  /\ LEnd(v, i + 1) = Len(d \o LCells(l, inf[i + 1]))
<1> DEFINE e == inf[i + 1]
           x == LCells(l, e)
           y == d \o x
           b == Append(offs, Len(d) + 1)
<1>1. d \in Seq(Int) /\ i \in Nat /\ i + 1 \in 0..Len(inf) /\ offs \in Seq(Nat) /\ Len(offs) = i /\ Len(d) \in Nat
  BY DEF LCode
<1>2. PICK t : LBlock(l, e, y, t) /\ t[0] = Len(d) /\ t[5] = Len(y)
  BY <1>1, LBlockNew
<1>3. x \in Seq(Int)
  BY <1>1, LBlockNew
<1>4. y \in Seq(Int) /\ Len(y) \in Nat
  BY <1>1, <1>3
<1>5. b \in Seq(Nat) /\ Len(b) = i + 1 /\ b[i + 1] = Len(d) + 1 /\ \A k \in 1..i : b[k] = offs[k]
  <2> DEFINE m == Len(d) + 1
  <2>1. m \in Nat
    BY <1>1
  <2> HIDE DEF m
  <2>2. Append(offs, m) \in Seq(Nat) /\ Len(Append(offs, m)) = i + 1 /\ Append(offs, m)[i + 1] = m
        /\ \A k \in 1..i : Append(offs, m)[k] = offs[k]
    BY <2>1, <1>1
  <2> QED BY <2>2 DEF m
<1> DEFINE v == [k \in 1..(i + 1) |-> IF k = i + 1 THEN t ELSE at[k]]
<1>6. v[i + 1] = t /\ \A k \in 1..i : v[k] = at[k]
  BY <1>1
<1> HIDE DEF v, y, x, b
<1>7. LEnd(v, i) = LEnd(at, i)
  <2>1. i = 0 \/ i \in 1..i
    BY <1>1
  <2> QED BY <2>1, <1>6 DEF LEnd
<1>8. ASSUME NEW k \in 1..i
      PROVE  LBlock(l, inf[k], y, v[k]) /\ v[k][0] = LEnd(v, k - 1) /\ b[k] = v[k][0] + 1
  <2>1. LBlock(l, inf[k], d, at[k]) /\ at[k][0] = LEnd(at, k - 1) /\ offs[k] = at[k][0] + 1 /\ v[k] = at[k]
    BY <1>6 DEF LCode
  <2>2. LBlock(l, inf[k], y, v[k])
    BY <2>1, <1>1, <1>3, LBlockStays DEF y
  <2>3. LEnd(v, k - 1) = LEnd(at, k - 1)
    <3>1. k - 1 = 0 \/ k - 1 \in 1..i
      BY <1>1
    <3> QED BY <3>1, <1>6 DEF LEnd
  <2> QED BY <2>1, <2>2, <2>3, <1>5
<1>9. LBlock(l, inf[i + 1], y, v[i + 1]) /\ v[i + 1][0] = LEnd(v, (i + 1) - 1) /\ b[i + 1] = v[i + 1][0] + 1
  <2>1. (i + 1) - 1 = i
    BY <1>1
  <2> QED BY <2>1, <1>2, <1>5, <1>6, <1>7
<1>10. LEnd(v, i + 1) = Len(y) /\ Len(y) \in 0..Len(y)
  <2>1. i + 1 # 0
    BY <1>1
  <2> QED BY <2>1, <1>2, <1>4, <1>6 DEF LEnd
<1>11. \A k \in 1..(i + 1) :
          LBlock(l, inf[k], y, v[k]) /\ v[k][0] = LEnd(v, k - 1) /\ b[k] = v[k][0] + 1
  <2> TAKE k \in 1..(i + 1)
  <2>1. k \in 1..i \/ k = i + 1
    BY <1>1
  <2> QED BY <2>1, <1>8, <1>9
<1>12. LCode(l, inf, i + 1, y, b, v)
  BY <1>1, <1>4, <1>5, <1>10, <1>11 DEF LCode
<1> QED BY <1>10, <1>12 DEF x, y, b, e

\* One more cell after the code changes nothing of it.
LEMMA LCodeStays ==
    ASSUME NEW l, NEW inf, NEW i, NEW d, NEW offs, NEW at, LCode(l, inf, i, d, offs, at), NEW x \in Seq(Int)
    PROVE  LCode(l, inf, i, d \o x, offs, at)
<1> DEFINE y == d \o x
<1>1. d \in Seq(Int) /\ LEnd(at, i) \in 0..Len(d)
  BY DEF LCode
<1>2. y \in Seq(Int) /\ Len(y) = Len(d) + Len(x) /\ Len(d) \in Nat /\ Len(x) \in Nat
  BY <1>1
<1>3. \A k \in 1..i : LBlock(l, inf[k], y, at[k])
  BY <1>1, LBlockStays DEF LCode
<1> HIDE DEF y
<1>4. LEnd(at, i) \in 0..Len(y)
  <2> DEFINE u == LEnd(at, i)
  <2> HIDE DEF u
  <2>1. u \in 0..Len(d)
    BY <1>1 DEF u
  <2>2. u \in 0..Len(y)
    BY <2>1, <1>2
  <2> QED BY <2>2 DEF u
<1>5. LCode(l, inf, i, y, offs, at)
  BY <1>2, <1>3, <1>4 DEF LCode
<1> QED BY <1>5 DEF y

\* What dyld is to bind, all or one, and how much of it is bound when it has run j
\* opcodes of entry k.
LWant(inf, fast) == IF fast = 0 THEN inf ELSE <<inf[fast]>>
LBound(fast, k, j) == (IF fast = 0 THEN k - 1 ELSE 0) + (IF j = 4 THEN 1 ELSE 0)

\* dyld is at an opcode of an entry that is next to bind, or behind all of them.
LReading(at) ==
    /\ LState(dyld) /\ dyld.fast \in 0..Len(info) /\ p \in Nat \ {0}
    /\ p = 1 /\ dyld.fast = 0 => Len(dyld.bound) = 0
    /\ phase = "dyld" =>
         \/ \E k \in 1..Len(info), j \in 0..4 :
              /\ dyld.fast # 0 => k = dyld.fast
              /\ p = at[k][j] + 1 /\ LAt(layout, info[k], j, dyld)
              /\ BBinds(dyld, LWant(info, dyld.fast), LBound(dyld.fast, k, j))
         \/ dyld.fast = 0 /\ p > LEnd(at, Len(info)) /\ BBinds(dyld, info, Len(info))
    /\ phase = "done" => BBinds(dyld, LWant(info, dyld.fast), Len(LWant(info, dyld.fast)))

\* The data hold the opcodes of all entries and perhaps a byte of padding.
LEncoded(at) ==
    /\ LCode(layout, info, Len(info), data, offsets, at)
    /\ Len(data) <= LEnd(at, Len(info)) + 1
    /\ Len(data) > LEnd(at, Len(info)) => data[LEnd(at, Len(info)) + 1] = 0

\* The inductive invariant of the lazy table.
LInv ==
    /\ kind = "lazy" /\ BTable(kind, layout, info) /\ phase \in {"translate", "dyld", "done"}
    /\ phase = "translate" =>
         /\ p = 1 /\ dyld = Binding!Dyld0(kind, layout)
         /\ \E at : LCode(layout, info, n, data, offsets, at) /\ LEnd(at, n) = Len(data)
    /\ phase # "translate" => \E at : LEncoded(at) /\ LReading(at)

\* The images considered.
LEMMA LFacts ==
    ASSUME kind = "lazy", BTable(kind, layout, info), FewSegments
    PROVE  /\ layout \in BindLayouts /\ WellFormed(layout) /\ Len(layout) <= Imm + 1
           /\ info \in Seq(BEntry) /\ Len(info) \in Nat /\ \A k \in 1..Len(info) : BIn("lazy", layout, info[k])
<1>1. layout \in BindLayouts /\ info \in Seq(BEntry) /\ \A k \in 1..Len(info) : BIn("lazy", layout, info[k])
  BY DEF BTable
<1> QED BY <1>1, BLayout

\* The invariant of the lazy table holds at first.
LEMMA LInit ==
    ASSUME Binding!Init, kind = "lazy"
    PROVE  LInv
<1>1. kind \in Kinds /\ layout \in BindLayouts
  BY DEF Binding!Init
<1>3. PICK S \in SUBSET Binding!Places(layout) :
         \E ref \in [S -> Refs] :
            Binding!Possible(kind, ref) /\ info = Binding!Sorted(kind, Binding!Entries(kind, ref))
  BY DEF Binding!Init
<1>4. PICK ref \in [S -> Refs] :
         Binding!Possible(kind, ref) /\ info = Binding!Sorted(kind, Binding!Entries(kind, ref))
  BY <1>3
<1>5. WellFormed(layout)
  BY <1>1, BLayout
<1>6. BTable(kind, layout, info)
  BY <1>1, <1>4, <1>5, BSortedTable
<1>7. /\ n = 0 /\ phase = "translate" /\ p = 1 /\ data = <<>> /\ offsets = <<>>
      /\ dyld = Binding!Dyld0(kind, layout)
  BY DEF Binding!Init
<1>8. Len(info) \in Nat /\ 0 \in 0..Len(info)
  <2>1. info \in Seq(BEntry)
    BY <1>6 DEF BTable
  <2> QED BY <2>1
<1> DEFINE at == <<>>
<1>9. LEnd(at, n) = Len(data)
  BY <1>7 DEF LEnd
<1> HIDE DEF at
<1>10. LCode(layout, info, n, data, offsets, at)
  <2>1. <<>> \in Seq(Int) /\ <<>> \in Seq(Nat) /\ Len(<<>>) = 0
    OBVIOUS
  <2> QED BY <2>1, <1>7, <1>8, <1>9 DEF LCode
<1> QED BY <1>6, <1>7, <1>9, <1>10 DEF LInv

\* The encoding of an entry keeps the invariant.
LEMMA LKeepsEntry ==
    ASSUME LInv, FewSegments, Binding!LazyEntry
    PROVE  LInv'
<1> DEFINE e == info[n + 1]
           ss == [j \in 1..5 |-> Binding!Bytes(LOp(layout, e, j))]
<1>1. /\ phase = "translate" /\ kind = "lazy" /\ n < Len(info) /\ n' = n + 1 /\ phase' = phase /\ kind' = kind
      /\ layout' = layout /\ info' = info /\ p' = p /\ dyld' = dyld /\ offsets' = Append(offsets, Len(data) + 1)
  BY DEF Binding!LazyEntry, Binding!table
<1>2. data' = data \o LCells(layout, e)
  <2> DEFINE seg == Binding!findSegment(layout, e.address)
             ops == <<Binding!Op("SET_SEGMENT_AND_OFFSET_ULEB", seg.index, e.address - seg.start),
                      IF e.ordinal <= 0 THEN Binding!Op("SET_DYLIB_SPECIAL_IMM", e.ordinal, 0)
                      ELSE IF e.ordinal <= Imm - 1 THEN Binding!Op("SET_DYLIB_ORDINAL_IMM", e.ordinal, 0)
                      ELSE Binding!Op("SET_DYLIB_ORDINAL_ULEB", e.ordinal, 0),
                      Binding!Op("SET_SYMBOL_TRAILING_FLAGS_IMM", e.flags, e.sym),
                      Binding!Op("DO_BIND", 0, 0), Binding!Done>>
  <2>1. data' = data \o Binding!Joined([k \in 1..Len(ops) |-> Binding!Bytes(ops[k])])
    BY DEF Binding!LazyEntry
  <2>2. ops[1] = LOp(layout, e, 1) /\ ops[2] = LOp(layout, e, 2) /\ ops[3] = LOp(layout, e, 3)
        /\ ops[4] = LOp(layout, e, 4) /\ ops[5] = LOp(layout, e, 5) /\ Len(ops) = 5
    BY DEF LOp, Binding!findSegment, findSegment
  <2> HIDE DEF ops
  <2>3. \A k \in 1..5 : k = 1 \/ k = 2 \/ k = 3 \/ k = 4 \/ k = 5
    OBVIOUS
  <2>4. \A k \in 1..5 : ops[k] = LOp(layout, e, k)
    BY <2>2, <2>3
  <2>5. [k \in 1..Len(ops) |-> Binding!Bytes(ops[k])] = ss
    BY <2>2, <2>4
  <2> QED BY <2>1, <2>5 DEF LCells
<1>3. p = 1 /\ dyld = Binding!Dyld0(kind, layout) /\ BTable(kind, layout, info)
  BY <1>1 DEF LInv
<1>4. PICK at : LCode(layout, info, n, data, offsets, at) /\ LEnd(at, n) = Len(data)
  BY <1>1 DEF LInv
<1>5. /\ WellFormed(layout) /\ Len(layout) <= Imm + 1 /\ Len(info) \in Nat
      /\ \A k \in 1..Len(info) : BIn("lazy", layout, info[k])
  BY <1>1, <1>3, LFacts
<1>6. n + 1 \in 1..Len(info)
  <2>1. n \in 0..Len(info)
    BY <1>4 DEF LCode
  <2> QED BY <2>1, <1>1, <1>5
<1>7. BIn("lazy", layout, info[n + 1])
  BY <1>5, <1>6
<1>8. \E v : /\ LCode(layout, info, n + 1, data \o LCells(layout, info[n + 1]), Append(offsets, Len(data) + 1), v)
             /\ LEnd(v, n + 1) = Len(data \o LCells(layout, info[n + 1]))
  BY <1>1, <1>4, <1>5, <1>7, LCodeNext
<1>9. \E v : LCode(layout', info', n', data', offsets', v) /\ LEnd(v, n') = Len(data')
  BY <1>1, <1>2, <1>8
<1> QED BY <1>1, <1>3, <1>9 DEF LInv

\* The padding keeps the invariant.
LEMMA LKeepsEnd ==
    ASSUME LInv, FewSegments, Binding!EndLazy
    PROVE  LInv'
<1>1. /\ phase = "translate" /\ kind = "lazy" /\ n = Len(info) /\ phase' = "dyld" /\ kind' = kind
      /\ layout' = layout /\ info' = info /\ p' = p /\ dyld' = dyld /\ offsets' = offsets
  BY DEF Binding!EndLazy, Binding!table, Binding!linker
<1>2. PICK padding \in {<<>>, << 0 >>} : data' = data \o padding
  BY DEF Binding!EndLazy
<1>3. p = 1 /\ dyld = Binding!Dyld0(kind, layout) /\ BTable(kind, layout, info)
  BY <1>1 DEF LInv
<1>4. PICK at : LCode(layout, info, Len(info), data, offsets, at) /\ LEnd(at, Len(info)) = Len(data)
  BY <1>1 DEF LInv
<1>5. WellFormed(layout) /\ Len(info) \in Nat /\ info \in Seq(BEntry)
  BY <1>1, <1>3, LFacts
<1>6. padding \in Seq(Int) /\ Len(padding) <= 1 /\ (Len(padding) > 0 => padding[1] = 0) /\ Len(padding) \in Nat
  <2>1. CASE padding = <<>>
    BY <2>1
  <2>2. CASE padding = << 0 >>
    BY <2>2
  <2> QED BY <2>1, <2>2
<1>7. data \in Seq(Int) /\ Len(data) \in Nat
  BY <1>4 DEF LCode
<1>8. LCode(layout, info, Len(info), data', offsets, at)
  BY <1>2, <1>4, <1>6, LCodeStays
<1>9. Len(data') = Len(data) + Len(padding) /\ (Len(padding) > 0 => data'[Len(data) + 1] = padding[1])
  <2>1. Len(data \o padding) = Len(data) + Len(padding)
        /\ \A i \in 1..(Len(data) + Len(padding)) :
              (data \o padding)[i] = IF i <= Len(data) THEN data[i] ELSE padding[i - Len(data)]
    BY <1>6, <1>7, Concat
  <2>2. ASSUME Len(padding) > 0 PROVE data'[Len(data) + 1] = padding[1]
    <3>1. Len(data) + 1 \in 1..(Len(data) + Len(padding)) /\ ~(Len(data) + 1 <= Len(data))
          /\ (Len(data) + 1) - Len(data) = 1
      BY <1>6, <1>7, <2>2
    <3> QED BY <3>1, <2>1, <1>2
  <2> QED BY <2>1, <2>2, <1>2
<1>10. LEncoded(at)'
  <2>1. Len(data') <= LEnd(at, Len(info)) + 1
    BY <1>4, <1>6, <1>7, <1>9
  <2>2. Len(data') > LEnd(at, Len(info)) => data'[LEnd(at, Len(info)) + 1] = 0
    BY <1>4, <1>6, <1>7, <1>9
  <2> QED BY <1>1, <1>8, <2>1, <2>2 DEF LEncoded
<1>11. LState(dyld) /\ dyld.fast = 0 /\ dyld.bound = <<>> /\ BBinds(dyld, info, 0)
  <2>1. "lazy" \in BKinds
    BY DEF BKinds
  <2>2. /\ Binding!Dyld0("lazy", layout) \in BStates("lazy", info) /\ BBinds(Binding!Dyld0("lazy", layout), info, 0)
        /\ Binding!Dyld0("lazy", layout).addend = 0 /\ Binding!Dyld0("lazy", layout).bound = <<>>
        /\ Binding!Dyld0("lazy", layout).type = (IF "lazy" = "lazy" THEN 1 ELSE 0)
    BY <1>5, <2>1, BDyld0
  <2> QED BY <1>1, <1>3, <2>2 DEF LState, BStates
<1>12. \/ \E k \in 1..Len(info), j \in 0..4 :
            p = at[k][j] + 1 /\ LAt(layout, info[k], j, dyld) /\ BBinds(dyld, info, LBound(0, k, j))
       \/ p > LEnd(at, Len(info)) /\ BBinds(dyld, info, Len(info))
  <2>1. CASE Len(info) = 0
    BY <2>1, <1>3, <1>11 DEF LEnd
  <2>2. CASE Len(info) > 0
    <3>1. 1 \in 1..Len(info) /\ 1 - 1 = 0
      BY <2>2, <1>5
    <3>2. at[1][0] = 0
      BY <3>1, <1>4 DEF LCode, LEnd
    <3>3. p = at[1][0] + 1 /\ LAt(layout, info[1], 0, dyld)
      BY <3>2, <1>3 DEF LAt
    <3>4. LBound(0, 1, 0) = 0
      BY DEF LBound
    <3>5. 0 \in 0..4
      OBVIOUS
    <3> QED BY <3>1, <3>3, <3>4, <3>5, <1>11
  <2> QED BY <2>1, <2>2, <1>5
<1>13. LReading(at)'
  <2>1. Len(<<>>) = 0 /\ 0 \in 0..Len(info) /\ 1 \in Nat \ {0}
    BY <1>5
  <2>2. LWant(info, 0) = info
    BY DEF LWant
  <2> QED BY <2>1, <2>2, <1>1, <1>3, <1>11, <1>12 DEF LReading
<1> QED BY <1>1, <1>3, <1>10, <1>13 DEF LInv

\* What dyld reads at the j-th opcode of an entry.
LReadAt(l, e, t, j) ==
    /\ t[j] \in Nat /\ t[j] + 1 <= Len(data) /\ Binding!Readable(t[j] + 1)
    /\ j < 4 => Binding!OpAt(t[j] + 1) = LOp(l, e, j + 1)
    /\ j = 4 => Binding!OpAt(t[j] + 1).op = "DONE"
    /\ t[j] + 1 + 1 + Binding!Cells(LOp(l, e, j + 1).op) = t[j + 1] + 1

\* An opcode is read where it was written.
LEMMA LReads ==
    ASSUME NEW l, WellFormed(l), Len(l) <= Imm + 1, NEW e, BIn("lazy", l, e), NEW t, LBlock(l, e, data, t),
           data \in Seq(Int), NEW j \in 0..4
    PROVE  LReadAt(l, e, t, j)
<1> DEFINE o == LOp(l, e, j + 1)
           at == t[j] + 1
           x == Binding!Cells(o.op)
<1>1. j \in 0..5 /\ j + 1 \in 1..5 /\ (j + 1) - 1 = j /\ j + 1 \in 0..5
  OBVIOUS
<1>2. t[j] \in Nat /\ t[j + 1] \in Nat
  BY <1>1 DEF LBlock
<1>3. Binding!Bytes(o) \in Seq(Int) /\ Len(Binding!Bytes(o)) = 1 + x /\ x \in Nat
  BY <1>1, LBytes
<1>4. t[j + 1] = t[j] + 1 + x
  BY <1>1 DEF LBlock
<1>5. \A c \in 1..Len(Binding!Bytes(o)) : t[j] + c \in 1..Len(data) /\ data[t[j] + c] = Binding!Bytes(o)[c]
  BY <1>1 DEF LBlock
<1> HIDE DEF o, x
<1>6. at \in Nat /\ at + x <= Len(data) /\ at <= Len(data) /\ Len(data) \in Nat
  <2>1. 1 + x \in 1..Len(Binding!Bytes(o))
    BY <1>3
  <2>2. t[j] + (1 + x) \in 1..Len(data) /\ Len(data) \in Nat
    BY <2>1, <1>5
  <2> DEFINE u == t[j]
             v == Len(data)
  <2>3. u \in Nat /\ x \in Nat /\ v \in Nat /\ u + (1 + x) \in 1..v
    BY <2>2, <1>2, <1>3
  <2> HIDE DEF u, v
  <2>4. u + 1 \in Nat /\ u + 1 + x <= v /\ u + 1 <= v
    BY <2>3
  <2> QED BY <2>3, <2>4 DEF u, v
<1>7. \A c \in 1..Len(Binding!Bytes(o)) : data[at + c - 1] = Binding!Bytes(o)[c]
  <2> TAKE c \in 1..Len(Binding!Bytes(o))
  <2>1. at + c - 1 = t[j] + c
    BY <1>2, <1>3
  <2> QED BY <2>1, <1>5
<1>8. at + 1 + x = t[j + 1] + 1
  BY <1>2, <1>3, <1>4
<1> HIDE DEF at
<1>9. CASE j < 4
  <2>1. j + 1 \in 1..4
    BY <1>9
  <2>2. BOk("lazy", l, o) /\ Len(l) \in Nat
    BY <2>1, LOks, SegmentFacts DEF o
  <2>3. Binding!Readable(at) /\ Binding!OpAt(at) = o
    BY <2>2, <1>6, <1>7, BDecodes DEF x
  <2> QED BY <2>3, <1>2, <1>6, <1>8, <1>9 DEF at, o, x, LReadAt
<1>10. CASE j = 4
  <2>1. o = Binding!Done
    BY <1>10 DEF o, LOp
  <2>2. Len(Binding!Bytes(o)) = 1 /\ Binding!Bytes(o)[1] = 0
    BY <2>1, BDoneByte
  <2>3. data[at] = 0
    <3>1. 1 \in 1..Len(Binding!Bytes(o)) /\ at + 1 - 1 = at
      BY <1>6, <2>2
    <3> QED BY <3>1, <2>2, <1>7
  <2>4. Binding!Readable(at) /\ Binding!OpAt(at).op = "DONE"
    BY <2>3, <1>6, BDecodesPadding
  <2> QED BY <2>4, <1>2, <1>6, <1>8, <1>10 DEF at, o, x, LReadAt
<1> QED BY <1>9, <1>10 DEF LReadAt

\* One opcode of an entry.
LEMMA LRuns ==
    ASSUME NEW l, WellFormed(l), NEW e, BIn("lazy", l, e), NEW j \in 0..3, NEW s, LState(s), LAt(l, e, j, s),
           NEW r, r = Binding!Run1("lazy", l, s, LOp(l, e, j + 1)),
           NEW all, NEW c \in Nat, all[c + 1] = e, BBinds(s, all, c)
    PROVE  /\ LOp(l, e, j + 1).op # "DONE" /\ LState(r) /\ r.fast = s.fast /\ LAt(l, e, j + 1, r)
           /\ BBinds(r, all, IF j = 3 THEN c + 1 ELSE c)
<1>1. j + 1 \in 1..4
  OBVIOUS
<1>2. LOp(l, e, j + 1).op # "DONE"
  BY <1>1, LOks DEF BOk
<1>3. CASE j = 0
  <2>1. LState(r) /\ LAt(l, e, 1, r) /\ r.fast = s.fast /\ r.bound = s.bound
    BY <1>3, LSegment
  <2> QED BY <2>1, <1>2, <1>3 DEF BBinds
<1>4. CASE j = 1
  <2>1. LState(r) /\ LAt(l, e, 2, r) /\ r.fast = s.fast /\ r.bound = s.bound
    BY <1>4, LOrdinal
  <2> QED BY <2>1, <1>2, <1>4 DEF BBinds
<1>5. CASE j = 2
  <2>1. LState(r) /\ LAt(l, e, 3, r) /\ r.fast = s.fast /\ r.bound = s.bound
    BY <1>5, LSymbol
  <2> QED BY <2>1, <1>2, <1>5 DEF BBinds
<1>6. CASE j = 3
  <2>0. LAt(l, e, 3, s) /\ r = Binding!Run1("lazy", l, s, LOp(l, e, 4))
    BY <1>6
  <2>3. \A q : q = Binding!Run1("lazy", l, s, LOp(l, e, 4))
               => /\ LState(q) /\ q.fast = s.fast
                  /\ \A as : \A d \in Nat : as[d + 1] = e /\ BBinds(s, as, d) => BBinds(q, as, d + 1)
    BY <2>0, LDo
  <2>1. LState(r) /\ r.fast = s.fast /\ BBinds(r, all, c + 1)
    BY <2>0, <2>3, Zenon
  <2>2. LAt(l, e, 4, r)
    BY DEF LAt
  <2> QED BY <2>1, <2>2, <1>2, <1>6
<1> QED BY <1>3, <1>4, <1>5, <1>6

\* The entry that dyld is at is the next one to bind.
LEMMA LNext ==
    ASSUME NEW inf \in Seq(BEntry), NEW fast \in 0..Len(inf), NEW k \in 1..Len(inf), fast # 0 => k = fast, NEW j \in 0..3
    PROVE  /\ LBound(fast, k, j) \in Nat /\ LWant(inf, fast)[LBound(fast, k, j) + 1] = inf[k]
           /\ LBound(fast, k, j + 1) = (IF j = 3 THEN LBound(fast, k, j) + 1 ELSE LBound(fast, k, j))
           /\ LWant(inf, fast) \in Seq(BEntry)
           /\ fast # 0 => LBound(fast, k, 4) = Len(LWant(inf, fast))
           /\ fast = 0 => LBound(fast, k, 4) = k
<1>1. Len(inf) \in Nat /\ inf[k] \in BEntry /\ k - 1 \in Nat /\ (k - 1) + 1 = k
  OBVIOUS
<1>2. CASE fast = 0
  BY <1>1, <1>2 DEF LBound, LWant
<1>3. CASE fast # 0
  <2>1. LWant(inf, fast) = <<inf[k]>>
    BY <1>3 DEF LWant
  <2>2. <<inf[k]>> \in Seq(BEntry) /\ Len(<<inf[k]>>) = 1 /\ <<inf[k]>>[1] = inf[k]
    BY <1>1
  <2> QED BY <2>1, <2>2, <1>3 DEF LBound
<1> QED BY <1>2, <1>3

\* An opcode that dyld reads and runs keeps the invariant: eachLazyBind goes on after a
\* DONE, doBindFastLazySymbol stops with the entry bound.
LEMMA LKeepsBind ==
    ASSUME LInv, FewSegments, Binding!Bind
    PROVE  LInv'
<1>1. /\ phase = "dyld" /\ p <= Len(data) /\ kind' = kind /\ offsets' = offsets
      /\ layout' = layout /\ info' = info /\ data' = data
  BY DEF Binding!Bind, Binding!linker, Binding!table
<1>2. kind = "lazy" /\ BTable(kind, layout, info)
  BY DEF LInv
<1>3. PICK at : LEncoded(at) /\ LReading(at)
  BY <1>1 DEF LInv
<1>4. /\ WellFormed(layout) /\ Len(layout) <= Imm + 1 /\ info \in Seq(BEntry) /\ Len(info) \in Nat
      /\ \A k \in 1..Len(info) : BIn("lazy", layout, info[k])
  BY <1>2, LFacts
<1>5. /\ LCode(layout, info, Len(info), data, offsets, at) /\ data \in Seq(Int) /\ Len(data) \in Nat
      /\ LEnd(at, Len(info)) \in Nat
  BY <1>3 DEF LEncoded, LCode
<1>6. LState(dyld) /\ dyld.fast \in 0..Len(info) /\ p \in Nat \ {0} /\ dyld \in BState /\ ~dyld.bad
  BY <1>3 DEF LReading, LState
<1>7. LEncoded(at)'
  BY <1>1, <1>3 DEF LEncoded
<1>8. CASE \E k \in 1..Len(info), j \in 0..4 :
              /\ dyld.fast # 0 => k = dyld.fast
              /\ p = at[k][j] + 1 /\ LAt(layout, info[k], j, dyld)
              /\ BBinds(dyld, LWant(info, dyld.fast), LBound(dyld.fast, k, j))
  <2>1. PICK k \in 1..Len(info), j \in 0..4 :
            /\ dyld.fast # 0 => k = dyld.fast
            /\ p = at[k][j] + 1 /\ LAt(layout, info[k], j, dyld)
            /\ BBinds(dyld, LWant(info, dyld.fast), LBound(dyld.fast, k, j))
    BY <1>8
  <2> DEFINE e == info[k]
             t == at[k]
             o == LOp(layout, e, j + 1)
             r == Binding!Run1("lazy", layout, dyld, o)
             want == LWant(info, dyld.fast)
  <2>2. BIn("lazy", layout, e) /\ LBlock(layout, e, data, t)
    BY <1>4, <1>5 DEF LCode
  <2>3. /\ t[j] \in Nat /\ Binding!Readable(p)
        /\ j < 4 => Binding!OpAt(p) = o
        /\ j = 4 => Binding!OpAt(p).op = "DONE"
        /\ p + 1 + Binding!Cells(o.op) = t[j + 1] + 1
    <3>1. p = t[j] + 1
      BY <2>1 DEF t
    <3> HIDE DEF e, t, o, r, want
    <3>2. /\ t[j] \in Nat /\ t[j] + 1 <= Len(data) /\ Binding!Readable(t[j] + 1)
          /\ j < 4 => Binding!OpAt(t[j] + 1) = LOp(layout, e, j + 1)
          /\ j = 4 => Binding!OpAt(t[j] + 1).op = "DONE"
          /\ t[j] + 1 + 1 + Binding!Cells(LOp(layout, e, j + 1).op) = t[j + 1] + 1
      <4>1. LReadAt(layout, e, t, j)
        BY <2>2, <1>4, <1>5, LReads
      <4> QED BY <4>1 DEF LReadAt
    <3> QED BY <3>1, <3>2, Zenon DEF o
  <2>4. p' = t[j + 1] + 1
    <3>1. Binding!OpAt(p).op = o.op
      <4>1. j = 4 => o = Binding!Done
        BY DEF LOp
      <4>2. j < 4 \/ j = 4
        OBVIOUS
      <4> QED BY <2>3, <4>1, <4>2, BDoneByte
    <3>2. p' = p + 1 + Binding!Cells(Binding!OpAt(p).op)
      BY <2>3 DEF Binding!Bind
    <3> QED BY <2>3, <3>1, <3>2
  <2>5. t[j + 1] \in Nat /\ t[j + 1] > 0
    <3> HIDE DEF t, e, o
    <3>1. j + 1 \in 0..5 /\ j \in 0..5 /\ j + 1 \in 1..5 /\ (j + 1) - 1 = j
      OBVIOUS
    <3>2. t[j + 1] \in Nat
      BY <2>2, <3>1 DEF LBlock
    <3>3. t[j + 1] = t[j] + 1 + Binding!Cells(o.op)
      BY <2>2, <3>1 DEF LBlock, o
    <3>4. Binding!Cells(o.op) \in Nat
      BY <2>2, <3>1, <1>4, LBytes DEF o
    <3> DEFINE x == Binding!Cells(o.op)
               u == t[j]
               w == t[j + 1]
    <3>5. x \in Nat /\ u \in Nat /\ w \in Nat /\ w = u + 1 + x
      BY <2>3, <3>2, <3>3, <3>4
    <3> HIDE DEF x, u, w
    <3>6. w > 0
      BY <3>5
    <3> QED BY <3>2, <3>6 DEF w
  <2>6. p' \in Nat \ {0} /\ p' # 1
    <3> DEFINE w == t[j + 1]
    <3>1. w \in Nat /\ w > 0 /\ p' = w + 1
      BY <2>4, <2>5
    <3> HIDE DEF w
    <3> QED BY <3>1
  <2>7. CASE j < 4
    <3>0. j \in 0..3 /\ j + 1 \in 0..4
      BY <2>7
    <3>1. Binding!Run1(kind, layout, dyld, Binding!OpAt(p)) = r /\ Binding!OpAt(p) = o
      BY <2>3, <2>7, <1>2
    <3>2. /\ o.op # "DONE" /\ LState(r) /\ r.fast = dyld.fast /\ LAt(layout, e, j + 1, r)
          /\ BBinds(r, want, LBound(dyld.fast, k, j + 1))
      <4> DEFINE c == LBound(dyld.fast, k, j)
      <4>1. /\ c \in Nat /\ want[c + 1] = e
            /\ LBound(dyld.fast, k, j + 1) = (IF j = 3 THEN c + 1 ELSE c)
        <5> DEFINE fa == dyld.fast
        <5>1. fa \in 0..Len(info) /\ (fa # 0 => k = fa) /\ j \in 0..3 /\ info \in Seq(BEntry)
          BY <2>1, <3>0, <1>4, <1>6
        <5> HIDE DEF fa, e, t, o, r, want, c
        <5>2. /\ LBound(fa, k, j) \in Nat /\ LWant(info, fa)[LBound(fa, k, j) + 1] = info[k]
              /\ LBound(fa, k, j + 1) = (IF j = 3 THEN LBound(fa, k, j) + 1 ELSE LBound(fa, k, j))
          BY <5>1, LNext, SMT
        <5> QED BY <5>2 DEF fa, e, want, c
      <4>2. BBinds(dyld, want, c) /\ LAt(layout, e, j, dyld) /\ r = Binding!Run1("lazy", layout, dyld, o)
        BY <2>1
      <4> HIDE DEF e, r, want, c
      <4>3. /\ LOp(layout, e, j + 1).op # "DONE" /\ LState(r) /\ r.fast = dyld.fast /\ LAt(layout, e, j + 1, r)
            /\ BBinds(r, want, IF j = 3 THEN c + 1 ELSE c)
        BY <3>0, <2>2, <1>4, <1>6, <4>1, <4>2, LRuns
      <4> QED BY <4>1, <4>3
    <3> HIDE DEF r, o
    <3>3. dyld' = r /\ phase' = "dyld"
      <4>1. ~r.bad
        BY <3>2 DEF LState
      <4> QED BY <4>1, <2>3, <3>1, <3>2, <1>1 DEF Binding!Bind
    <3>4. LReading(at)'
      <4>1. /\ dyld.fast # 0 => k = dyld.fast
            /\ p' = at[k][j + 1] + 1 /\ LAt(layout, info[k], j + 1, r)
            /\ BBinds(r, LWant(info, r.fast), LBound(r.fast, k, j + 1))
        BY <2>1, <2>4, <3>2
      <4> QED BY <4>1, <3>0, <3>2, <3>3, <2>6, <1>1, <1>6 DEF LReading
    <3> QED BY <1>1, <1>2, <1>7, <3>3, <3>4 DEF LInv
  <2>8. CASE j = 4
    <3>1. Binding!Run1(kind, layout, dyld, Binding!OpAt(p)) = dyld /\ Binding!OpAt(p).op = "DONE"
      BY <2>3, <2>8, <1>2, BRunDone
    <3>2. dyld' = dyld /\ phase' = IF dyld.fast # 0 THEN "done" ELSE "dyld"
      BY <1>1, <1>2, <1>6, <2>3, <3>1 DEF Binding!Bind
    <3> DEFINE c == LBound(dyld.fast, k, 4)
    <3>3. /\ dyld.fast # 0 => c = Len(want)
          /\ dyld.fast = 0 => c = k /\ want = info
      <4> DEFINE fa == dyld.fast
      <4>1. fa \in 0..Len(info) /\ (fa # 0 => k = fa) /\ 0 \in 0..3 /\ info \in Seq(BEntry)
        BY <2>1, <1>4, <1>6
      <4> HIDE DEF fa, e, t, o, r, want, c
      <4>2. /\ fa # 0 => LBound(fa, k, 4) = Len(LWant(info, fa))
            /\ fa = 0 => LBound(fa, k, 4) = k
        BY <4>1, LNext, SMT
      <4>3. fa = 0 => LWant(info, fa) = info
        BY DEF LWant
      <4> QED BY <4>2, <4>3 DEF fa, want, c
    <3>4. BBinds(dyld, want, c)
      BY <2>1, <2>8
    <3>5. p' = t[5] + 1
      BY <2>4, <2>8
    <3> HIDE DEF want, c
    <3>6. CASE dyld.fast # 0
      <4>1. BBinds(dyld, want, Len(want)) /\ dyld' = dyld /\ phase' = "done"
        BY <3>2, <3>3, <3>4, <3>6
      <4>2. LReading(at)'
        BY <4>1, <1>1, <1>6, <2>6 DEF LReading, want
      <4> QED BY <1>1, <1>2, <1>7, <4>1, <4>2 DEF LInv
    <3>7. CASE dyld.fast = 0
      <4>1. BBinds(dyld, info, k) /\ dyld' = dyld /\ phase' = "dyld"
        BY <3>2, <3>3, <3>4, <3>7
      <4>2. LEnd(at, k) = t[5]
        BY DEF LEnd
      <4>3. CASE k = Len(info)
        <5>1. p' > LEnd(at, Len(info))
          <6>1. p' = LEnd(at, Len(info)) + 1
            BY <3>5, <4>2, <4>3
          <6> QED BY <6>1, <1>5
        <5>2. LReading(at)'
          BY <4>1, <4>3, <5>1, <3>7, <1>1, <1>6, <2>6 DEF LReading
        <5> QED BY <1>1, <1>2, <1>7, <4>1, <5>2 DEF LInv
      <4>4. CASE k # Len(info)
        <5>1. k + 1 \in 1..Len(info) /\ (k + 1) - 1 = k /\ 0 \in 0..4
          BY <4>4, <1>4
        <5>2. at[k + 1][0] = LEnd(at, k)
          <6>1. at[k + 1][0] = LEnd(at, (k + 1) - 1)
            BY <1>5, <5>1 DEF LCode
          <6> QED BY <6>1, <5>1
        <5>3. p' = at[k + 1][0] + 1
          BY <5>2, <3>5, <4>2
        <5>4. LBound(0, k + 1, 0) = k /\ LWant(info, 0) = info /\ LAt(layout, info[k + 1], 0, dyld)
          BY <5>1 DEF LBound, LWant, LAt
        <5>5. LReading(at)'
          <6>1. /\ dyld.fast # 0 => k + 1 = dyld.fast
                /\ p' = at[k + 1][0] + 1 /\ LAt(layout, info[k + 1], 0, dyld)
                /\ BBinds(dyld, LWant(info, dyld.fast), LBound(dyld.fast, k + 1, 0))
            BY <4>1, <5>3, <5>4, <3>7
          <6> QED BY <6>1, <5>1, <4>1, <1>1, <1>6, <2>6 DEF LReading
        <5> QED BY <1>1, <1>2, <1>7, <4>1, <5>5 DEF LInv
      <4> QED BY <4>3, <4>4
    <3> QED BY <3>6, <3>7
  <2> QED BY <2>7, <2>8
<1>9. CASE dyld.fast = 0 /\ p > LEnd(at, Len(info)) /\ BBinds(dyld, info, Len(info))
  <2> DEFINE en == LEnd(at, Len(info))
  <2>1. p = en + 1 /\ data[p] = 0
    <3>1. Len(data) <= en + 1 /\ (Len(data) > en => data[en + 1] = 0)
      BY <1>3 DEF LEncoded
    <3>2. en \in Nat /\ p > en
      BY <1>5, <1>9
    <3> HIDE DEF en
    <3>3. p = en + 1 /\ Len(data) > en
      BY <3>1, <3>2, <1>1, <1>5, <1>6
    <3> QED BY <3>1, <3>3
  <2>2. Binding!Readable(p) /\ Binding!OpAt(p).op = "DONE"
    BY <2>1, <1>1, <1>5, <1>6, BDecodesPadding
  <2>3. Binding!Run1(kind, layout, dyld, Binding!OpAt(p)) = dyld
    BY <1>2, <2>2, BRunDone
  <2>4. dyld' = dyld /\ phase' = "dyld" /\ p' = p + 1
    <3>1. p' = p + 1 + Binding!Cells("DONE")
      BY <2>2 DEF Binding!Bind
    <3>2. p' = p + 1
      BY <3>1, <1>6, BDoneByte
    <3> QED BY <1>1, <1>2, <1>6, <1>9, <2>2, <2>3, <3>2 DEF Binding!Bind
  <2>5. p' > en /\ p' \in Nat \ {0} /\ p' # 1
    <3>1. en \in Nat
      BY <1>5
    <3> HIDE DEF en
    <3> QED BY <3>1, <2>1, <2>4
  <2>6. LReading(at)'
    BY <1>1, <1>6, <1>9, <2>4, <2>5 DEF LReading
  <2> QED BY <1>1, <1>2, <1>7, <2>4, <2>6 DEF LInv
<1> QED BY <1>1, <1>3, <1>8, <1>9 DEF LReading

\* A call of a stub leads dyld to the entry of its pointer.
LEMMA LKeepsFast ==
    ASSUME LInv, FewSegments, Binding!FastLazy
    PROVE  LInv'
<1>1. /\ phase = "dyld" /\ phase' = phase /\ p = 1 /\ dyld.fast = 0 /\ kind' = kind /\ offsets' = offsets
      /\ layout' = layout /\ info' = info /\ data' = data
  BY DEF Binding!FastLazy, Binding!linker, Binding!table
<1>2. PICK k \in 1..Len(info) : p' = offsets[k] /\ dyld' = [dyld EXCEPT !.fast = k, !.address = 0]
  BY DEF Binding!FastLazy
<1>3. kind = "lazy" /\ BTable(kind, layout, info)
  BY DEF LInv
<1>4. PICK at : LEncoded(at) /\ LReading(at)
  BY <1>1 DEF LInv
<1>5. info \in Seq(BEntry) /\ Len(info) \in Nat
  BY <1>3, LFacts
<1>6. LBlock(layout, info[k], data, at[k]) /\ offsets[k] = at[k][0] + 1
  BY <1>4 DEF LEncoded, LCode
<1>7. LState(dyld) /\ Len(dyld.bound) = 0
  BY <1>1, <1>4 DEF LReading
<1> DEFINE r == [dyld EXCEPT !.fast = k, !.address = 0]
<1>8. LState(r) /\ r.fast = k /\ r.bound = dyld.bound
  <2>1. k \in Nat /\ 0 \in 0..(DyldWord - 1)
    BY <1>5, WidthAssumption
  <2> QED BY <1>7, <2>1 DEF LState, BState
<1> HIDE DEF r
<1>9. dyld' = r /\ p' = at[k][0] + 1
  BY <1>2, <1>6 DEF r
<1>10. p' \in Nat \ {0}
  <2>1. 0 \in 0..5
    OBVIOUS
  <2> DEFINE u == at[k][0]
  <2>2. u \in Nat /\ p' = u + 1
    BY <2>1, <1>6, <1>9 DEF LBlock
  <2> HIDE DEF u
  <2> QED BY <2>2
<1>11. LBound(k, k, 0) = 0 /\ k # 0 /\ 0 \in 0..4 /\ k \in 0..Len(info)
  BY <1>5 DEF LBound
<1>12. BBinds(r, LWant(info, k), 0) /\ LAt(layout, info[k], 0, r)
  BY <1>7, <1>8 DEF BBinds, LAt
<1>13. LEncoded(at)'
  BY <1>1, <1>4 DEF LEncoded
<1>14. LReading(at)'
  <2>1. /\ r.fast # 0 => k = r.fast
        /\ p' = at[k][0] + 1 /\ LAt(layout, info[k], 0, r)
        /\ BBinds(r, LWant(info, r.fast), LBound(r.fast, k, 0))
    BY <1>8, <1>9, <1>11, <1>12
  <2> QED BY <2>1, <1>1, <1>8, <1>9, <1>10, <1>11 DEF LReading
<1> QED BY <1>1, <1>3, <1>13, <1>14 DEF LInv

\* When eachLazyBind comes to the end it has bound everything; doBindFastLazySymbol never
\* comes there.
LEMMA LKeepsEndOfData ==
    ASSUME LInv, FewSegments, Binding!EndOfData
    PROVE  LInv'
<1>1. /\ phase = "dyld" /\ phase' = "done" /\ p > Len(data) /\ kind' = kind /\ offsets' = offsets
      /\ layout' = layout /\ info' = info /\ data' = data /\ dyld' = dyld /\ p' = p
  BY DEF Binding!EndOfData, Binding!linker, Binding!table
<1>2. kind = "lazy" /\ BTable(kind, layout, info)
  BY DEF LInv
<1>3. PICK at : LEncoded(at) /\ LReading(at)
  BY <1>1 DEF LInv
<1>4. /\ WellFormed(layout) /\ Len(layout) <= Imm + 1 /\ info \in Seq(BEntry) /\ Len(info) \in Nat
      /\ \A k \in 1..Len(info) : BIn("lazy", layout, info[k])
  BY <1>2, LFacts
<1>5. LCode(layout, info, Len(info), data, offsets, at) /\ data \in Seq(Int) /\ Len(data) \in Nat
  BY <1>3 DEF LEncoded, LCode
<1>6. \A k \in 1..Len(info) : \A j \in 0..4 : p # at[k][j] + 1
  <2> SUFFICES ASSUME NEW k \in 1..Len(info), NEW j \in 0..4 PROVE p # at[k][j] + 1
    OBVIOUS
  <2> DEFINE t == at[k]
             e == info[k]
  <2>1. BIn("lazy", layout, e) /\ LBlock(layout, e, data, t)
    BY <1>4, <1>5 DEF LCode
  <2> HIDE DEF t, e
  <2>2. LReadAt(layout, e, t, j)
    BY <2>1, <1>4, <1>5, LReads
  <2> DEFINE u == t[j]
  <2>3. u \in Nat /\ u + 1 <= Len(data)
    BY <2>2 DEF LReadAt
  <2> HIDE DEF u
  <2>4. p # u + 1
    BY <2>3, <1>1, <1>5
  <2> QED BY <2>4 DEF u, t
<1>7. dyld.fast = 0 /\ BBinds(dyld, info, Len(info))
  BY <1>1, <1>3, <1>6 DEF LReading
<1>8. LWant(info, 0) = info
  BY DEF LWant
<1>9. LReading(at)'
  BY <1>1, <1>3, <1>7, <1>8 DEF LReading
<1>10. LEncoded(at)'
  BY <1>1, <1>3 DEF LEncoded
<1> QED BY <1>1, <1>2, <1>9, <1>10 DEF LInv

\* The invariant of the lazy table is inductive.
LEMMA LStep ==
    ASSUME LInv, FewSegments, Binding!Next
    PROVE  LInv'
<1>1. kind = "lazy" /\ phase \in {"translate", "dyld", "done"}
  BY DEF LInv
<1>2. ~Binding!Translate /\ ~Binding!EndTranslate /\ ~Binding!Optimize /\ ~Binding!EndPass /\ ~Binding!Convert
  BY <1>1 DEF Binding!Translate, Binding!EndTranslate, Binding!Optimize, Binding!EndPass, Binding!Convert,
              Binding!Passes
<1>3. CASE Binding!Stopped
  BY <1>3 DEF Binding!Stopped, Binding!vars, LInv, LEncoded, LReading
<1> QED BY <1>2, <1>3, LKeepsEntry, LKeepsEnd, LKeepsFast, LKeepsBind, LKeepsEndOfData DEF Binding!Next

\* A table without overrides is bound as a whole.
LEMMA LAll ==
    ASSUME NEW inf \in Seq(BEntry), \A k \in 1..Len(inf) : inf[k].type # 0
    PROVE  BAll(inf) = inf
<1> DEFINE m == Len(inf)
           P(i) == i \in 0..m => BCount(inf, i) = i
<1>1. m \in Nat
  OBVIOUS
<1> HIDE DEF m
<1>2. \A i \in 0..(m - 1) : BCount(inf, i + 1) = BCount(inf, i) + 1 /\ BAll(inf)[BCount(inf, i) + 1] = inf[i + 1]
  <2> TAKE i \in 0..(m - 1)
  <2>1. i \in 0..(Len(inf) - 1) /\ i + 1 \in 1..Len(inf)
    BY <1>1 DEF m
  <2>2. inf[i + 1].type # 0
    BY <2>1
  <2> QED BY <2>1, <2>2, BAllFacts
<1>3. BCount(inf, 0) = 0 /\ BAll(inf) \in Seq(BEntry) /\ BCount(inf, m) = Len(BAll(inf))
  BY BAllFacts DEF m
<1>4. P(0)
  BY <1>3
<1>5. \A i \in Nat : P(i) => P(i + 1)
  <2> SUFFICES ASSUME NEW i \in Nat, P(i), i + 1 \in 0..m PROVE BCount(inf, i + 1) = i + 1
    OBVIOUS
  <2>1. i \in 0..(m - 1) /\ i \in 0..m
    BY <1>1
  <2> QED BY <2>1, <1>2
<1>6. \A i \in Nat : P(i)
  <2> DEFINE T == {j \in Nat : P(j)}
  <2> HIDE DEF P
  <2>1. 0 \in T /\ \A j \in Nat : j \in T => j + 1 \in T
    BY <1>4, <1>5
  <2> HIDE DEF T
  <2>2. Nat \subseteq T
    BY <2>1, SetInduction
  <2> QED BY <2>2 DEF T
<1>7. \A i \in 0..m : BCount(inf, i) = i
  BY <1>6, <1>1 DEF P
<1>8. Len(BAll(inf)) = m
  BY <1>1, <1>3, <1>7
<1>9. \A k \in 1..m : BAll(inf)[k] = inf[k]
  <2> TAKE k \in 1..m
  <2>1. k - 1 \in 0..(m - 1) /\ (k - 1) + 1 = k /\ k - 1 \in 0..m
    BY <1>1
  <2>2. BCount(inf, k - 1) = k - 1
    BY <2>1, <1>7
  <2>3. BAll(inf)[BCount(inf, k - 1) + 1] = inf[(k - 1) + 1]
    BY <2>1, <1>2
  <2> QED BY <2>1, <2>2, <2>3
<1> QED BY <1>3, <1>8, <1>9 DEF m

\* The invariant of the lazy table implies its properties.
LEMMA LImplies ==
    ASSUME LInv, FewSegments
    PROVE  Binding!PassesKeepMeaning /\ Binding!DyldBindsTable /\ Binding!WeakNamesSorted
<1>1. kind = "lazy" /\ BTable(kind, layout, info) /\ phase \in {"translate", "dyld", "done"}
  BY DEF LInv
<1>2. /\ WellFormed(layout) /\ info \in Seq(BEntry) /\ Len(info) \in Nat
      /\ \A k \in 1..Len(info) : BIn("lazy", layout, info[k])
  BY <1>1, LFacts
<1>3. Binding!ToBind(info) = info
  <2>1. \A k \in 1..Len(info) : info[k].type # 0
    BY <1>2 DEF BIn
  <2> QED BY <2>1, <1>2, LAll DEF BAll
<1>4. /\ dyld \in BState /\ dyld.fast \in 0..Len(info)
      /\ \E c \in 0..Len(LWant(info, dyld.fast)) : BBinds(dyld, LWant(info, dyld.fast), c)
      /\ phase = "done" => BBinds(dyld, LWant(info, dyld.fast), Len(LWant(info, dyld.fast)))
  <2>1. CASE phase = "translate"
    <3>1. dyld = Binding!Dyld0("lazy", layout)
      BY <1>1, <2>1 DEF LInv
    <3>2. "lazy" \in BKinds
      BY DEF BKinds
    <3>3. Binding!Dyld0("lazy", layout) \in BStates("lazy", info) /\ BBinds(Binding!Dyld0("lazy", layout), info, 0)
      BY <1>2, <3>2, BDyld0
    <3>4. dyld \in BState /\ dyld.fast = 0 /\ BBinds(dyld, info, 0)
      BY <3>1, <3>3 DEF BStates
    <3>5. LWant(info, 0) = info /\ 0 \in 0..Len(info)
      BY <1>2 DEF LWant
    <3> QED BY <2>1, <3>4, <3>5
  <2>2. CASE phase # "translate"
    <3>1. PICK at : LReading(at)
      BY <2>2 DEF LInv
    <3>2. dyld \in BState /\ dyld.fast \in 0..Len(info)
      BY <3>1 DEF LReading, LState
    <3> DEFINE fa == dyld.fast
               want == LWant(info, fa)
    <3>3. fa \in 0..Len(info) /\ fa \in Nat
      BY <3>2, <1>2
    <3>4. phase = "done" => BBinds(dyld, want, Len(want))
      BY <3>1 DEF LReading
    <3> HIDE DEF fa
    <3>5. want \in Seq(BEntry) /\ Len(want) \in Nat /\ (fa = 0 => want = info) /\ (fa # 0 => Len(want) = 1)
      <4>1. CASE fa = 0
        BY <4>1, <1>2 DEF LWant
      <4>2. CASE fa # 0
        <5>1. info[fa] \in BEntry /\ want = <<info[fa]>>
          BY <4>2, <3>3, <1>2 DEF LWant
        <5> HIDE DEF want
        <5> QED BY <4>2, <5>1
      <4> QED BY <4>1, <4>2
    <3>6. phase = "dyld" => \E c \in 0..Len(want) : BBinds(dyld, want, c)
      <4> SUFFICES ASSUME phase = "dyld" PROVE \E c \in 0..Len(want) : BBinds(dyld, want, c)
        OBVIOUS
      <4>1. \/ \E k \in 1..Len(info), j \in 0..4 : (fa # 0 => k = fa) /\ BBinds(dyld, want, LBound(fa, k, j))
            \/ fa = 0 /\ BBinds(dyld, info, Len(info))
        BY <3>1 DEF LReading, fa
      <4> HIDE DEF want
      <4>2. ASSUME NEW k \in 1..Len(info), NEW j \in 0..4, fa # 0 => k = fa
            PROVE  LBound(fa, k, j) \in 0..Len(want)
        <5> DEFINE a == IF fa = 0 THEN k - 1 ELSE 0
                   b == IF j = 4 THEN 1 ELSE 0
                   w == Len(want)
        <5>1. b \in 0..1 /\ k \in 1..Len(info)
          OBVIOUS
        <5>2. w \in Nat /\ (fa = 0 => a \in 0..(w - 1)) /\ (fa # 0 => a = 0 /\ w = 1)
          BY <3>5, <1>2
        <5>3. LBound(fa, k, j) = a + b
          BY DEF LBound
        <5> HIDE DEF a, b, w
        <5>4. a + b \in 0..w
          BY <5>1, <5>2
        <5> QED BY <5>3, <5>4 DEF w
      <4>3. Len(want) \in 0..Len(want)
        BY <3>5
      <4> QED BY <4>1, <4>2, <4>3, <3>5
    <3>7. phase = "done" => \E c \in 0..Len(want) : BBinds(dyld, want, c)
      <4> HIDE DEF want
      <4>1. Len(want) \in 0..Len(want)
        BY <3>5
      <4> QED BY <4>1, <3>4
    <3> QED BY <3>2, <3>4, <3>6, <3>7, <1>1, <2>2 DEF fa
  <2> QED BY <2>1, <2>2
<1> DEFINE fa == dyld.fast
           want == LWant(info, fa)
           all == Binding!Tuples(Binding!ToBind(info))
<1>5. fa \in 0..Len(info) /\ fa \in Nat
  BY <1>4, <1>2
<1>6. PICK c \in 0..Len(want) : BBinds(dyld, want, c)
  BY <1>4
<1>7. phase = "done" => BBinds(dyld, want, Len(want))
  BY <1>4
<1> HIDE DEF fa
<1>8. want \in Seq(BEntry) /\ Len(want) \in Nat
  <2>1. CASE fa = 0
    BY <2>1, <1>2 DEF LWant
  <2>2. CASE fa # 0
    <3>1. info[fa] \in BEntry /\ want = <<info[fa]>>
      BY <2>2, <1>5, <1>2 DEF LWant
    <3> HIDE DEF want
    <3> QED BY <2>2, <3>1
  <2> QED BY <2>1, <2>2
<1>9. Binding!Tuples(want) = IF fa = 0 THEN all ELSE <<all[fa]>>
  <2>1. CASE fa = 0
    BY <2>1, <1>3 DEF LWant
  <2>2. CASE fa # 0
    <3>1. want = <<info[fa]>> /\ fa \in 1..Len(info)
      BY <2>2, <1>5, <1>2 DEF LWant
    <3>2. all[fa] = Binding!Tuple(info[fa])
      BY <3>1, <1>3 DEF Binding!Tuples
    <3>3. Binding!Tuples(<<info[fa]>>) = <<Binding!Tuple(info[fa])>>
      BY DEF Binding!Tuples
    <3> QED BY <2>2, <3>1, <3>2, <3>3
  <2> QED BY <2>1, <2>2
<1> HIDE DEF want
<1>10. Binding!Begins(Binding!Tuples(dyld.bound), Binding!Tuples(want))
  BY <1>4, <1>6, <1>8, BTuplesPrefix
<1>11. phase = "done" => Binding!Tuples(dyld.bound) = Binding!Tuples(want)
  <2>1. Len(want) \in 0..Len(want)
    BY <1>8
  <2> QED BY <2>1, <1>4, <1>7, <1>8, BTuplesPrefix
<1>12. phase # "threw"
  BY <1>1
<1>13. Binding!DyldBindsTable
  BY <1>9, <1>10, <1>11, <1>12, Zenon DEF Binding!DyldBindsTable, fa
<1> QED BY <1>1, <1>13 DEF Binding!PassesKeepMeaning, Binding!WeakNamesSorted

(****************************************************************************)
(* The theorems                                                             *)
(****************************************************************************)

\* The inductive invariant of the link edit tables.
IInv ==
    /\ kind \in {"rebase", "bind", "weak", "lazy"}
    /\ IsRebase => RInv
    /\ kind \in {"bind", "weak"} => BInv
    /\ kind = "lazy" => LInv

\* The invariant holds at first: the table is one of the four.
LEMMA IInvInit ==
    ASSUME Init
    PROVE  IInv
<1>1. CASE Binding!Init
  <2>1. kind \in {"bind", "weak", "lazy"}
    BY <1>1, TablesAssumption DEF Binding!Init
  <2> QED BY <1>1, <2>1, BInit, LInit DEF IInv, IsRebase
<1>2. CASE IsRebase /\ Rebasing!Init
  BY <1>2, RInit DEF IInv, IsRebase
<1> QED BY <1>1, <1>2 DEF Init

\* The invariant is inductive: a behaviour stays with its table.
LEMMA IInvStep ==
    ASSUME IInv, [Next]_vars, FewSegments, Gaps
    PROVE  IInv'
<1>1. CASE IsRebase /\ Rebasing!Next /\ UNCHANGED <<kind, col, offsets>>
  <2>1. RInv'
    BY <1>1, RStep DEF IInv
  <2> QED BY <1>1, <2>1 DEF IInv, IsRebase
<1>2. CASE ~IsRebase /\ Binding!Next
  <2>1. kind' = kind
    BY <1>2, BKeepsKind
  <2>2. kind \in {"bind", "weak"} => BInv'
    BY <1>2, BStep DEF IInv
  <2>3. kind = "lazy" => LInv'
    BY <1>2, LStep DEF IInv
  <2> QED BY <1>2, <2>1, <2>2, <2>3 DEF IInv, IsRebase
<1>3. CASE UNCHANGED vars
  BY <1>3 DEF vars, Binding!vars, IInv, IsRebase, RInv, RTranslating, RPassing, RReading,
              BInv, BTranslating, BPassing, BReading, LInv, LEncoded, LReading
<1> QED BY <1>1, <1>2, <1>3 DEF Next

\* The invariant holds of every state that ld and dyld reach.
LEMMA Inductive ==
    ASSUME FewSegments, Gaps
    PROVE  Spec => []IInv
<1>1. Init => IInv
  BY IInvInit
<1>2. IInv /\ [Next]_vars => IInv'
  BY IInvStep
<1> QED BY <1>1, <1>2, PTL DEF Spec

\* At every step of encode, of the translation and of each pass over the array, the opcodes
\* of the rebase, the bind and the weak table mean exactly the entries translated so far:
\* for every table, of any length, whatever the sizes of words, pages and immediates.
THEOREM LinkEditPassesKeepMeaning ==
    ASSUME FewSegments, Gaps
    PROVE  Spec => []PassesKeepMeaning
<1>1. IInv => PassesKeepMeaning
  BY RImplies, BImplies, LImplies DEF IInv, PassesKeepMeaning, IsRebase
<1> QED BY <1>1, Inductive, PTL

\* dyld's loops rebase and bind exactly the pointers of the table that ld encoded, in its
\* order, never throw, and have done all of them when they stop; a stub's call binds its
\* own pointer only.
THEOREM LinkEditDyldReadsTable ==
    ASSUME FewSegments, Gaps
    PROVE  Spec => []DyldReadsTable
<1>1. IInv => DyldReadsTable
  BY RImplies, BImplies, LImplies DEF IInv, DyldReadsTable, IsRebase
<1> QED BY <1>1, Inductive, PTL

\* While the weak binding reads the table, the names it has come to are in ascending order,
\* each once, and the flag for a definition that is not weak is set for the symbols that
\* are overridden here and no other.
THEOREM LinkEditWeakNamesSorted ==
    ASSUME FewSegments, Gaps
    PROVE  Spec => []WeakNamesSorted
<1>1. IInv => WeakNamesSorted
  BY BImplies, LImplies DEF IInv, WeakNamesSorted, IsRebase
<1> QED BY <1>1, Inductive, PTL
=============================================================================
