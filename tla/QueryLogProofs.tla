--------------------------- MODULE QueryLogProofs ---------------------------
(***************************************************************************)
(* What is logged of a query, for every query: sets in order, the order of *)
(* keys, and escaping that is undone by decoding.                          *)
(***************************************************************************)
EXTENDS RequestRules, SumTheorems, TLAPS

-----------------------------------------------------------------------------
(* Sets in order *)

TotalOn(S, R) ==
  /\ \A x \in S : <<x, x>> \notin R
  /\ \A x, y, z \in S : <<x, y>> \in R /\ <<y, z>> \in R => <<x, z>> \in R
  /\ \A x, y \in S : x # y => <<x, y>> \in R \/ <<y, x>> \in R

\* A later element has more before it.
LEMMA RankGrows ==
  ASSUME NEW S, IsFiniteSet(S), NEW R, TotalOn(S, R), NEW x \in S
  PROVE  /\ Rank(S, R, x) \in Nat /\ Cardinality(S) \in Nat /\ Rank(S, R, x) < Cardinality(S)
         /\ \A y \in S : <<x, y>> \in R => Rank(S, R, x) < Rank(S, R, y)
<1> DEFINE Below(y) == {z \in S : <<z, y>> \in R}
<1>1. ASSUME NEW y \in S
      PROVE  /\ Below(y) \in SUBSET S /\ IsFiniteSet(Below(y))
             /\ Cardinality(Below(y)) \in Nat /\ Rank(S, R, y) = Cardinality(Below(y))
  <2>1. Below(y) \in SUBSET S
    OBVIOUS
  <2>2. IsFiniteSet(Below(y))
    BY <2>1, FS_Subset
  <2> QED  BY <2>1, <2>2, FS_CardinalityType DEF Rank
<1>2. Cardinality(S) \in Nat
  BY FS_CardinalityType
<1>3. x \notin Below(x)
  BY DEF TotalOn
<1>4. Rank(S, R, x) < Cardinality(S)
  <2>1. Below(x) \in SUBSET S /\ Below(x) # S
    BY <1>3
  <2> HIDE DEF Below
  <2>2. Cardinality(Below(x)) <= Cardinality(S) /\ Cardinality(Below(x)) # Cardinality(S)
    BY <2>1, FS_Subset
  <2> QED  BY <1>1, <1>2, <2>2
<1>5. ASSUME NEW y \in S, <<x, y>> \in R PROVE Rank(S, R, x) < Rank(S, R, y)
  <2>1. Below(x) \in SUBSET Below(y) /\ Below(x) # Below(y)
    <3>1. \A z \in Below(x) : z \in Below(y)
      BY <1>5 DEF TotalOn
    <3>2. x \in Below(y)
      BY <1>5
    <3> HIDE DEF Below
    <3> QED  BY <1>3, <3>1, <3>2
  <2> HIDE DEF Below
  <2>2. IsFiniteSet(Below(y))
    BY <1>1
  <2>3. Cardinality(Below(x)) <= Cardinality(Below(y)) /\ Cardinality(Below(x)) # Cardinality(Below(y))
    BY <2>1, <2>2, FS_Subset
  <2> QED  BY <1>1, <2>3
<1> HIDE DEF Below
<1> QED  BY <1>1, <1>2, <1>4, <1>5

\* Elements differ in rank.
LEMMA RankApart ==
  ASSUME NEW S, IsFiniteSet(S), NEW R, TotalOn(S, R), NEW x \in S, NEW y \in S,
         Rank(S, R, x) = Rank(S, R, y)
  PROVE  x = y
<1> SUFFICES ASSUME x # y PROVE FALSE
  OBVIOUS
<1>1. <<x, y>> \in R \/ <<y, x>> \in R
  BY DEF TotalOn
<1>2. Rank(S, R, x) < Rank(S, R, y) \/ Rank(S, R, y) < Rank(S, R, x)
  BY <1>1, RankGrows
<1>3. Rank(S, R, x) \in Nat
  BY RankGrows
<1> QED  BY <1>2, <1>3

\* In the order of a total relation every element has its place, the one its
\* rank says.
LEMMA Ordered ==
  ASSUME NEW S, IsFiniteSet(S), NEW R, TotalOn(S, R), NEW o, o = InOrder(S, R)
  PROVE  /\ Cardinality(S) \in Nat /\ DOMAIN o = 1 .. Cardinality(S)
         /\ \A k \in DOMAIN o : o[k] \in S /\ Rank(S, R, o[k]) = k - 1
         /\ \A x \in S : \E k \in DOMAIN o : o[k] = x
         /\ \A k, l \in DOMAIN o : k < l => <<o[k], o[l]>> \in R
<1> DEFINE n == Cardinality(S)
           rank == [x \in S |-> Rank(S, R, x)]
           ranks == {Rank(S, R, x) : x \in S}
<1>1. n \in Nat
  BY FS_CardinalityType
<1>2. \A x \in S : Rank(S, R, x) \in 0 .. (n - 1)
  BY <1>1, RankGrows
<1>3. rank \in Bijection(S, ranks)
  <2>1. \A x, y \in S : rank[x] = rank[y] => x = y
    BY RankApart
  <2>2. rank \in [S -> ranks] /\ \A r \in ranks : \E x \in S : rank[x] = r
    OBVIOUS
  <2> QED  BY <2>1, <2>2 DEF Bijection, Injection, Surjection, IsInjective
<1>4. ranks = 0 .. (n - 1)
  <2>1. ranks \in SUBSET (0 .. (n - 1))
    BY <1>2
  <2>2. IsFiniteSet(0 .. (n - 1)) /\ Cardinality(0 .. (n - 1)) = n
    BY <1>1, FS_Interval
  <2> HIDE DEF ranks, rank
  <2>3. Cardinality(ranks) = Cardinality(S)
    BY <1>3, FS_Bijection DEF ExistsBijection
  <2> HIDE DEF n
  <2>4. Cardinality(ranks) = Cardinality(0 .. (n - 1))
    BY <2>2, <2>3 DEF n
  <2> QED  BY <2>1, <2>2, <2>4, FS_Subset
<1>5. DOMAIN o = 1 .. n
  BY DEF InOrder
<1>6. ASSUME NEW k \in 1 .. n PROVE o[k] \in S /\ Rank(S, R, o[k]) = k - 1
  <2>1. k - 1 \in 0 .. (n - 1)
    BY <1>1
  <2>2. \E x \in S : Rank(S, R, x) = k - 1
    BY <1>4, <2>1
  <2>3. o[k] = CHOOSE x \in S : Rank(S, R, x) = k - 1
    BY DEF InOrder
  <2> QED  BY <2>2, <2>3, Zenon
<1>7. ASSUME NEW x \in S PROVE \E k \in 1 .. n : o[k] = x
  <2> DEFINE k == Rank(S, R, x) + 1
  <2>1. k \in 1 .. n /\ k - 1 = Rank(S, R, x)
    BY <1>1, <1>2
  <2> HIDE DEF k
  <2>2. o[k] \in S /\ Rank(S, R, o[k]) = Rank(S, R, x)
    BY <1>6, <2>1
  <2>3. o[k] = x
    BY <2>2, RankApart
  <2> QED  BY <2>1, <2>3
<1>8. ASSUME NEW k \in 1 .. n, NEW l \in 1 .. n, k < l PROVE <<o[k], o[l]>> \in R
  <2>1. /\ o[k] \in S /\ Rank(S, R, o[k]) = k - 1 /\ o[l] \in S /\ Rank(S, R, o[l]) = l - 1
    BY <1>6
  <2>2. o[k] # o[l]
    BY <1>8, <2>1
  <2>3. <<o[k], o[l]>> \in R \/ <<o[l], o[k]>> \in R
    BY <2>1, <2>2 DEF TotalOn
  <2>4. ~(<<o[l], o[k]>> \in R)
    <3> SUFFICES ASSUME <<o[l], o[k]>> \in R PROVE FALSE
      OBVIOUS
    <3>1. Rank(S, R, o[l]) < Rank(S, R, o[k])
      BY <2>1, RankGrows
    <3> QED  BY <1>8, <2>1, <3>1
  <2> QED  BY <2>3, <2>4
<1> HIDE DEF n
<1>9. \A k \in DOMAIN o : o[k] \in S /\ Rank(S, R, o[k]) = k - 1
  BY <1>5, <1>6
<1>10. \A x \in S : \E k \in DOMAIN o : o[k] = x
  BY <1>5, <1>7
<1>11. \A k, l \in DOMAIN o : k < l => <<o[k], o[l]>> \in R
  BY <1>5, <1>8
<1> QED  BY <1>1, <1>5, <1>9, <1>10, <1>11 DEF n

\* Numbers in their own order.
LEMMA LessTotal ==
  ASSUME NEW S \in SUBSET Nat
  PROVE  TotalOn(S, Less(S)) /\ \A x, y \in S : <<x, y>> \in Less(S) <=> x < y
<1>1. \A x, y \in S : <<x, y>> \in Less(S) <=> x < y
  BY DEF Less
<1>2. \A x, y \in S : x \in Nat /\ y \in Nat
  OBVIOUS
<1>3. TotalOn(S, Less(S))
  <2>1. \A x \in S : <<x, x>> \notin Less(S)
    BY <1>1, <1>2
  <2>2. \A x, y, z \in S : <<x, y>> \in Less(S) /\ <<y, z>> \in Less(S) => <<x, z>> \in Less(S)
    BY <1>1, <1>2
  <2>3. \A x, y \in S : x # y => <<x, y>> \in Less(S) \/ <<y, x>> \in Less(S)
    BY <1>1, <1>2
  <2> QED  BY <2>1, <2>2, <2>3 DEF TotalOn
<1> QED  BY <1>1, <1>3

\* An increasing bijection takes the elements of one set of numbers, in order,
\* to those of the other.
LEMMA SameOrder ==
  ASSUME NEW A \in SUBSET Nat, IsFiniteSet(A), NEW B \in SUBSET Nat, NEW f \in [A -> B],
         \A b \in B : \E a \in A : f[a] = b,
         \A x, y \in A : x < y => f[x] < f[y]
  PROVE  LET p == InOrder(A, Less(A))
             q == InOrder(B, Less(B))
         IN  DOMAIN p = DOMAIN q /\ \A k \in DOMAIN p : p[k] \in A /\ q[k] = f[p[k]]
<1> DEFINE p == InOrder(A, Less(A))
           q == InOrder(B, Less(B))
<1>1. \A x, y \in A : x \in Nat /\ y \in Nat /\ f[x] \in B /\ f[x] \in Nat /\ f[y] \in Nat
  OBVIOUS
<1>2. \A x, y \in A : x < y <=> f[x] < f[y]
  BY <1>1
<1>3. \A x, y \in A : f[x] = f[y] => x = y
  BY <1>1
<1>4. f \in Bijection(A, B)
  BY <1>3 DEF Bijection, Injection, Surjection, IsInjective
<1>5. IsFiniteSet(B) /\ Cardinality(B) = Cardinality(A)
  BY <1>4, FS_Bijection DEF ExistsBijection
<1>6. TotalOn(A, Less(A)) /\ TotalOn(B, Less(B))
  BY LessTotal
<1>7. ASSUME NEW x \in A PROVE Rank(B, Less(B), f[x]) = Rank(A, Less(A), x)
  <2> DEFINE U == {y \in A : <<y, x>> \in Less(A)}
             V == {y \in B : <<y, f[x]>> \in Less(B)}
             g == [y \in U |-> f[y]]
  <2>1. \A y \in A : y \in U <=> y < x
    BY LessTotal
  <2>2. \A y \in B : y \in V <=> y < f[x]
    BY <1>1, LessTotal
  <2>3. \A y \in A : y \in U <=> f[y] \in V
    BY <1>1, <1>2, <2>1, <2>2
  <2>4. U \in SUBSET A /\ V \in SUBSET B
    OBVIOUS
  <2> HIDE DEF U, V
  <2>5. g \in [U -> V]
    BY <2>3, <2>4
  <2>6. \A v \in V : \E y \in U : g[y] = v
    BY <2>3, <2>4
  <2>7. \A y, z \in U : g[y] = g[z] => y = z
    BY <1>3, <2>4
  <2>8. g \in Bijection(U, V)
    BY <2>5, <2>6, <2>7 DEF Bijection, Injection, Surjection, IsInjective
  <2>9. IsFiniteSet(U)
    BY <2>4, FS_Subset
  <2> HIDE DEF g
  <2>10. Cardinality(V) = Cardinality(U)
    BY <2>8, <2>9, FS_Bijection DEF ExistsBijection
  <2> QED  BY <2>10 DEF Rank, U, V
<1>8. /\ DOMAIN p = 1 .. Cardinality(A)
      /\ \A k \in DOMAIN p : p[k] \in A /\ Rank(A, Less(A), p[k]) = k - 1
  BY <1>6, Ordered
<1>9. /\ DOMAIN q = 1 .. Cardinality(B)
      /\ \A k \in DOMAIN q : q[k] \in B /\ Rank(B, Less(B), q[k]) = k - 1
  BY <1>5, <1>6, Ordered
<1> HIDE DEF p, q
<1>10. DOMAIN p = DOMAIN q
  BY <1>5, <1>8, <1>9
<1>11. ASSUME NEW k \in DOMAIN p PROVE p[k] \in A /\ q[k] = f[p[k]]
  <2>1. p[k] \in A /\ f[p[k]] \in B /\ q[k] \in B
    BY <1>1, <1>8, <1>9, <1>10
  <2>2. Rank(B, Less(B), f[p[k]]) = k - 1 /\ Rank(B, Less(B), q[k]) = k - 1
    BY <1>7, <1>8, <1>9, <1>10, <2>1
  <2>3. Rank(B, Less(B), f[p[k]]) = Rank(B, Less(B), q[k])
    BY <2>2
  <2> QED  BY <1>5, <1>6, <2>1, <2>3, RankApart
<1> QED  BY <1>10, <1>11 DEF p, q

-----------------------------------------------------------------------------
(* The order of keys *)

\* SelectInSeq of an operator finds one of the places, if there are any.
LEMMA FirstIndex ==
  ASSUME NEW n \in Nat, NEW I \in SUBSET (1 .. n), NEW f, f = IF I # {} THEN Min(I) ELSE 0
  PROVE  IF I = {} THEN f = 0 ELSE f \in I /\ f # 0
<1>1. CASE I = {}
  BY <1>1
<1>2. CASE I # {}
  <2>1. I \in SUBSET Nat
    OBVIOUS
  <2>2. \E m \in I : \A i \in I : m <= i
    BY <1>2, <2>1, LeastOf
  <2>3. Min(I) \in I
    BY <2>2, Zenon DEF Min
  <2>4. f \in I
    BY <1>2, <2>3
  <2> QED  BY <1>2, <2>4
<1> QED  BY <1>1, <1>2

Symbols == ToSet(ByteOrder)

\* A symbol of a key has a place of its own among the bytes.
LEMMA Placed ==
  ASSUME NEW c \in Symbols
  PROVE  Position(c) \in Nat /\ Position(c) \in DOMAIN ByteOrder /\ ByteOrder[Position(c)] = c
<1> DEFINE n == Len(ByteOrder)
           I == {i \in 1 .. n : ByteOrder[i] = c}
<1>1. n \in Nat /\ DOMAIN ByteOrder = 1 .. n
  BY ByteOrderAssumption
<1>2. I # {}
  BY <1>1 DEF Symbols, ToSet
<1>3. Position(c) = IF I # {} THEN Min(I) ELSE 0
  BY DEF Position, SelectInSeq
<1>4. I \in SUBSET (1 .. n)
  OBVIOUS
<1> HIDE DEF I, n
<1>5. Position(c) \in I
  BY <1>1, <1>2, <1>3, <1>4, FirstIndex
<1> QED  BY <1>1, <1>5 DEF I

\* No key is before itself, and of two others one is before the other.
LEMMA KeysOrdered ==
  ASSUME NEW a \in Seq(Symbols), NEW b \in Seq(Symbols), NEW c \in Seq(Symbols)
  PROVE  /\ ~KeyBefore(a, a)
         /\ KeyBefore(a, b) /\ KeyBefore(b, c) => KeyBefore(a, c)
         /\ a # b => KeyBefore(a, b) \/ KeyBefore(b, a)
<1>1. ASSUME NEW s \in Seq(Symbols)
      PROVE  Len(s) \in Nat /\ \A i \in 1 .. Len(s) : Position(s[i]) \in Nat
  BY Placed
<1>2. ~KeyBefore(a, a)
  BY <1>1 DEF KeyBefore
<1>3. ASSUME KeyBefore(a, b), KeyBefore(b, c) PROVE KeyBefore(a, c)
  <2>1. PICK n \in 0 .. Len(a) : /\ n < Len(b) /\ \A i \in 1 .. n : a[i] = b[i]
                                 /\ n < Len(a) => Position(a[n + 1]) < Position(b[n + 1])
    BY <1>3 DEF KeyBefore
  <2>2. PICK m \in 0 .. Len(b) : /\ m < Len(c) /\ \A i \in 1 .. m : b[i] = c[i]
                                 /\ m < Len(b) => Position(b[m + 1]) < Position(c[m + 1])
    BY <1>3 DEF KeyBefore
  <2>3. CASE n < m
    <3>1. n < Len(c) /\ n + 1 \in 1 .. m /\ \A i \in 1 .. n : i \in 1 .. m
      BY <1>1, <2>2, <2>3
    <3>2. b[n + 1] = c[n + 1] /\ \A i \in 1 .. n : a[i] = c[i]
      BY <2>1, <2>2, <3>1
    <3> QED  BY <2>1, <3>1, <3>2 DEF KeyBefore
  <2>4. CASE n = m
    <3>1. n < Len(c) /\ \A i \in 1 .. n : a[i] = c[i]
      BY <2>1, <2>2, <2>4
    <3>2. n < Len(a) => Position(a[n + 1]) < Position(c[n + 1])
      <4> SUFFICES ASSUME n < Len(a) PROVE Position(a[n + 1]) < Position(c[n + 1])
        OBVIOUS
      <4>1. n + 1 \in 1 .. Len(a) /\ n + 1 \in 1 .. Len(b) /\ n + 1 \in 1 .. Len(c)
        BY <1>1, <2>1, <3>1
      <4>2. Position(a[n + 1]) < Position(b[n + 1]) /\ Position(b[n + 1]) < Position(c[n + 1])
        BY <2>1, <2>2, <2>4
      <4>3. /\ Position(a[n + 1]) \in Nat /\ Position(b[n + 1]) \in Nat
            /\ Position(c[n + 1]) \in Nat
        BY <1>1, <4>1
      <4> QED  BY <4>2, <4>3
    <3> QED  BY <3>1, <3>2 DEF KeyBefore
  <2>5. CASE m < n
    <3>1. m \in 0 .. Len(a) /\ m < Len(b) /\ m + 1 \in 1 .. n /\ \A i \in 1 .. m : i \in 1 .. n
      BY <1>1, <2>1, <2>2, <2>5
    <3>2. a[m + 1] = b[m + 1] /\ \A i \in 1 .. m : a[i] = c[i]
      BY <2>1, <2>2, <3>1
    <3> QED  BY <2>2, <3>1, <3>2 DEF KeyBefore
  <2> QED  BY <1>1, <2>3, <2>4, <2>5
<1>4. ASSUME a # b PROVE KeyBefore(a, b) \/ KeyBefore(b, a)
  <2> DEFINE D == {i \in 1 .. Len(a) : i <= Len(b) /\ a[i] # b[i]}
  <2>1. CASE D # {}
    <3>1. D \in SUBSET Nat
      OBVIOUS
    <3>2. PICK d \in D : \A i \in D : d <= i
      <4> HIDE DEF D
      <4> QED  BY <2>1, <3>1, LeastOf
    <3> DEFINE n == d - 1
    <3>3. /\ n \in 0 .. Len(a) /\ n \in 0 .. Len(b) /\ n < Len(a) /\ n < Len(b) /\ n + 1 = d
          /\ d \in 1 .. Len(a) /\ d \in 1 .. Len(b) /\ a[d] # b[d]
      BY <1>1
    <3>4. \A i \in 1 .. n : a[i] = b[i]
      <4> SUFFICES ASSUME NEW i \in 1 .. n PROVE a[i] = b[i]
        OBVIOUS
      <4>1. i \in 1 .. Len(a) /\ i <= Len(b) /\ ~(d <= i)
        BY <1>1, <3>3
      <4> QED  BY <3>2, <4>1
    <3>5. Position(a[d]) # Position(b[d])
      <4>1. a[d] \in Symbols /\ b[d] \in Symbols
        BY <3>3
      <4> QED  BY <3>3, <4>1, Placed
    <3>6. Position(a[d]) < Position(b[d]) \/ Position(b[d]) < Position(a[d])
      BY <1>1, <3>3, <3>5
    <3> HIDE DEF n
    <3> QED  BY <3>3, <3>4, <3>6 DEF KeyBefore
  <2>2. CASE D = {}
    <3>1. \A i \in 1 .. Len(a) : i <= Len(b) => a[i] = b[i]
      BY <2>2
    <3>2. Len(a) # Len(b)
      <4> SUFFICES ASSUME Len(a) = Len(b) PROVE FALSE
        OBVIOUS
      <4>1. \A i \in 1 .. Len(a) : a[i] = b[i]
        BY <1>1, <3>1
      <4> QED  BY <1>4, <4>1
    <3>3. CASE Len(a) < Len(b)
      <4>1. \A i \in 1 .. Len(a) : a[i] = b[i]
        BY <1>1, <3>1, <3>3
      <4>2. Len(a) \in {m \in 0 .. Len(a) : m < Len(b)} /\ ~(Len(a) < Len(a))
        BY <1>1, <3>3
      <4> QED  BY <4>1, <4>2, Zenon DEF KeyBefore
    <3>4. CASE Len(b) < Len(a)
      <4>1. \A i \in 1 .. Len(b) : b[i] = a[i]
        BY <1>1, <3>1, <3>4
      <4> QED  BY <1>1, <3>4, <4>1 DEF KeyBefore
    <3> QED  BY <1>1, <3>2, <3>3, <3>4
  <2> QED  BY <2>1, <2>2
<1> QED  BY <1>2, <1>3, <1>4

\* The pairs that stay are finitely many, and in one order.
LEMMA LogOrder ==
  ASSUME NEW query, NEW n \in Nat, DOMAIN query = 1 .. n,
         \A i \in 1 .. n : Pair(query[i]).key \in Seq(Symbols)
  PROVE  /\ Retained(query) \in SUBSET (1 .. n) /\ IsFiniteSet(Retained(query))
         /\ TotalOn(Retained(query), SortedByKey(query))
<1> DEFINE S == Retained(query)
           R == SortedByKey(query)
           key(i) == Pair(query[i]).key
<1>1. S \in SUBSET (1 .. n)
  BY DEF Retained
<1>2. IsFiniteSet(1 .. n)
  BY FS_Interval
<1>3. IsFiniteSet(S)
  <2> HIDE DEF S
  <2> QED  BY <1>1, <1>2, FS_Subset
<1>4. \A x, y \in S : <<x, y>> \in R <=> KeyBefore(key(x), key(y)) \/ (key(x) = key(y) /\ x < y)
  BY DEF SortedByKey
<1>5. \A x \in S : x \in Nat /\ key(x) \in Seq(Symbols)
  BY <1>1
<1> HIDE DEF S, R, key
<1>6. \A x \in S : ~(<<x, x>> \in R)
  BY <1>4, <1>5, KeysOrdered
<1>7. \A x, y \in S : x # y => <<x, y>> \in R \/ <<y, x>> \in R
  BY <1>4, <1>5, KeysOrdered
<1>8. ASSUME NEW x \in S, NEW y \in S, NEW z \in S, <<x, y>> \in R, <<y, z>> \in R
      PROVE  <<x, z>> \in R
  <2>1. /\ x \in Nat /\ y \in Nat /\ z \in Nat
        /\ key(x) \in Seq(Symbols) /\ key(y) \in Seq(Symbols) /\ key(z) \in Seq(Symbols)
    BY <1>5
  <2>2. KeyBefore(key(x), key(y)) /\ KeyBefore(key(y), key(z)) => KeyBefore(key(x), key(z))
    BY <2>1, KeysOrdered
  <2>3. /\ KeyBefore(key(x), key(y)) \/ (key(x) = key(y) /\ x < y)
        /\ KeyBefore(key(y), key(z)) \/ (key(y) = key(z) /\ y < z)
    BY <1>4, <1>8
  <2>4. x < y /\ y < z => x < z
    BY <2>1
  <2>5. KeyBefore(key(x), key(z)) \/ (key(x) = key(z) /\ x < z)
    BY <2>2, <2>3, <2>4, Zenon
  <2> QED  BY <1>4, <2>5
<1>9. TotalOn(S, R)
  BY <1>6, <1>7, <1>8 DEF TotalOn
<1> QED  BY <1>1, <1>3, <1>9 DEF S, R

-----------------------------------------------------------------------------
(* Escaping *)

\* What decoding can leave: bytes that are escaped, and symbols that are not an
\* escape themselves.
NoEscape(c) == c \in DOMAIN EscapedByte \/ \A s \in DOMAIN EscapedByte : EscapedByte[s] # c

\* Two bytes are not escaped the same way, and an escape is not a byte itself.
LEMMA EscapesApart ==
  /\ {" ", "%", "+", ";"} \in SUBSET DOMAIN EscapedByte
  /\ \A s, t \in DOMAIN EscapedByte : EscapedByte[s] = EscapedByte[t] => s = t
  /\ \A s \in DOMAIN EscapedByte : EscapedByte[s] \notin DOMAIN EscapedByte
<1>1. DOMAIN EscapedByte = {" ", "%", "&", "+", ";", "="}
  BY DEF EscapedByte
<1>2. /\ EscapedByte[" "] = "%20" /\ EscapedByte["%"] = "%25" /\ EscapedByte["&"] = "%26"
      /\ EscapedByte["+"] = "%2B" /\ EscapedByte[";"] = "%3B" /\ EscapedByte["="] = "%3D"
  BY DEF EscapedByte
<1>3. {" ", "%", "+", ";"} \in SUBSET DOMAIN EscapedByte
  BY <1>1
<1>4. \A s, t \in DOMAIN EscapedByte : EscapedByte[s] = EscapedByte[t] => s = t
  BY <1>1, <1>2
<1>5. \A s \in DOMAIN EscapedByte : EscapedByte[s] \notin DOMAIN EscapedByte
  BY <1>1, <1>2
<1> QED  BY <1>3, <1>4, <1>5

\* Decoding one symbol.
LEMMA Unescapes ==
  /\ \A s \in DOMAIN EscapedByte : Unescaped(EscapedByte[s]) = s
  /\ \A c : (\A s \in DOMAIN EscapedByte : EscapedByte[s] # c) =>
       Unescaped(c) = IF c = "+" THEN " " ELSE c
  /\ \A c : NoEscape(Unescaped(c))
<1>1. ASSUME NEW s \in DOMAIN EscapedByte PROVE Unescaped(EscapedByte[s]) = s
  <2> DEFINE t == CHOOSE t \in DOMAIN EscapedByte : EscapedByte[t] = EscapedByte[s]
  <2>1. t \in DOMAIN EscapedByte /\ EscapedByte[t] = EscapedByte[s]
    BY Zenon
  <2>2. Unescaped(EscapedByte[s]) = t
    <3>1. EscapedByte[s] # "+"
      BY EscapesApart
    <3>2. \E u \in DOMAIN EscapedByte : EscapedByte[u] = EscapedByte[s]
      OBVIOUS
    <3> QED  BY <3>1, <3>2 DEF Unescaped
  <2> HIDE DEF t
  <2>3. t = s
    BY <2>1, EscapesApart, Zenon
  <2> QED  BY <2>2, <2>3
<1>2. ASSUME NEW c, \A s \in DOMAIN EscapedByte : EscapedByte[s] # c
      PROVE  Unescaped(c) = IF c = "+" THEN " " ELSE c
  BY <1>2 DEF Unescaped
<1>3. ASSUME NEW c PROVE NoEscape(Unescaped(c))
  <2>1. CASE \E s \in DOMAIN EscapedByte : EscapedByte[s] = c
    <3>1. PICK s \in DOMAIN EscapedByte : EscapedByte[s] = c
      BY <2>1
    <3>2. Unescaped(c) = s
      BY <1>1, <3>1, Zenon
    <3> QED  BY <3>2, Zenon DEF NoEscape
  <2>2. CASE \A s \in DOMAIN EscapedByte : EscapedByte[s] # c
    <3>1. Unescaped(c) = " " \/ Unescaped(c) = c
      BY <1>2, <2>2
    <3> QED  BY <2>2, <3>1, EscapesApart, Zenon DEF NoEscape
  <2> QED  BY <2>1, <2>2
<1> QED  BY <1>1, <1>2, <1>3, Zenon

\* Escaping one symbol, and decoding it again.
LEMMA EscapedBack ==
  ASSUME NEW c, NoEscape(c)
  PROVE  Unescaped(EscapeByte(c)) = c /\ EscapeByte(c) # "%" /\ EscapeByte(c) # ";"
<1>1. \A s \in DOMAIN EscapedByte : EscapedByte[s] \notin {" ", "%", "+", ";"}
  BY EscapesApart
<1>2. CASE c = " "
  <2>1. EscapeByte(c) = "+"
    BY <1>2 DEF EscapeByte
  <2>2. Unescaped("+") = " "
    <3>1. \A s \in DOMAIN EscapedByte : EscapedByte[s] # "+"
      BY <1>1
    <3> QED  BY <3>1, Unescapes
  <2> QED  BY <1>2, <2>1, <2>2
<1>3. CASE c # " " /\ c \in DOMAIN EscapedByte
  <2>1. EscapeByte(c) = EscapedByte[c]
    BY <1>3 DEF EscapeByte
  <2>2. Unescaped(EscapedByte[c]) = c
    BY <1>3, Unescapes, Zenon
  <2>3. EscapedByte[c] # "%" /\ EscapedByte[c] # ";"
    BY <1>1, <1>3
  <2> QED  BY <2>1, <2>2, <2>3
<1>4. CASE c \notin DOMAIN EscapedByte
  <2>1. \A s \in DOMAIN EscapedByte : EscapedByte[s] # c
    BY <1>4, Zenon DEF NoEscape
  <2>2. c \notin {" ", "%", "+", ";"}
    BY <1>4, EscapesApart
  <2>3. EscapeByte(c) = c
    BY <1>4, <2>2 DEF EscapeByte
  <2>4. Unescaped(c) = c
    BY <2>1, <2>2, Unescapes
  <2> QED  BY <2>2, <2>3, <2>4
<1> QED  BY <1>2, <1>3, <1>4

\* Escaping a text.
LEMMA TextBack ==
  ASSUME NEW T, NEW s \in Seq(T), \A i \in DOMAIN s : NoEscape(s[i])
  PROVE  /\ QueryDecode(QueryEscape(s)) = s
         /\ WellEscapedQuery(QueryEscape(s)) /\ ~Contains(QueryEscape(s), ";")
<1> DEFINE e == QueryEscape(s)
           E == {EscapeByte(s[i]) : i \in DOMAIN s}
<1>1. Len(s) \in Nat /\ DOMAIN s = 1 .. Len(s) /\ s = [i \in 1 .. Len(s) |-> s[i]]
  OBVIOUS
<1>2. DOMAIN e = DOMAIN s /\ \A i \in DOMAIN s : e[i] = EscapeByte(s[i])
  BY DEF QueryEscape
<1>3. e \in [1 .. Len(s) -> E]
  BY <1>1 DEF QueryEscape
<1>4. e \in Seq(E) /\ Len(e) = Len(s)
  BY <1>1, <1>3
<1>5. \A i \in DOMAIN s : Unescaped(e[i]) = s[i] /\ e[i] # "%" /\ e[i] # ";"
  BY <1>2, EscapedBack, Zenon
<1> HIDE DEF e
<1>6. QueryDecode(e) = s
  <2>1. QueryDecode(e) = [i \in DOMAIN s |-> Unescaped(e[i])]
    BY <1>2 DEF QueryDecode
  <2>2. [i \in DOMAIN s |-> Unescaped(e[i])] = [i \in DOMAIN s |-> s[i]]
    BY <1>5
  <2> QED  BY <1>1, <2>1, <2>2
<1>7. ~Contains(e, "%") /\ ~Contains(e, ";")
  BY <1>1, <1>4, <1>5 DEF Contains
<1> QED  BY <1>6, <1>7 DEF e, WellEscapedQuery

Parts == [key : Seq(STRING), eq : BOOLEAN, value : Seq(STRING)]

\* The pair that is read back from the log.
LogPair(part) ==
  [key |-> Pair(part).key,
   value |-> IF Sensitive(Pair(part).key) THEN <<"redacted">> ELSE Pair(part).value]

\* A logged part is well formed, and says what its pair did.
LEMMA PartBack ==
  ASSUME NEW part \in Parts
  PROVE  PartKept(LogPart(part)) /\ Pair(LogPart(part)) = LogPair(part)
<1> DEFINE k == Pair(part).key
           v == IF Sensitive(k) THEN <<"redacted">> ELSE Pair(part).value
           l == LogPart(part)
           Decoded(s) == {Unescaped(s[i]) : i \in DOMAIN s}
<1>1. ASSUME NEW s \in Seq(STRING)
      PROVE  /\ QueryDecode(s) \in Seq(Decoded(s))
             /\ \A i \in DOMAIN QueryDecode(s) : NoEscape(QueryDecode(s)[i])
  <2>1. Len(s) \in Nat /\ DOMAIN s = 1 .. Len(s)
    OBVIOUS
  <2>2. QueryDecode(s) \in [1 .. Len(s) -> Decoded(s)]
    BY <2>1 DEF QueryDecode
  <2>3. DOMAIN QueryDecode(s) = DOMAIN s /\ \A i \in DOMAIN s : QueryDecode(s)[i] = Unescaped(s[i])
    BY DEF QueryDecode
  <2>4. QueryDecode(s) \in Seq(Decoded(s))
    BY <2>1, <2>2
  <2> QED  BY <2>3, <2>4, Unescapes, Zenon
<1>2. part.key \in Seq(STRING) /\ part.value \in Seq(STRING)
  BY DEF Parts
<1>3. k = QueryDecode(part.key) /\ Pair(part).value = QueryDecode(part.value)
  BY DEF Pair
<1>4. NoEscape("redacted")
  BY DEF NoEscape, EscapedByte
<1>5. /\ QueryDecode(QueryEscape(k)) = k
      /\ WellEscapedQuery(QueryEscape(k)) /\ ~Contains(QueryEscape(k), ";")
  <2> HIDE DEF k, Decoded
  <2> QED  BY <1>1, <1>2, <1>3, TextBack
<1>6. /\ QueryDecode(QueryEscape(v)) = v
      /\ WellEscapedQuery(QueryEscape(v)) /\ ~Contains(QueryEscape(v), ";")
  <2>1. CASE Sensitive(k)
    <3>1. v = <<"redacted">> /\ <<"redacted">> \in Seq({"redacted"})
      BY <2>1
    <3>2. \A i \in DOMAIN <<"redacted">> : NoEscape(<<"redacted">>[i])
      BY <1>4
    <3> HIDE DEF v
    <3> QED  BY <3>1, <3>2, TextBack
  <2>2. CASE ~Sensitive(k)
    <3>1. v = QueryDecode(part.value)
      BY <1>3, <2>2
    <3> HIDE DEF v, Decoded
    <3> QED  BY <1>1, <1>2, <3>1, TextBack
  <2> QED  BY <2>1, <2>2
<1>7. l = [key |-> QueryEscape(k), eq |-> TRUE, value |-> QueryEscape(v)]
  BY DEF LogPart
<1>8. LogPair(part) = [key |-> k, value |-> v]
  BY DEF LogPair
<1> HIDE DEF k, v, l
<1>9. l.key = QueryEscape(k) /\ l.eq = TRUE /\ l.value = QueryEscape(v)
  BY <1>7
<1>10. PartKept(l)
  BY <1>5, <1>6, <1>9 DEF PartKept, PartEmpty, PartValid
<1>11. Pair(l) = [key |-> k, value |-> v]
  BY <1>5, <1>6, <1>9 DEF Pair
<1> QED  BY <1>8, <1>10, <1>11 DEF l

-----------------------------------------------------------------------------
(* What the log says *)

Given(query, key) == {i \in DOMAIN query : PartKept(query[i]) /\ Pair(query[i]).key = key}

\* Every key that is given keeps a pair: all that give it, or the first of a
\* sensitive key alone.
LEMMA KeyStays ==
  ASSUME NEW query, NEW n \in Nat, DOMAIN query = 1 .. n, NEW key
  PROVE  /\ Given(query, key) # {} => Given(query, key) \cap Retained(query) # {}
         /\ ~Sensitive(key) => Given(query, key) \in SUBSET Retained(query)
         /\ Sensitive(key) =>
              \A i, j \in Given(query, key) \cap Retained(query) : i = j
<1> DEFINE B == Given(query, key)
           S == Retained(query)
<1>1. /\ B \in SUBSET (1 .. n)
      /\ \A i \in 1 .. n : i \in B <=> PartKept(query[i]) /\ Pair(query[i]).key = key
  BY DEF Given
<1>2. \A i \in B : i \in S <=> (Sensitive(key) => \A j \in 1 .. (i - 1) :
                                                    PartKept(query[j]) => Pair(query[j]).key # key)
  BY DEF Retained, Given
<1> HIDE DEF B, S
<1>3. \A i \in B : i \in S <=> (Sensitive(key) => \A j \in B : ~(j < i))
  <2> SUFFICES ASSUME NEW i \in B
               PROVE  (\A j \in 1 .. (i - 1) : PartKept(query[j]) => Pair(query[j]).key # key)
                        <=> \A j \in B : ~(j < i)
    BY <1>2
  <2>1. \A j : j \in 1 .. (i - 1) <=> j \in 1 .. n /\ j < i
    BY <1>1
  <2> QED  BY <1>1, <2>1
<1>4. ASSUME B # {} PROVE B \cap S # {}
  <2>1. B \in SUBSET Nat
    BY <1>1
  <2>2. PICK m \in B : \A i \in B : m <= i
    BY <1>4, <2>1, LeastOf
  <2>3. \A j \in B : ~(j < m)
    BY <2>1, <2>2
  <2> QED  BY <1>3, <2>2, <2>3
<1>5. ~Sensitive(key) => B \in SUBSET S
  BY <1>3
<1>6. ASSUME Sensitive(key), NEW i \in B \cap S, NEW j \in B \cap S PROVE i = j
  <2>1. i \in Nat /\ j \in Nat /\ ~(j < i) /\ ~(i < j)
    BY <1>1, <1>3, <1>6
  <2> QED  BY <2>1
<1> QED  BY <1>4, <1>5, <1>6 DEF B, S

\* The value of one place.
LEMMA OneInOrder ==
  ASSUME NEW a \in Nat
  PROVE  LET o == InOrder({a}, Less({a})) IN DOMAIN o = 1 .. 1 /\ \A k \in DOMAIN o : o[k] = a
<1> DEFINE S == {a}
           o == InOrder(S, Less(S))
<1>1. S \in SUBSET Nat
  OBVIOUS
<1>2. IsFiniteSet(S) /\ Cardinality(S) = 1
  BY FS_Singleton
<1>3. \A x \in S : x = a
  OBVIOUS
<1> HIDE DEF S
<1>4. TotalOn(S, Less(S))
  BY <1>1, LessTotal
<1>5. DOMAIN o = 1 .. Cardinality(S) /\ \A k \in DOMAIN o : o[k] \in S
  BY <1>2, <1>4, Ordered
<1> HIDE DEF o
<1>6. DOMAIN o = 1 .. 1 /\ \A k \in DOMAIN o : o[k] = a
  BY <1>2, <1>3, <1>5
<1> QED  BY <1>6 DEF o, S

\* A query that is well formed is logged well formed, with the same keys, every
\* value of a key that is not sensitive in its order and one redacted value of
\* a key that is: for every query (sanitize_raw_query).
THEOREM QueryLogged ==
  ASSUME NEW query \in Seq(Parts), ~Malformed(query),
         \A i \in DOMAIN query : ToSet(Pair(query[i]).key) \subseteq Symbols
  PROVE  LET logged == SanitizeRawQuery(query)
         IN  /\ ~Malformed(logged)
             /\ KeysOf(logged) = KeysOf(query)
             /\ \A key \in KeysOf(query) :
                  ValuesOf(logged, key) =
                    IF Sensitive(key) THEN <<<<"redacted">>>> ELSE ValuesOf(query, key)
<1> DEFINE n == Len(query)
           S == Retained(query)
           R == SortedByKey(query)
           o == InOrder(S, R)
           N == Cardinality(S)
           logged == SanitizeRawQuery(query)
           key(i) == Pair(query[i]).key
<1>1. n \in Nat /\ DOMAIN query = 1 .. n /\ \A i \in 1 .. n : query[i] \in Parts
  OBVIOUS
<1>2. \A i \in 1 .. n : key(i) \in Seq(Symbols)
  <2> SUFFICES ASSUME NEW i \in 1 .. n PROVE key(i) \in Seq(Symbols)
    OBVIOUS
  <2> DEFINE t == query[i].key
  <2>1. t \in Seq(STRING)
    BY <1>1 DEF Parts
  <2>2. key(i) = QueryDecode(t)
    BY DEF Pair
  <2>3. \A j \in DOMAIN key(i) : key(i)[j] \in Symbols
    BY <1>1 DEF ToSet
  <2> HIDE DEF key, t
  <2>4. Len(t) \in Nat /\ DOMAIN t = 1 .. Len(t)
    BY <2>1
  <2>5. key(i) = [j \in 1 .. Len(t) |-> Unescaped(t[j])]
    BY <2>2, <2>4 DEF QueryDecode
  <2>6. key(i) \in [1 .. Len(t) -> Symbols]
    BY <2>3, <2>5
  <2> QED  BY <2>4, <2>6
<1>3. S \in SUBSET (1 .. n) /\ IsFiniteSet(S) /\ TotalOn(S, R)
  BY <1>1, <1>2, LogOrder
<1>4. \A i \in S : PartKept(query[i])
  BY DEF Retained
<1>5. \A x, y \in S : <<x, y>> \in R <=> KeyBefore(key(x), key(y)) \/ (key(x) = key(y) /\ x < y)
  BY DEF SortedByKey
<1>6. logged = [k \in DOMAIN o |-> LogPart(query[o[k]])]
  BY DEF SanitizeRawQuery
<1> HIDE DEF S, R, n
<1>7. /\ N \in Nat /\ DOMAIN o = 1 .. N
      /\ \A k \in DOMAIN o : o[k] \in S /\ Rank(S, R, o[k]) = k - 1
      /\ \A x \in S : \E k \in DOMAIN o : o[k] = x
      /\ \A k, l \in DOMAIN o : k < l => <<o[k], o[l]>> \in R
  BY <1>3, Ordered
<1> HIDE DEF o, N, logged
<1>8. DOMAIN logged = 1 .. N
  BY <1>6, <1>7
<1>9. ASSUME NEW k \in 1 .. N
      PROVE  /\ o[k] \in S /\ o[k] \in 1 .. n /\ PartKept(logged[k])
             /\ Pair(logged[k]) = LogPair(query[o[k]])
  <2>1. o[k] \in S /\ o[k] \in 1 .. n
    BY <1>3, <1>7
  <2>2. logged[k] = LogPart(query[o[k]])
    BY <1>6, <1>7
  <2>3. query[o[k]] \in Parts
    BY <1>1, <2>1
  <2> QED  BY <2>1, <2>2, <2>3, PartBack
<1>10. /\ \A k \in 1 .. N : Pair(logged[k]).key = key(o[k])
       /\ \A k \in 1 .. N : Pair(logged[k]).value =
            IF Sensitive(key(o[k])) THEN <<"redacted">> ELSE Pair(query[o[k]]).value
  <2>1. \A part : /\ LogPair(part).key = Pair(part).key
                  /\ LogPair(part).value =
                       IF Sensitive(Pair(part).key) THEN <<"redacted">> ELSE Pair(part).value
    BY DEF LogPair
  <2> QED  BY <1>9, <2>1, Zenon
<1>11. ~Malformed(logged)
  BY <1>8, <1>9 DEF Malformed, PartKept
<1>12. \A i \in 1 .. n : PartKept(query[i]) => i \in Given(query, key(i))
  BY <1>1 DEF Given
<1>13. \A i, k : i \in Given(query, k) <=> i \in 1 .. n /\ PartKept(query[i]) /\ key(i) = k
  BY <1>1 DEF Given
<1>14. \A k, l \in 1 .. N : o[k] = o[l] => k = l
  <2> SUFFICES ASSUME NEW k \in 1 .. N, NEW l \in 1 .. N, o[k] = o[l] PROVE k = l
    OBVIOUS
  <2>1. k - 1 = l - 1
    BY <1>7
  <2> QED  BY <1>7, <2>1
<1>15. ASSUME NEW k PROVE Given(query, k) # {} => \E l \in 1 .. N : key(o[l]) = k
  <2> SUFFICES ASSUME Given(query, k) # {} PROVE \E l \in 1 .. N : key(o[l]) = k
    OBVIOUS
  <2>1. PICK i \in Given(query, k) : i \in Retained(query)
    BY <1>1, KeyStays
  <2>2. PICK l \in 1 .. N : o[l] = i
    BY <1>7, <2>1 DEF S
  <2> QED  BY <1>13, <2>1, <2>2
<1>16. /\ KeysOf(query) = {key(i) : i \in {j \in 1 .. n : PartKept(query[j])}}
       /\ KeysOf(logged) = {Pair(logged[k]).key : k \in {l \in 1 .. N : PartKept(logged[l])}}
  BY <1>1, <1>8 DEF KeysOf
<1>17. \A k : k \in KeysOf(query) <=> Given(query, k) # {}
  BY <1>13, <1>16
<1>18. \A k : k \in KeysOf(logged) <=> \E l \in 1 .. N : key(o[l]) = k
  BY <1>9, <1>10, <1>16
<1>19. KeysOf(logged) = KeysOf(query)
  <2>1. \A l \in 1 .. N : Given(query, key(o[l])) # {}
    BY <1>4, <1>9, <1>12
  <2>2. \A k : k \in KeysOf(logged) <=> k \in KeysOf(query)
    BY <1>15, <1>17, <1>18, <2>1
  <2> QED  BY <2>2, <1>16
<1>20. ASSUME NEW k \in KeysOf(query)
       PROVE  ValuesOf(logged, k) =
                IF Sensitive(k) THEN <<<<"redacted">>>> ELSE ValuesOf(query, k)
  <2> DEFINE A == Given(logged, k)
             B == Given(query, k)
             p == InOrder(A, Less(A))
             q == InOrder(B, Less(B))
  <2>1. ValuesOf(logged, k) = [l \in DOMAIN p |-> Pair(logged[p[l]]).value]
    BY DEF ValuesOf, Given
  <2>2. ValuesOf(query, k) = [l \in DOMAIN q |-> Pair(query[q[l]]).value]
    BY DEF ValuesOf, Given
  <2>3. A \in SUBSET (1 .. N) /\ \A l \in 1 .. N : l \in A <=> key(o[l]) = k
    BY <1>8, <1>9, <1>10 DEF Given
  <2>4. A \in SUBSET Nat /\ B \in SUBSET Nat
    BY <1>13, <2>3
  <2>5. \A l \in A : o[l] \in B /\ o[l] \in S
    BY <1>4, <1>9, <1>13, <2>3
  <2>6. \A l \in A : Pair(logged[l]).value =
                       IF Sensitive(k) THEN <<"redacted">> ELSE Pair(query[o[l]]).value
    BY <1>10, <2>3, Zenon
  <2>7. CASE Sensitive(k)
    <3>1. PICK a \in 1 .. N : key(o[a]) = k
      BY <1>15, <1>17
    <3>2. \A l \in A : l = a
      <4> SUFFICES ASSUME NEW l \in A PROVE l = a
        OBVIOUS
      <4>1. a \in A
        BY <2>3, <3>1
      <4>2. o[l] = o[a]
        BY <1>1, <2>5, <2>7, <4>1, KeyStays DEF S
      <4> QED  BY <1>14, <2>3, <4>2
    <3>3. A = {a} /\ a \in Nat
      BY <2>3, <3>1, <3>2
    <3>4. DOMAIN p = 1 .. 1 /\ \A l \in DOMAIN p : p[l] = a
      BY <3>3, OneInOrder
    <3> HIDE DEF A, p
    <3>5. ValuesOf(logged, k) = [l \in 1 .. 1 |-> <<"redacted">>]
      BY <2>1, <2>6, <2>7, <3>3, <3>4
    <3> QED  BY <2>7, <3>5
  <2>8. CASE ~Sensitive(k)
    <3> DEFINE f == [l \in A |-> o[l]]
    <3>1. f \in [A -> B]
      BY <2>5
    <3>2. \A b \in B : \E l \in A : f[l] = b
      <4> SUFFICES ASSUME NEW b \in B PROVE \E l \in A : o[l] = b
        OBVIOUS
      <4>1. b \in S
        BY <1>1, <2>8, KeyStays DEF S
      <4>2. PICK l \in 1 .. N : o[l] = b
        BY <1>7, <4>1
      <4> QED  BY <1>13, <2>3, <4>2
    <3>3. \A x, y \in A : x < y => f[x] < f[y]
      <4> SUFFICES ASSUME NEW x \in A, NEW y \in A, x < y PROVE o[x] < o[y]
        OBVIOUS
      <4>1. <<o[x], o[y]>> \in R
        BY <1>7, <2>3
      <4>2. key(o[x]) = k /\ key(o[y]) = k
        BY <2>3
      <4>3. ~KeyBefore(k, k)
        BY <1>2, <1>3, <2>5, <4>2, KeysOrdered
      <4> QED  BY <1>5, <2>5, <4>1, <4>2, <4>3
    <3>4. IsFiniteSet(A)
      <4>1. IsFiniteSet(1 .. N)
        BY <1>7, FS_Interval
      <4> HIDE DEF A
      <4> QED  BY <2>3, <4>1, FS_Subset
    <3>5. \A l \in A : f[l] = o[l]
      OBVIOUS
    <3> HIDE DEF f, A, B
    <3>6. DOMAIN p = DOMAIN q /\ \A l \in DOMAIN p : p[l] \in A /\ q[l] = f[p[l]]
      BY <2>4, <3>1, <3>2, <3>3, <3>4, SameOrder
    <3> HIDE DEF p, q
    <3>7. \A l \in DOMAIN p : Pair(logged[p[l]]).value = Pair(query[q[l]]).value
      BY <2>6, <2>8, <3>5, <3>6
    <3> QED  BY <2>1, <2>2, <2>8, <3>6, <3>7
  <2> QED  BY <2>7, <2>8
<1> QED  BY <1>11, <1>19, <1>20 DEF logged
=============================================================================
