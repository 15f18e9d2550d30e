---------------------------- MODULE SumTheorems -----------------------------
(***************************************************************************)
(* Sums over finite sets, as Functions defines them, for any function into *)
(* the integers.  Induction is by the least counterexample (LeastOf).      *)
(***************************************************************************)
EXTENDS Integers, FiniteSets, Functions, FiniteSetTheorems, WellFoundedInduction, TLAPS

\* The element a fold takes next.
Pick(s) == CHOOSE x \in s : TRUE

\* What the table of a sum over the subsets of S satisfies.
SumTable(f, S, g) ==
  g = [s \in SUBSET S |-> IF s = {} THEN 0 ELSE f[Pick(s)] + g[s \ {Pick(s)}]]

\* The table holds the sums over all subsets of S.
SumsFrom(f, S, g) ==
  SumTable(f, S, g) /\ \A s \in SUBSET S : SumFunctionOnSet(f, s) = g[s]

-----------------------------------------------------------------------------
\* Every set of natural numbers has a least element, if any.
LEMMA LeastOf ==
  ASSUME NEW T \in SUBSET Nat, T # {}
  PROVE  \E m \in T : \A n \in T : m <= n
<1> DEFINE R == {p \in Nat \X Nat : p[1] < p[2]}
<1>1. IsWellFoundedOn(R, Nat)
  BY NatLessThanWellFounded, Zenon DEF OpToRel
<1>2. \A m, n \in Nat : n < m => <<n, m>> \in R
  OBVIOUS
<1> HIDE DEF R
<1>3. PICK m \in T : \A n \in T : ~(<<n, m>> \in R)
  BY <1>1, WFMin
<1>4. ASSUME NEW n \in T PROVE m <= n
  <2>1. m \in Nat /\ n \in Nat /\ ~(n < m)
    BY <1>2, <1>3, Zenon
  <2> QED  BY <2>1
<1> QED  BY <1>4

\* A set of natural numbers without a least element is empty: the form in which
\* the inductions below use LeastOf.
LEMMA NoLeast ==
  ASSUME NEW T \in SUBSET Nat, \A m \in T : \E n \in T : n < m
  PROVE  T = {}
<1> SUFFICES ASSUME T # {} PROVE FALSE
  OBVIOUS
<1>1. PICK m \in T : \A n \in T : m <= n
  BY LeastOf
<1>2. PICK n \in T : n < m
  OBVIOUS
<1> QED  BY <1>1, <1>2

\* A fold takes an element of the set, and what is left is smaller.
LEMMA PickSmaller ==
  ASSUME NEW S, IsFiniteSet(S), NEW s \in SUBSET S, s # {}
  PROVE  /\ Pick(s) \in s
         /\ s \ {Pick(s)} \in SUBSET S
         /\ Cardinality(s) \in Nat \ {0}
         /\ Cardinality(s \ {Pick(s)}) = Cardinality(s) - 1
<1>1. Pick(s) \in s
  BY Zenon DEF Pick
<1>2. IsFiniteSet(s)
  BY FS_Subset
<1>3. Cardinality(s) \in Nat /\ Cardinality(s) # 0
  BY <1>2, FS_CardinalityType, FS_EmptySet
<1>4. Cardinality(s \ {Pick(s)}) = Cardinality(s) - 1
  BY <1>1, <1>2, FS_RemoveElement
<1> QED  BY <1>1, <1>3, <1>4

\* The recursion that defines a sum has a solution in the integers.
LEMMA TableExists ==
  ASSUME NEW S, IsFiniteSet(S), NEW f, \A x \in S : f[x] \in Int
  PROVE  \E g \in [SUBSET S -> Int] : SumTable(f, S, g)
<1> DEFINE Small(k) == {s \in SUBSET S : Cardinality(s) <= k}
           Entry(g, s) == IF s = {} THEN 0 ELSE f[Pick(s)] + g[s \ {Pick(s)}]
           Good(k) == \E g \in [Small(k) -> Int] : \A s \in Small(k) : g[s] = Entry(g, s)
           Bad == {k \in Nat : ~Good(k)}
<1>1. Bad = {}
  <2> SUFFICES ASSUME NEW k \in Bad PROVE \E j \in Bad : j < k
    BY NoLeast, Zenon
  <2>1. k # 0
    <3>1. ASSUME NEW s \in Small(0), s # {} PROVE FALSE
      <4>1. Cardinality(s) \in Nat \ {0}
        BY <3>1, PickSmaller
      <4> QED  BY <4>1
    <3> DEFINE g == [s \in Small(0) |-> 0]
    <3>2. g \in [Small(0) -> Int] /\ \A s \in Small(0) : g[s] = Entry(g, s)
      BY <3>1
    <3> HIDE DEF g, Entry, Small
    <3>3. Good(0)
      BY <3>2
    <3> QED  BY <3>3
  <2>2. k \in Nat \ {0} /\ k - 1 \in Nat /\ k - 1 < k
    BY <2>1
  <2> SUFFICES ASSUME Good(k - 1) PROVE Good(k)
    BY <2>2
  <2>3. PICK g \in [Small(k - 1) -> Int] : \A s \in Small(k - 1) : g[s] = Entry(g, s)
    OBVIOUS
  <2> DEFINE h == [s \in Small(k) |-> Entry(g, s)]
  <2>4. \A s \in Small(k) : s # {} =>
          Pick(s) \in S /\ s \ {Pick(s)} \in Small(k - 1) /\ s \ {Pick(s)} \in Small(k)
    BY <2>2, PickSmaller
  <2>5. \A s \in Small(k) : Entry(g, s) \in Int
    BY <2>4
  <2>6. \A s \in Small(k - 1) : s \in Small(k) /\ h[s] = g[s]
    <3>1. \A s \in Small(k - 1) : s \in Small(k)
      <4>1. \A s \in SUBSET S : Cardinality(s) \in Nat
        BY FS_Subset, FS_CardinalityType
      <4> QED  BY <4>1, <2>2
    <3> HIDE DEF Small, Entry
    <3> QED  BY <3>1, <2>3
  <2>7. \A s \in Small(k) : Entry(h, s) = Entry(g, s)
    BY <2>4, <2>6
  <2>8. h \in [Small(k) -> Int] /\ \A s \in Small(k) : h[s] = Entry(h, s)
    BY <2>5, <2>7
  <2> HIDE DEF h, Entry, Small
  <2> QED  BY <2>8
<1>2. Cardinality(S) \in Nat
  BY FS_CardinalityType
<1>3. Good(Cardinality(S))
  BY <1>1, <1>2
<1>4. Small(Cardinality(S)) = SUBSET S
  BY FS_Subset
<1>5. PICK g \in [SUBSET S -> Int] : \A s \in SUBSET S : g[s] = Entry(g, s)
  BY <1>3, <1>4
<1>6. g = [s \in SUBSET S |-> Entry(g, s)]
  BY <1>5
<1> QED  BY <1>6 DEF SumTable

\* Two solutions agree, also when they are tables of different sets.
LEMMA TableUnique ==
  ASSUME NEW S, IsFiniteSet(S), NEW f, NEW g, NEW h, NEW T \in SUBSET S,
         SumTable(f, S, g), SumTable(f, T, h)
  PROVE  \A s \in SUBSET T : g[s] = h[s]
<1> DEFINE Bad == {n \in Nat : \E s \in SUBSET T : Cardinality(s) = n /\ g[s] # h[s]}
<1>1. Bad = {}
  <2> SUFFICES ASSUME NEW n \in Bad PROVE \E m \in Bad : m < n
    BY NoLeast, Zenon
  <2>1. PICK s \in SUBSET T : Cardinality(s) = n /\ g[s] # h[s]
    OBVIOUS
  <2>2. s # {}
    BY <2>1 DEF SumTable
  <2>3. /\ s \ {Pick(s)} \in SUBSET T
        /\ Cardinality(s \ {Pick(s)}) = n - 1
        /\ n \in Nat \ {0}
    BY <2>1, <2>2, PickSmaller
  <2>4. /\ g[s] = f[Pick(s)] + g[s \ {Pick(s)}]
        /\ h[s] = f[Pick(s)] + h[s \ {Pick(s)}]
    BY <2>2 DEF SumTable
  <2>5. g[s \ {Pick(s)}] # h[s \ {Pick(s)}]
    BY <2>1, <2>4
  <2>6. n - 1 \in Bad
    BY <2>3, <2>5
  <2> QED  BY <2>3, <2>6
<1>2. \A s \in SUBSET T : Cardinality(s) \in Nat
  BY FS_Subset, FS_CardinalityType
<1> QED  BY <1>1, <1>2

\* The sums over the subsets of S are the entries of one table.
LEMMA SumIsTable ==
  ASSUME NEW S, IsFiniteSet(S), NEW f, \A x \in S : f[x] \in Int
  PROVE  \E g \in [SUBSET S -> Int] : SumsFrom(f, S, g)
<1>1. PICK g \in [SUBSET S -> Int] : SumTable(f, S, g)
  BY TableExists
<1>2. ASSUME NEW s \in SUBSET S
      PROVE  SumFunctionOnSet(f, s) = g[s]
  <2> DEFINE iter == CHOOSE h : SumTable(f, s, h)
  <2>1. IsFiniteSet(s) /\ \A x \in s : f[x] \in Int
    BY FS_Subset
  <2>2. \E h : SumTable(f, s, h)
    BY <2>1, TableExists
  <2>3. SumTable(f, s, iter)
    BY <2>2, Zenon
  <2>4. SumFunctionOnSet(f, s) = iter[s]
    BY DEF SumFunctionOnSet, FoldFunctionOnSet, MapThenFoldSet, SumTable, Pick
  <2> HIDE DEF iter
  <2>5. g[s] = iter[s]
    BY <1>1, <2>3, TableUnique
  <2> QED  BY <2>4, <2>5
<1> QED  BY <1>1, <1>2 DEF SumsFrom

-----------------------------------------------------------------------------
\* Nothing sums to zero.
LEMMA SumEmpty ==
  ASSUME NEW f
  PROVE  SumFunctionOnSet(f, {}) = 0
<1>1. IsFiniteSet({}) /\ \A x \in {} : f[x] \in Int
  BY FS_EmptySet
<1>2. PICK g \in [SUBSET {} -> Int] : SumsFrom(f, {}, g)
  BY <1>1, SumIsTable
<1> QED  BY <1>2 DEF SumsFrom, SumTable

\* A sum of integers is one.
LEMMA SumInt ==
  ASSUME NEW S, IsFiniteSet(S), NEW f, \A x \in S : f[x] \in Int
  PROVE  SumFunctionOnSet(f, S) \in Int
<1>1. PICK g \in [SUBSET S -> Int] : SumsFrom(f, S, g)
  BY SumIsTable
<1> QED  BY <1>1 DEF SumsFrom

\* Any element may be taken out of a sum.
LEMMA SumTake ==
  ASSUME NEW S, IsFiniteSet(S), NEW f, \A x \in S : f[x] \in Int, NEW x \in S
  PROVE  SumFunctionOnSet(f, S) = f[x] + SumFunctionOnSet(f, S \ {x})
<1>1. PICK g \in [SUBSET S -> Int] : SumsFrom(f, S, g)
  BY SumIsTable
<1> DEFINE Bad == {n \in Nat : \E s \in SUBSET S : \E y \in s :
                     Cardinality(s) = n /\ g[s] # f[y] + g[s \ {y}]}
<1>2. Bad = {}
  <2> SUFFICES ASSUME NEW n \in Bad PROVE \E m \in Bad : m < n
    BY NoLeast, Zenon
  <2>1. PICK s \in SUBSET S : \E y \in s : Cardinality(s) = n /\ g[s] # f[y] + g[s \ {y}]
    OBVIOUS
  <2>2. PICK y \in s : Cardinality(s) = n /\ g[s] # f[y] + g[s \ {y}]
    BY <2>1
  <2> DEFINE p == Pick(s)
  <2>3. IsFiniteSet(s) /\ s \ {y} \in SUBSET S
    BY FS_Subset
  <2>4. p \in s /\ s \ {p} \in SUBSET S /\ n \in Nat \ {0} /\ Cardinality(s \ {p}) = n - 1
    BY <2>2, PickSmaller
  <2>5. g[s] = f[p] + g[s \ {p}]
    BY <1>1, <2>2 DEF SumsFrom, SumTable
  <2> HIDE DEF p
  <2>6. y # p
    BY <2>2, <2>5
  <2>7. n - 1 \in Bad
    <3> SUFFICES ASSUME n - 1 \notin Bad PROVE FALSE
      OBVIOUS
    <3>1. \A t \in SUBSET S : \A z \in t : Cardinality(t) = n - 1 => g[t] = f[z] + g[t \ {z}]
      <4>1. n - 1 \in Nat
        BY <2>4
      <4> QED  BY <4>1, Zenon
    <3>2. Cardinality(s \ {y}) = n - 1
      BY <2>2, <2>3, FS_RemoveElement
    <3>3. y \in s \ {p} /\ p \in s \ {y}
      BY <2>4, <2>6
    <3>4. g[s \ {p}] = f[y] + g[(s \ {p}) \ {y}]
      BY <2>4, <3>1, <3>3
    <3>5. g[s \ {y}] = f[p] + g[(s \ {y}) \ {p}]
      BY <2>3, <3>1, <3>2, <3>3
    <3>6. (s \ {p}) \ {y} = (s \ {y}) \ {p}
      OBVIOUS
    <3>7. /\ f[p] \in Int /\ f[y] \in Int
          /\ g[(s \ {y}) \ {p}] \in Int
      BY <2>3, <2>4
    <3> HIDE DEF Bad
    <3> DEFINE w == g[(s \ {y}) \ {p}]
    <3>8. f[p] + (f[y] + w) = f[y] + (f[p] + w)
      <4>1. w \in Int
        BY <3>7
      <4> HIDE DEF w
      <4> QED  BY <3>7, <4>1
    <3>9. g[s] = f[p] + (f[y] + w) /\ g[s \ {y}] = f[p] + w
      BY <2>5, <3>4, <3>5, <3>6, Zenon
    <3> HIDE DEF w
    <3> QED  BY <2>2, <3>8, <3>9, Zenon
  <2> HIDE DEF Bad
  <2> QED  BY <2>4, <2>7
<1>3. Cardinality(S) \in Nat
  BY FS_CardinalityType
<1>4. g[S] = f[x] + g[S \ {x}]
  BY <1>2, <1>3
<1> QED  BY <1>1, <1>4 DEF SumsFrom

\* A sum depends on the summands only.
LEMMA SumSame ==
  ASSUME NEW S, IsFiniteSet(S), NEW f, NEW g,
         \A x \in S : f[x] \in Int /\ g[x] = f[x]
  PROVE  SumFunctionOnSet(g, S) = SumFunctionOnSet(f, S)
<1>1. \A x \in S : f[x] \in Int /\ g[x] \in Int
  OBVIOUS
<1>2. PICK h \in [SUBSET S -> Int] : SumsFrom(f, S, h)
  BY <1>1, SumIsTable
<1>3. PICK k \in [SUBSET S -> Int] : SumsFrom(g, S, k)
  BY <1>1, SumIsTable
<1>4. ASSUME NEW s \in SUBSET S, s # {} PROVE Pick(s) \in S
  BY <1>4, PickSmaller
<1>5. SumTable(f, S, k)
  <2>1. \A s \in SUBSET S : k[s] = IF s = {} THEN 0 ELSE f[Pick(s)] + k[s \ {Pick(s)}]
    BY <1>3, <1>4 DEF SumsFrom, SumTable
  <2> QED  BY <2>1 DEF SumTable
<1>6. h[S] = k[S]
  BY <1>2, <1>5, TableUnique DEF SumsFrom
<1> QED  BY <1>2, <1>3, <1>6 DEF SumsFrom

\* A sum in which one summand changes.
LEMMA SumChange ==
  ASSUME NEW S, IsFiniteSet(S), NEW f, NEW g, NEW x \in S,
         \A y \in S : f[y] \in Int /\ g[y] \in Int /\ (y # x => g[y] = f[y])
  PROVE  SumFunctionOnSet(g, S) = SumFunctionOnSet(f, S) + (g[x] - f[x])
<1> DEFINE rest == SumFunctionOnSet(f, S \ {x})
<1>1. IsFiniteSet(S \ {x})
  BY FS_RemoveElement
<1>2. \A y \in S : g[y] \in Int
  OBVIOUS
<1>3. SumFunctionOnSet(g, S \ {x}) = rest /\ rest \in Int
  BY <1>1, SumSame, SumInt
<1>4. SumFunctionOnSet(f, S) = f[x] + rest
  BY SumTake
<1>5. SumFunctionOnSet(g, S) = g[x] + rest
  BY <1>2, <1>3, SumTake
<1> HIDE DEF rest
<1> QED  BY <1>3, <1>4, <1>5

\* A sum of natural numbers is one, and no summand is greater.
LEMMA SumNat ==
  ASSUME NEW S, IsFiniteSet(S), NEW f, \A x \in S : f[x] \in Nat
  PROVE  /\ SumFunctionOnSet(f, S) \in Nat
         /\ \A x \in S : f[x] <= SumFunctionOnSet(f, S)
<1>0. \A x \in S : f[x] \in Int
  OBVIOUS
<1>1. PICK g \in [SUBSET S -> Int] : SumsFrom(f, S, g)
  BY <1>0, SumIsTable
<1> DEFINE Bad == {n \in Nat : \E s \in SUBSET S : Cardinality(s) = n /\ g[s] \notin Nat}
<1>2. Bad = {}
  <2> SUFFICES ASSUME NEW n \in Bad PROVE \E m \in Bad : m < n
    BY NoLeast, Zenon
  <2>1. PICK s \in SUBSET S : Cardinality(s) = n /\ g[s] \notin Nat
    OBVIOUS
  <2>2. s # {}
    BY <1>1, <2>1 DEF SumsFrom, SumTable
  <2>3. /\ Pick(s) \in S
        /\ s \ {Pick(s)} \in SUBSET S
        /\ Cardinality(s \ {Pick(s)}) = n - 1
        /\ n \in Nat \ {0}
    BY <2>1, <2>2, PickSmaller
  <2>4. g[s] = f[Pick(s)] + g[s \ {Pick(s)}]
    BY <1>1, <2>2 DEF SumsFrom, SumTable
  <2>5. g[s \ {Pick(s)}] \notin Nat
    BY <2>1, <2>3, <2>4
  <2>6. n - 1 \in Bad
    BY <2>3, <2>5
  <2> QED  BY <2>3, <2>6
<1>3. \A s \in SUBSET S : Cardinality(s) \in Nat
  BY FS_Subset, FS_CardinalityType
<1>4. \A s \in SUBSET S : SumFunctionOnSet(f, s) \in Nat
  BY <1>1, <1>2, <1>3 DEF SumsFrom
<1>5. ASSUME NEW x \in S PROVE f[x] <= SumFunctionOnSet(f, S)
  <2>1. SumFunctionOnSet(f, S) = f[x] + SumFunctionOnSet(f, S \ {x})
    BY <1>0, SumTake
  <2>2. SumFunctionOnSet(f, S \ {x}) \in Nat
    BY <1>4
  <2> QED  BY <2>1, <2>2
<1> QED  BY <1>4, <1>5

\* Nothing but zeros sums to zero.
LEMMA SumZeros ==
  ASSUME NEW S, IsFiniteSet(S), NEW f, \A x \in S : f[x] = 0
  PROVE  SumFunctionOnSet(f, S) = 0
<1>0. \A x \in S : f[x] \in Int
  OBVIOUS
<1> DEFINE zero == [s \in SUBSET S |-> 0]
<1>1. \A s \in SUBSET S : s # {} => f[Pick(s)] = 0 /\ s \ {Pick(s)} \in SUBSET S
  BY PickSmaller
<1>2. \A s \in SUBSET S : zero[s] = IF s = {} THEN 0 ELSE f[Pick(s)] + zero[s \ {Pick(s)}]
  BY <1>1
<1>3. SumTable(f, S, zero)
  BY <1>2 DEF SumTable
<1>4. zero[S] = 0
  OBVIOUS
<1>5. PICK g \in [SUBSET S -> Int] : SumsFrom(f, S, g)
  BY <1>0, SumIsTable
<1> HIDE DEF zero
<1>6. zero[S] = g[S]
  BY <1>3, <1>5, TableUnique DEF SumsFrom
<1> QED  BY <1>4, <1>5, <1>6 DEF SumsFrom

\* A sum over a set is that over a part and that over the rest.
LEMMA SumSplit ==
  ASSUME NEW S, IsFiniteSet(S), NEW f, \A x \in S : f[x] \in Int, NEW T \in SUBSET S
  PROVE  SumFunctionOnSet(f, S) = SumFunctionOnSet(f, T) + SumFunctionOnSet(f, S \ T)
<1>1. PICK g \in [SUBSET S -> Int] : SumsFrom(f, S, g)
  BY SumIsTable
<1>2. \A s \in SUBSET S : IsFiniteSet(s) /\ Cardinality(s) \in Nat /\ \A x \in s : f[x] \in Int
  BY FS_Subset, FS_CardinalityType
<1>3. ASSUME NEW s \in SUBSET S, NEW x \in s
      PROVE  g[s] = f[x] + g[s \ {x}]
  <2>1. SumFunctionOnSet(f, s) = f[x] + SumFunctionOnSet(f, s \ {x})
    BY <1>2, SumTake
  <2> QED  BY <1>1, <2>1 DEF SumsFrom
<1> DEFINE Bad == {n \in Nat : \E s \in SUBSET T :
                     Cardinality(s) = n /\ g[s \cup (S \ T)] # g[s] + g[S \ T]}
<1>4. Bad = {}
  <2> SUFFICES ASSUME NEW n \in Bad PROVE \E m \in Bad : m < n
    BY NoLeast, Zenon
  <2>1. PICK s \in SUBSET T : Cardinality(s) = n /\ g[s \cup (S \ T)] # g[s] + g[S \ T]
    OBVIOUS
  <2>2. g[{}] = 0 /\ g[S \ T] \in Int
    BY <1>1 DEF SumsFrom, SumTable
  <2>3. s # {}
    <3>1. {} \cup (S \ T) = S \ T
      OBVIOUS
    <3>2. g[S \ T] = 0 + g[S \ T]
      BY <2>2
    <3> QED  BY <2>1, <2>2, <3>1, <3>2, Zenon
  <2>4. PICK x \in s : TRUE
    BY <2>3
  <2> DEFINE t == s \ {x}
  <2>5. Cardinality(t) = n - 1 /\ n - 1 \in Nat /\ n - 1 < n
    <3>1. IsFiniteSet(s) /\ IsFiniteSet(t)
      BY <1>2
    <3>2. Cardinality(t) \in Nat /\ Cardinality(t) = n - 1
      BY <2>1, <3>1, FS_RemoveElement, FS_CardinalityType
    <3> QED  BY <3>2
  <2>6. g[s] = f[x] + g[t] /\ f[x] \in Int /\ g[t] \in Int
    BY <1>3
  <2>7. g[s \cup (S \ T)] = f[x] + g[t \cup (S \ T)]
    <3>1. s \cup (S \ T) \in SUBSET S /\ x \in s \cup (S \ T)
      OBVIOUS
    <3>2. (s \cup (S \ T)) \ {x} = t \cup (S \ T)
      OBVIOUS
    <3> HIDE DEF t
    <3> QED  BY <1>3, <3>1, <3>2
  <2>8. g[t \cup (S \ T)] # g[t] + g[S \ T]
    <3> SUFFICES ASSUME g[t \cup (S \ T)] = g[t] + g[S \ T] PROVE FALSE
      OBVIOUS
    <3>1. f[x] + (g[t] + g[S \ T]) = (f[x] + g[t]) + g[S \ T]
      BY <2>2, <2>6
    <3>2. g[s \cup (S \ T)] = f[x] + (g[t] + g[S \ T])
      BY <2>7
    <3> QED  BY <2>1, <2>6, <3>1, <3>2, Zenon
  <2>9. n - 1 \in Bad
    BY <2>5, <2>8, Zenon
  <2> HIDE DEF Bad
  <2> QED  BY <2>5, <2>9
<1>5. g[T \cup (S \ T)] = g[T] + g[S \ T]
  <2>1. Cardinality(T) \in Nat /\ T \in SUBSET T
    BY <1>2
  <2> QED  BY <1>4, <2>1, Zenon
<1>6. T \cup (S \ T) = S /\ T \in SUBSET S /\ S \ T \in SUBSET S /\ S \in SUBSET S
  OBVIOUS
<1>7. g[S] = g[T] + g[S \ T]
  BY <1>5, <1>6, Zenon
<1> QED  BY <1>1, <1>6, <1>7 DEF SumsFrom
=============================================================================
