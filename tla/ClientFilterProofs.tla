------------------------- MODULE ClientFilterProofs -------------------------
(***************************************************************************)
(* Prefixes and masks for addresses of any width, 32 and 128 bits among    *)
(* them: a prefix contains an address exactly when the bits that its       *)
(* length counts are the same.                                             *)
(***************************************************************************)
EXTENDS ClientFilter, SumTheorems, TLAPS

-----------------------------------------------------------------------------
(* Arithmetic *)

\* Powers of two, from the number of subsets of 1..k: half of those of
\* 1..(k + 1) have k + 1 in them.
LEMMA PowerFacts ==
  ASSUME NEW k \in Nat
  PROVE  2^k \in Nat \ {0} /\ 2^(k + 1) = 2 * 2^k
<1> DEFINE S == SUBSET (1 .. k)
           U == SUBSET (1 .. (k + 1))
           Added(s) == s \cup {k + 1}
           V == {Added(s) : s \in S}
<1>1. /\ IsFiniteSet(1 .. k) /\ Cardinality(1 .. k) = k
      /\ IsFiniteSet(1 .. (k + 1)) /\ Cardinality(1 .. (k + 1)) = k + 1
  BY FS_Interval
<1>2. /\ IsFiniteSet(S) /\ Cardinality(S) = 2^k
      /\ IsFiniteSet(U) /\ Cardinality(U) = 2^(k + 1)
  BY <1>1, FS_SUBSET
<1>3. 2^k \in Nat \ {0}
  <2>1. S # {}
    OBVIOUS
  <2> HIDE DEF S
  <2>2. Cardinality(S) \in Nat /\ Cardinality(S) # 0
    BY <1>2, <2>1, FS_CardinalityType, FS_EmptySet
  <2> QED  BY <1>2, <2>2
<1>4. IsFiniteSet(V) /\ Cardinality(V) = Cardinality(S)
  <2> DEFINE f == [s \in S |-> Added(s)]
  <2>1. \A s, t \in S : f[s] = f[t] => s = t
    <3> SUFFICES ASSUME NEW s \in S, NEW t \in S, Added(s) = Added(t) PROVE s = t
      OBVIOUS
    <3>1. k + 1 \notin s /\ k + 1 \notin t
      OBVIOUS
    <3> QED  BY <3>1
  <2>2. f \in Bijection(S, V)
    <3>1. f \in [S -> V] /\ \A v \in V : \E s \in S : f[s] = v
      OBVIOUS
    <3> QED  BY <2>1, <3>1 DEF Bijection, Injection, Surjection, IsInjective
  <2> HIDE DEF S, V, f
  <2> QED  BY <1>2, <2>2, FS_Bijection DEF ExistsBijection
<1>5. U = S \cup V /\ S \cap V = {}
  <2>1. ASSUME NEW u \in U PROVE u \in S \cup V
    <3>1. CASE k + 1 \in u
      <4>1. u \ {k + 1} \in S /\ u = Added(u \ {k + 1})
        BY <3>1
      <4> QED  BY <4>1
    <3>2. CASE k + 1 \notin u
      <4>1. \A x \in u : x \in 1 .. k
        BY <3>2
      <4> QED  BY <4>1
    <3> QED  BY <3>1, <3>2
  <2>2. ASSUME NEW v \in V PROVE v \in U /\ v \notin S
    <3>1. PICK s \in S : v = Added(s)
      OBVIOUS
    <3>2. \A x \in s : x \in 1 .. (k + 1)
      OBVIOUS
    <3>3. k + 1 \in v /\ k + 1 \notin 1 .. k
      BY <3>1
    <3> QED  BY <3>1, <3>2, <3>3
  <2>3. \A s \in S : s \in U
    OBVIOUS
  <2> HIDE DEF U, V, S
  <2> QED  BY <2>1, <2>2, <2>3
<1> HIDE DEF U, V, S
<1>6. Cardinality(S \cup V) = Cardinality(S) + Cardinality(V) - Cardinality(S \cap V)
  BY <1>2, <1>4, FS_Union
<1>7. Cardinality(S \cap V) = 0
  BY <1>5, FS_EmptySet
<1>8. 2^(k + 1) = 2^k + 2^k
  BY <1>2, <1>3, <1>4, <1>5, <1>6, <1>7
<1> QED  BY <1>3, <1>8

\* Quotient and remainder.
LEMMA Division ==
  ASSUME NEW n \in Nat, NEW p \in Nat \ {0}
  PROVE  /\ n \div p \in Nat /\ n % p \in Nat /\ n % p < p
         /\ n = (p * (n \div p)) + (n % p)
OBVIOUS

\* The quotient by twice as much.
LEMMA Halved ==
  ASSUME NEW n \in Nat, NEW p \in Nat \ {0}
  PROVE  n \div (2 * p) = (n \div p) \div 2
OBVIOUS

\* Numbers are equal above the low bits when their quotients are.
LEMMA SameQuotient ==
  ASSUME NEW n \in Nat, NEW m \in Nat, NEW p \in Nat \ {0}
  PROVE  n - (n % p) = m - (m % p) <=> n \div p = m \div p
<1>1. /\ n \div p \in Nat /\ n % p \in Nat /\ n = (p * (n \div p)) + (n % p)
      /\ m \div p \in Nat /\ m % p \in Nat /\ m = (p * (m \div p)) + (m % p)
  BY Division
<1> DEFINE a == n \div p
           b == m \div p
<1> HIDE DEF a, b
<1>2. a \in Nat /\ b \in Nat /\ n - (n % p) = p * a /\ m - (m % p) = p * b
  BY <1>1 DEF a, b
<1>3. p * a = p * b <=> a = b
  BY <1>2
<1> QED  BY <1>2, <1>3 DEF a, b

\* Nothing is left of a small number.
LEMMA Below ==
  ASSUME NEW n \in Nat, NEW p \in Nat \ {0}, n < p
  PROVE  n \div p = 0
OBVIOUS

\* A number is its half and its last bit.
LEMMA HalfAndBit ==
  ASSUME NEW n \in Nat, NEW m \in Nat
  PROVE  n = m <=> n \div 2 = m \div 2 /\ n % 2 = m % 2
OBVIOUS

-----------------------------------------------------------------------------
(* Bits *)

\* The first b bits of two numbers of w bits are the same exactly when nothing
\* but the other bits differs.
LEMMA SharedBits ==
  ASSUME NEW w \in Nat, NEW n \in Nat, NEW m \in Nat, n < 2^w, m < 2^w, NEW b \in 0 .. w
  PROVE  (\A i \in 1 .. b : Bit(n, w, i) = Bit(m, w, i)) <=> n \div 2^(w - b) = m \div 2^(w - b)
<1> DEFINE Shared(c) == \A i \in 1 .. c : Bit(n, w, i) = Bit(m, w, i)
           Same(c) == n \div 2^(w - c) = m \div 2^(w - c)
           Bad == {c \in 0 .. w : ~(Shared(c) <=> Same(c))}
<1>1. Bad = {}
  <2>1. Bad \in SUBSET Nat
    OBVIOUS
  <2> SUFFICES ASSUME NEW c \in Bad PROVE \E d \in Bad : d < c
    BY <2>1, NoLeast, Zenon
  <2>2. c # 0
    <3>1. 2^w \in Nat \ {0}
      BY PowerFacts
    <3>2. n \div 2^w = 0 /\ m \div 2^w = 0
      BY <3>1, Below
    <3>3. w - 0 = w
      OBVIOUS
    <3>4. Same(0)
      BY <3>2, <3>3
    <3>5. Shared(0)
      OBVIOUS
    <3> QED  BY <3>4, <3>5
  <2> DEFINE d == c - 1
             p == 2^(w - c)
             q == n \div p
             r == m \div p
  <2>3. c \in 1 .. w /\ d \in 0 .. w /\ d < c /\ w - c \in Nat /\ w - d = (w - c) + 1
    BY <2>2
  <2>4. p \in Nat \ {0} /\ 2^(w - d) = 2 * p
    BY <2>3, PowerFacts
  <2> HIDE DEF p
  <2>5. q \in Nat /\ r \in Nat /\ n \div 2^(w - d) = q \div 2 /\ m \div 2^(w - d) = r \div 2
    BY <2>4, Division, Halved
  <2>6. Bit(n, w, c) = q % 2 /\ Bit(m, w, c) = r % 2
    BY DEF Bit, p
  <2> HIDE DEF q, r
  <2>7. Same(c) <=> q = r
    BY DEF q, r, p
  <2>8. Same(c) <=> Same(d) /\ Bit(n, w, c) = Bit(m, w, c)
    BY <2>5, <2>6, <2>7, HalfAndBit
  <2>9. Shared(c) <=> Shared(d) /\ Bit(n, w, c) = Bit(m, w, c)
    <3>1. \A i : i \in 1 .. c <=> i \in 1 .. d \/ i = c
      BY <2>3
    <3> HIDE DEF d
    <3> QED  BY <3>1, Zenon
  <2>10. d \in Bad
    <3> HIDE DEF Shared, Same, d
    <3> QED  BY <2>3, <2>8, <2>9
  <2> QED  BY <2>3, <2>10
<1>2. b \notin Bad
  BY <1>1
<1> HIDE DEF Shared, Same
<1>3. Shared(b) <=> Same(b)
  BY <1>2
<1> QED  BY <1>3 DEF Shared, Same

\* The widths, one by one.
LEMMA Widths ==
  ASSUME NEW v \in {4, 6}
  PROVE  Width[v] \in Nat \ {0} /\ 2^Width[v] \in Nat \ {0}
<1>1. Width[v] \in Nat \ {0}
  BY WidthAssumption
<1> QED  BY <1>1, PowerFacts

\* Two addresses of a family have the same mask exactly when they share the
\* bits it keeps, from none to all of them.
LEMMA MaskExact ==
  ASSUME NEW a, NEW c, IsAddress(a), IsAddress(c), a.v = c.v, NEW bits \in 0 .. Width[a.v]
  PROVE  Mask(a, bits) = Mask(c, bits) <=>
           \A i \in 1 .. bits : Bit(a.n, Width[a.v], i) = Bit(c.n, Width[a.v], i)
<1> DEFINE w == Width[a.v]
           n == a.n
           m == c.n
           p == 2^(w - bits)
           Masked(k) == IF bits = 0 THEN 0 ELSE HighBits(k, w, w - bits)
<1>1. a \in [v : {4, 6}, n : Nat] /\ c \in [v : {4, 6}, n : Nat] /\ n < 2^w /\ m < 2^w
  BY DEF IsAddress
<1>2. w \in Nat \ {0} /\ n \in Nat /\ m \in Nat
  BY <1>1, Widths
<1>3. Mask(a, bits) = Mask(c, bits) <=> Masked(n) = Masked(m)
  <2>1. Mask(a, bits) = [v |-> a.v, n |-> Masked(n)] /\ Mask(c, bits) = [v |-> a.v, n |-> Masked(m)]
    BY <1>1 DEF Mask
  <2> HIDE DEF Masked
  <2> QED  BY <2>1
<1>4. (\A i \in 1 .. bits : Bit(n, w, i) = Bit(m, w, i)) <=> n \div p = m \div p
  <2> HIDE DEF w, n, m
  <2>1. bits \in 0 .. w
    BY DEF w
  <2> QED  BY <1>1, <1>2, <2>1, SharedBits
<1>5. Masked(n) = Masked(m) <=> n \div p = m \div p
  <2> HIDE DEF w, n, m
  <2>0. bits \in 0 .. w
    BY DEF w
  <2>1. CASE bits = 0
    <3>1. w - bits = w /\ 2^w \in Nat \ {0}
      BY <1>2, <2>1, PowerFacts
    <3>2. n \div p = 0 /\ m \div p = 0
      BY <1>1, <1>2, <3>1, Below
    <3> QED  BY <2>1, <3>2
  <2>2. CASE bits # 0
    <3>1. (w - bits) % w = w - bits /\ w - bits \in Nat
      BY <1>2, <2>0, <2>2
    <3>2. p \in Nat \ {0}
      BY <3>1, PowerFacts
    <3>3. Masked(n) = n - (n % p) /\ Masked(m) = m - (m % p)
      BY <2>2, <3>1 DEF HighBits
    <3> HIDE DEF p, Masked
    <3>4. n - (n % p) = m - (m % p) <=> n \div p = m \div p
      BY <1>2, <3>2, SameQuotient
    <3> QED  BY <3>3, <3>4, Zenon
  <2> QED  BY <2>1, <2>2
<1> QED  BY <1>3, <1>4, <1>5

\* A mask of all bits changes nothing.
LEMMA MaskWhole ==
  ASSUME NEW a, IsAddress(a)
  PROVE  Mask(a, Width[a.v]) = a
<1>1. a \in [v : {4, 6}, n : Nat] /\ Width[a.v] \in Nat \ {0}
  BY Widths DEF IsAddress
<1>2. Width[a.v] - Width[a.v] = 0 /\ 0 % Width[a.v] = 0
  BY <1>1
<1>3. HighBits(a.n, Width[a.v], Width[a.v] - Width[a.v]) = a.n
  <2>1. 2^0 = 1 /\ a.n % 1 = 0 /\ a.n - 0 = a.n
    BY <1>1
  <2> QED  BY <1>2, <2>1 DEF HighBits
<1> QED  BY <1>1, <1>3 DEF Mask

\* An unmapped address is one, and unmapping it again changes nothing.
LEMMA Unmapped ==
  ASSUME NEW a, IsAddress(a)
  PROVE  IsAddress(Unmap(a)) /\ Unmap(Unmap(a)) = Unmap(a)
<1>1. CASE a.v = 6 /\ a.n \div 2^Width[4] = Mapped
  <2>1. 2^Width[4] \in Nat \ {0} /\ a.n \in Nat
    BY Widths DEF IsAddress
  <2>2. a.n % 2^Width[4] \in Nat /\ a.n % 2^Width[4] < 2^Width[4]
    BY <2>1, Division
  <2> DEFINE m == a.n % 2^Width[4]
  <2>3. Unmap(a) = [v |-> 4, n |-> m]
    BY <1>1 DEF Unmap
  <2> HIDE DEF m
  <2>4. m \in Nat /\ m < 2^Width[4]
    BY <2>2 DEF m
  <2> QED  BY <2>3, <2>4 DEF IsAddress, Unmap
<1>2. CASE ~(a.v = 6 /\ a.n \div 2^Width[4] = Mapped)
  <2>1. Unmap(a) = a
    BY <1>2 DEF Unmap
  <2> QED  BY <2>1
<1> QED  BY <1>1, <1>2

\* For addresses of any width: a prefix that was accepted contains a client's
\* address exactly when the network as written has it, whatever its length and
\* whether or not either of them is mapped (IpPrefix::parse, contains, mask).
THEOREM PrefixExact ==
  ASSUME NEW p, p.addr = NoAddress \/ IsAddress(p.addr), p.length \in Nat \cup {NoLength},
         PrefixValid(p), NEW c, IsAddress(c)
  PROVE  PrefixContains(ParsePrefix(p), c) <=> Has(p, Unmap(c))
<1> DEFINE u == Unmap(c)
<1>1. IsAddress(p.addr) /\ p.length <= Width[p.addr.v]
  BY DEF PrefixValid
<1>2. IsAddress(u)
  BY Unmapped
<1> HIDE DEF u
<1>3. CASE p.length = NoLength
  <2> DEFINE a == Unmap(p.addr)
             w == Width[a.v]
  <2>1. IsAddress(a) /\ w \in Nat
    BY <1>1, Unmapped, Widths DEF IsAddress
  <2>2. PrefixContains(ParsePrefix(p), c) <=> u.v = a.v /\ Mask(u, w) = a
    BY <1>3 DEF PrefixContains, ParsePrefix, u
  <2>3. Has(p, u) <=> a.v = u.v /\ \A i \in 1 .. w : Bit(a.n, w, i) = Bit(u.n, w, i)
    BY <1>3 DEF Has
  <2> HIDE DEF a
  <2>4. Mask(a, w) = a
    BY <2>1, MaskWhole
  <2>5. a.v = u.v => (Mask(a, w) = Mask(u, w) <=> \A i \in 1 .. w : Bit(a.n, w, i) = Bit(u.n, w, i))
    <3>1. w \in 0 .. w
      BY <2>1
    <3> QED  BY <1>2, <2>1, <3>1, MaskExact
  <2> HIDE DEF w
  <2> QED  BY <2>2, <2>3, <2>4, <2>5 DEF u
<1>4. CASE p.length # NoLength
  <2> DEFINE a == p.addr
             b == p.length
  <2>1. IsAddress(a) /\ b \in 0 .. Width[a.v]
    BY <1>1, <1>4, Widths DEF IsAddress
  <2>2. Mask(a, b).v = a.v
    BY <2>1 DEF Mask, IsAddress
  <2>3. PrefixContains(ParsePrefix(p), c) <=> u.v = a.v /\ Mask(u, b) = Mask(a, b)
    BY <1>4, <2>2 DEF PrefixContains, ParsePrefix, u
  <2>4. Has(p, u) <=> a.v = u.v /\ \A i \in 1 .. b : Bit(a.n, Width[a.v], i) = Bit(u.n, Width[a.v], i)
    BY <1>4 DEF Has
  <2> HIDE DEF a, b
  <2>5. a.v = u.v => (Mask(a, b) = Mask(u, b) <=>
                        \A i \in 1 .. b : Bit(a.n, Width[a.v], i) = Bit(u.n, Width[a.v], i))
    BY <1>2, <2>1, MaskExact
  <2> QED  BY <2>3, <2>4, <2>5 DEF u
<1> QED  BY <1>3, <1>4
=============================================================================
