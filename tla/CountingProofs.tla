--------------------------- MODULE CountingProofs ---------------------------
(***************************************************************************)
(* Counting finite sets and adding up their values, as the proofs about    *)
(* several components need it.                                             *)
(***************************************************************************)
EXTENDS Integers, Functions, FiniteSetTheorems, SequenceTheorems, WellFoundedInduction, TLAPS

-----------------------------------------------------------------------------
(* Numbers                                                                   *)

LEMMA LeastOf ==
  ASSUME NEW S \in SUBSET Nat, S # {}
  PROVE  \E i \in S : \A j \in S : i <= j
<1>1. PICK i \in S : \A j \in S : ~ (<<j, i>> \in OpToRel(<, Nat))
  BY NatLessThanWellFounded, WFMin
<1>2. ASSUME NEW j \in S, j < i PROVE FALSE
  <2>1. <<j, i>> \in Nat \X Nat
    OBVIOUS
  <2>2. <<j, i>> \in OpToRel(<, Nat)
    BY <2>1, <1>2 DEF OpToRel
  <2>. QED BY <2>2, <1>1
<1>. QED
  BY <1>2

LEMMA Times ==
  ASSUME NEW a \in Nat, NEW b \in Int, NEW c \in Int, b <= c
  PROVE  b * a <= c * a
BY Z3

LEMMA Quotient ==
  ASSUME NEW x \in Int, NEW a \in Nat \ {0}
  PROVE  x \div a \in Int /\ (x \div a) * a <= x /\ x < (x \div a) * a + a
BY Z3

LEMMA DivMonotone ==
  ASSUME NEW x \in Int, NEW y \in Int, NEW a \in Nat \ {0}, x <= y
  PROVE  x \div a <= y \div a
<1>. DEFINE q == x \div a  r == y \div a
<1>1. q \in Int /\ r \in Int /\ q * a <= x /\ y < r * a + a
  BY Quotient
<1>. HIDE DEF q, r
<1>2. r + 1 <= q => (r + 1) * a <= q * a
  BY <1>1, Times
<1>3. (r + 1) * a = r * a + a
  BY <1>1
<1>. QED BY <1>1, <1>2, <1>3 DEF q, r

LEMMA MultipleOfOne ==
  ASSUME NEW x \in Int, NEW p \in Int, p = 1
  PROVE  \E k \in Int : x = k * p
<1>1. x * 1 = x
  OBVIOUS
<1>2. x * p = x
  BY <1>1, Zenon
<1>. QED BY <1>2

(* What ends before a multiple of the page size ends on an earlier page.     *)
LEMMA PageBefore ==
  ASSUME NEW x \in Int, NEW k \in Int, NEW a \in Nat \ {0}, NEW y \in Int, x < k * a, k * a <= y
  PROVE  x \div a < y \div a
<1>. DEFINE q == x \div a  r == y \div a
<1>1. q \in Int /\ r \in Int /\ q * a <= x /\ y < r * a + a
  BY Quotient
<1>. HIDE DEF q, r
<1>2. k <= q => k * a <= q * a
  BY <1>1, Times
<1>3. r + 1 <= k => (r + 1) * a <= k * a
  BY <1>1, Times
<1>4. (r + 1) * a = r * a + a
  BY <1>1
<1>5. k * a \in Int /\ q * a \in Int /\ r * a \in Int
  BY <1>1
<1>. QED BY <1>1, <1>2, <1>3, <1>4, <1>5 DEF q, r

-----------------------------------------------------------------------------
(* Counting and adding up                                                    *)

LEMMA Counting ==
  ASSUME NEW S, NEW T, IsFiniteSet(T), NEW f \in [S -> T],
         \A x, y \in S : f[x] = f[y] => x = y, \A y \in T : \E x \in S : f[x] = y
  PROVE  IsFiniteSet(S) /\ Cardinality(S) = Cardinality(T)
<1>1. f \in Injection(S, T) /\ f \in Surjection(S, T)
  BY DEF Injection, IsInjective, Surjection
<1>. QED BY <1>1, FS_Injection

LEMMA Enumerated ==
  ASSUME NEW T, IsFiniteSet(T), NEW n \in Nat, NEW f \in [1 .. n -> T],
         \A i, j \in 1 .. n : f[i] = f[j] => i = j, \A y \in T : \E i \in 1 .. n : f[i] = y
  PROVE  n = Cardinality(T)
<1>. DEFINE S == 1 .. n
<1>1. Cardinality(S) = n
  BY FS_Interval
<1>2. /\ f \in [S -> T] /\ \A i, j \in S : f[i] = f[j] => i = j
      /\ \A y \in T : \E i \in S : f[i] = y
  OBVIOUS
<1>. HIDE DEF S
<1>3. Cardinality(S) = Cardinality(T)
  BY <1>2, Counting
<1>. QED BY <1>1, <1>3

LEMMA Together ==
  ASSUME NEW S, NEW T, IsFiniteSet(S), IsFiniteSet(T), S \intersect T = {}
  PROVE  IsFiniteSet(S \union T) /\ Cardinality(S \union T) = Cardinality(S) + Cardinality(T)
BY FS_Union, FS_EmptySet, FS_CardinalityType

(* The numbers of a finite set, each with its rank among them                *)
LEMMA Ranked ==
  ASSUME NEW K \in SUBSET Nat, IsFiniteSet(K),
         NEW rank, rank = [i \in K |-> Cardinality({j \in K : j <= i})]
  PROVE  /\ rank \in [K -> 1 .. Cardinality(K)] /\ Cardinality(K) \in Nat
         /\ \A i, k \in K : i < k => rank[i] < rank[k]
         /\ \A d \in 1 .. Cardinality(K) : \E i \in K : rank[i] = d
<1>. DEFINE n == Cardinality(K)
            UpTo(i) == {j \in K : j <= i}
<1>1. n \in Nat
  BY FS_CardinalityType
<1>2. ASSUME NEW i \in K
      PROVE  /\ IsFiniteSet(UpTo(i)) /\ Cardinality(UpTo(i)) \in 1 .. n
             /\ rank[i] = Cardinality(UpTo(i))
  <2>1. UpTo(i) \in SUBSET K /\ i \in UpTo(i)
    OBVIOUS
  <2>2. rank[i] = Cardinality(UpTo(i))
    OBVIOUS
  <2>. HIDE DEF UpTo
  <2>3. IsFiniteSet(UpTo(i)) /\ Cardinality(UpTo(i)) <= n
    BY <2>1, FS_Subset
  <2>4. Cardinality(UpTo(i)) \in Nat /\ Cardinality(UpTo(i)) # 0
    BY <2>1, <2>3, FS_CardinalityType, FS_EmptySet
  <2>. QED BY <1>1, <2>2, <2>3, <2>4
<1>3. ASSUME NEW i \in K, NEW k \in K, i < k
      PROVE  rank[i] < rank[k]
  <2>0. i \in Nat /\ k \in Nat /\ \A j \in K : j \in Nat
    OBVIOUS
  <2>1. UpTo(i) \union {k} \in SUBSET UpTo(k) /\ k \notin UpTo(i)
    <3>1. \A j \in K : j <= i => j <= k
      BY <1>3, <2>0
    <3>2. UpTo(i) \subseteq UpTo(k)
      BY <3>1
    <3>3. k \in UpTo(k) /\ ~ (k <= i)
      BY <1>3, <2>0
    <3>. QED BY <3>2, <3>3
  <2>. HIDE DEF UpTo
  <2>2. Cardinality(UpTo(i) \union {k}) <= Cardinality(UpTo(k))
    BY <1>2, <2>1, FS_Subset
  <2>3. Cardinality(UpTo(i) \union {k}) = Cardinality(UpTo(i)) + 1
    BY <1>2, <2>1, FS_AddElement
  <2>. QED BY <1>1, <1>2, <2>2, <2>3
<1>4. rank \in [K -> 1 .. n]
  <2>1. rank = [i \in K |-> rank[i]]
    OBVIOUS
  <2>2. \A i \in K : rank[i] \in 1 .. n
    BY <1>2
  <2>. QED BY <2>1, <2>2
<1>5. rank \in Injection(K, 1 .. n)
  <2>1. ASSUME NEW i \in K, NEW k \in K, rank[i] = rank[k]
        PROVE  i = k
    <3>1. rank[i] \in Nat /\ rank[k] \in Nat /\ i \in Nat /\ k \in Nat
      BY <1>4
    <3>. QED BY <1>3, <2>1, <3>1
  <2>. QED BY <1>4, <2>1 DEF Injection, IsInjective
<1>6. IsFiniteSet(1 .. n) /\ Cardinality(1 .. n) = n
  BY <1>1, FS_Interval
<1>7. rank \in Surjection(K, 1 .. n)
  BY <1>5, <1>6, FS_Injection
<1>. QED BY <1>1, <1>3, <1>4, <1>7 DEF Surjection

(* As many things as the values of f on S add up to                          *)
Units(f, S) == UNION {{x} \X (1 .. f[x]) : x \in S}

(* f gives numbers to finitely many things.                                  *)
Sizing(f) == IsFiniteSet(DOMAIN f) /\ \A x \in DOMAIN f : f[x] \in Nat

LEMMA UnitsOf ==
  ASSUME NEW f, NEW S, \A x \in S : f[x] \in Nat
  PROVE  /\ \A x \in S : \A i \in 1 .. f[x] : <<x, i>> \in Units(f, S)
         /\ \A u \in Units(f, S) : u[1] \in S /\ u[2] \in 1 .. f[u[1]] /\ u = <<u[1], u[2]>>
BY DEF Units

LEMMA FamilyFinite ==
  ASSUME NEW S, IsFiniteSet(S), NEW F, \A x \in S : IsFiniteSet(F[x])
  PROVE  IsFiniteSet(UNION {F[x] : x \in S})
<1>. DEFINE T == {F[x] : x \in S}
            g == [x \in S |-> F[x]]
<1>1. g \in Surjection(S, T)
  BY DEF Surjection
<1>2. IsFiniteSet(T)
  BY <1>1, FS_Surjection
<1>. QED BY <1>2, FS_UNION

LEMMA UnitsFinite ==
  ASSUME NEW f, NEW S, IsFiniteSet(S), \A x \in S : f[x] \in Nat
  PROVE  IsFiniteSet(Units(f, S))
<1>. DEFINE F == [x \in S |-> {x} \X (1 .. f[x])]
<1>1. ASSUME NEW x \in S
      PROVE  IsFiniteSet(F[x])
  <2>. HIDE DEF F
  <2>1. IsFiniteSet({x}) /\ f[x] \in Nat
    BY FS_Singleton
  <2>2. IsFiniteSet(1 .. f[x])
    BY <2>1, FS_Interval
  <2>. QED BY <2>1, <2>2, FS_Product DEF F
<1>2. Units(f, S) = UNION {F[x] : x \in S}
  BY DEF Units
<1>. HIDE DEF F
<1>. QED BY <1>1, <1>2, FamilyFinite

LEMMA UnitsMore ==
  ASSUME NEW f, NEW S, IsFiniteSet(S), NEW x, x \notin S, \A y \in S \union {x} : f[y] \in Nat
  PROVE  Cardinality(Units(f, S \union {x})) = f[x] + Cardinality(Units(f, S))
<1>. DEFINE own == {x} \X (1 .. f[x])
<1>1. Units(f, S \union {x}) = Units(f, S) \union own /\ Units(f, S) \intersect own = {}
  BY DEF Units
<1>2. IsFiniteSet(Units(f, S)) /\ Cardinality(Units(f, S)) \in Nat
  BY UnitsFinite, FS_CardinalityType
<1>3. IsFiniteSet(own) /\ Cardinality(own) = f[x]
  <2>1. IsFiniteSet({x}) /\ Cardinality({x}) = 1 /\ f[x] \in Nat
    BY FS_Singleton
  <2>2. IsFiniteSet(1 .. f[x]) /\ Cardinality(1 .. f[x]) = f[x]
    BY <2>1, FS_Interval
  <2>3. IsFiniteSet(own) /\ Cardinality(own) = 1 * f[x]
    BY <2>1, <2>2, FS_Product
  <2>. QED BY <2>1, <2>3
<1>. HIDE DEF own
<1>4. Cardinality(Units(f, S \union {x})) = Cardinality(Units(f, S)) + Cardinality(own)
  BY <1>1, <1>2, <1>3, Together
<1>5. f[x] \in Nat
  OBVIOUS
<1>. QED BY <1>1, <1>2, <1>3, <1>4, <1>5

(* it sums up f, one value after the other.                                  *)
IsSumming(it, f) ==
  it = [s \in SUBSET (DOMAIN f) |-> IF s = {} THEN 0
                                   ELSE f[CHOOSE x \in s : TRUE] + it[s \ {CHOOSE x \in s : TRUE}]]

LEMMA SummingIs ==
  ASSUME NEW f
  PROVE  SumFunction(f) = (CHOOSE it : IsSumming(it, f))[DOMAIN f]
BY Zenon DEF SumFunction, SumFunctionOnSet, FoldFunctionOnSet, MapThenFoldSet, IsSumming

LEMMA SummingCounts ==
  ASSUME NEW f, Sizing(f), NEW it, IsSumming(it, f), NEW S \in SUBSET (DOMAIN f)
  PROVE  it[S] = Cardinality(Units(f, S))
<1>. DEFINE wrong == {s \in SUBSET (DOMAIN f) : it[s] # Cardinality(Units(f, s))}
            sizes == {Cardinality(s) : s \in wrong}
<1>1. \A s \in SUBSET (DOMAIN f) : IsFiniteSet(s) /\ Cardinality(s) \in Nat
  BY FS_Subset, FS_CardinalityType DEF Sizing
<1>2. SUFFICES ASSUME wrong # {} PROVE FALSE
  OBVIOUS
<1>3. sizes \in SUBSET Nat /\ sizes # {}
  BY <1>1, <1>2
<1>4. PICK n \in sizes : \A k \in sizes : n <= k
  <2>. HIDE DEF sizes
  <2>. QED BY <1>3, LeastOf
<1>5. PICK s \in wrong : \A r \in wrong : Cardinality(s) <= Cardinality(r)
  BY <1>4
<1>6. s \in SUBSET (DOMAIN f) /\ it[s] # Cardinality(Units(f, s))
  OBVIOUS
<1>. DEFINE x == CHOOSE y \in s : TRUE
            r == s \ {x}
<1>7. CASE s = {}
  <2>1. it[s] = 0
    BY <1>6, <1>7 DEF IsSumming
  <2>2. Units(f, s) = {}
    BY <1>7 DEF Units
  <2>. QED BY <1>6, <2>1, <2>2, FS_EmptySet
<1>8. CASE s # {}
  <2>1. x \in s /\ x \in DOMAIN f /\ r \in SUBSET (DOMAIN f) /\ x \notin r /\ s = r \union {x}
    BY <1>6, <1>8
  <2>2. it[s] = f[x] + it[r]
    BY <1>6, <1>8 DEF IsSumming
  <2>. HIDE DEF x
  <2>3. Cardinality(s) = Cardinality(r) + 1 /\ Cardinality(r) \in Nat
    BY <1>1, <2>1, FS_AddElement
  <2>4. it[r] = Cardinality(Units(f, r))
    <3>1. r \in wrong => Cardinality(s) <= Cardinality(r)
      BY <1>5
    <3>2. r \notin wrong
      BY <2>3, <3>1
    <3>. QED BY <2>1, <3>2
  <2>5. Cardinality(Units(f, s)) = f[x] + Cardinality(Units(f, r))
    BY <1>1, <2>1, UnitsMore DEF Sizing
  <2>. QED BY <1>6, <2>2, <2>4, <2>5
<1>. QED BY <1>7, <1>8

(* A sum of numbers is the number of things that many as they say.            *)
LEMMA SumIsCount ==
  ASSUME NEW f, Sizing(f)
  PROVE  /\ SumFunction(f) = Cardinality(Units(f, DOMAIN f))
         /\ SumFunction(f) \in Nat
<1>. DEFINE it == [s \in SUBSET (DOMAIN f) |-> Cardinality(Units(f, s))]
<1>1. IsSumming(it, f)
  <2>1. ASSUME NEW s \in SUBSET (DOMAIN f), s # {}
        PROVE  LET x == CHOOSE y \in s : TRUE IN it[s] = f[x] + it[s \ {x}]
    <3>. DEFINE x == CHOOSE y \in s : TRUE
                r == s \ {x}
    <3>1. x \in s
      BY <2>1
    <3>. HIDE DEF x
    <3>2. IsFiniteSet(r) /\ r \in SUBSET (DOMAIN f) /\ x \notin r /\ s = r \union {x}
      BY <3>1, FS_Subset DEF Sizing
    <3>3. Cardinality(Units(f, s)) = f[x] + Cardinality(Units(f, r))
      BY <3>1, <3>2, UnitsMore DEF Sizing
    <3>4. it[s] = f[x] + it[r]
      BY <3>2, <3>3
    <3>. QED BY <3>4 DEF x
  <2>2. {} \in SUBSET (DOMAIN f) /\ it[{}] = 0
    <3>1. Units(f, {}) = {}
      BY DEF Units
    <3>. QED BY <3>1, FS_EmptySet
  <2>3. it = [s \in SUBSET (DOMAIN f) |-> it[s]]
    OBVIOUS
  <2>. HIDE DEF it
  <2>. QED BY <2>1, <2>2, <2>3 DEF IsSumming
<1>2. IsSumming((CHOOSE i : IsSumming(i, f)), f)
  <2>. HIDE DEF it
  <2>. QED BY <1>1
<1>3. SumFunction(f) = Cardinality(Units(f, DOMAIN f))
  BY <1>2, SummingIs, SummingCounts
<1>4. IsFiniteSet(Units(f, DOMAIN f))
  BY UnitsFinite DEF Sizing
<1>. QED BY <1>3, <1>4, FS_CardinalityType

LEMMA SumOfNone ==
  ASSUME NEW f, DOMAIN f = {}
  PROVE  SumFunction(f) = 0
<1>1. Sizing(f) /\ Units(f, DOMAIN f) = {}
  BY FS_EmptySet DEF Sizing, Units
<1>. QED BY <1>1, SumIsCount, FS_EmptySet

(* A value more                                                              *)
LEMMA SumMore ==
  ASSUME NEW f, Sizing(f), NEW x \in DOMAIN f,
         NEW g, DOMAIN g = DOMAIN f \ {x}, \A y \in DOMAIN g : g[y] = f[y]
  PROVE  /\ SumFunction(f) = SumFunction(g) + f[x]
         /\ Cardinality(DOMAIN f) = Cardinality(DOMAIN g) + 1
<1>. DEFINE S == DOMAIN g
<1>1. IsFiniteSet(S) /\ x \notin S /\ DOMAIN f = S \union {x} /\ \A y \in S \union {x} : f[y] \in Nat
  BY FS_Subset DEF Sizing
<1>2. Sizing(g) /\ Units(g, S) = Units(f, S)
  BY <1>1 DEF Sizing, Units
<1>3. Cardinality(Units(f, S \union {x})) = f[x] + Cardinality(Units(f, S))
  BY <1>1, UnitsMore
<1>4. SumFunction(f) = Cardinality(Units(f, S \union {x})) /\ SumFunction(g) = Cardinality(Units(f, S))
  BY <1>1, <1>2, SumIsCount
<1>5. f[x] \in Nat /\ SumFunction(g) \in Nat
  BY <1>1, <1>2, SumIsCount
<1>6. Cardinality(DOMAIN f) = Cardinality(S) + 1
  BY <1>1, FS_AddElement
<1>. QED BY <1>3, <1>4, <1>5, <1>6

(* What is summed in two parts                                               *)
LEMMA SumApart ==
  ASSUME NEW f, Sizing(f), NEW g, NEW h,
         DOMAIN f = DOMAIN g \union DOMAIN h, DOMAIN g \intersect DOMAIN h = {},
         \A x \in DOMAIN g : g[x] = f[x], \A x \in DOMAIN h : h[x] = f[x]
  PROVE  /\ Sizing(g) /\ Sizing(h)
         /\ SumFunction(f) = SumFunction(g) + SumFunction(h)
<1>1. Sizing(g) /\ Sizing(h)
  BY FS_Subset DEF Sizing
<1>2. /\ Units(f, DOMAIN f) = Units(g, DOMAIN g) \union Units(h, DOMAIN h)
      /\ Units(g, DOMAIN g) \intersect Units(h, DOMAIN h) = {}
  BY DEF Units
<1>3. IsFiniteSet(Units(g, DOMAIN g)) /\ IsFiniteSet(Units(h, DOMAIN h))
  BY <1>1, UnitsFinite DEF Sizing
<1>. QED BY <1>1, <1>2, <1>3, SumIsCount, Together

(* What is summed under other names                                          *)
LEMMA SumRenamed ==
  ASSUME NEW f, NEW g, Sizing(g), NEW name \in [DOMAIN f -> DOMAIN g],
         \A x, y \in DOMAIN f : name[x] = name[y] => x = y,
         \A y \in DOMAIN g : \E x \in DOMAIN f : name[x] = y,
         \A x \in DOMAIN f : f[x] = g[name[x]]
  PROVE  Sizing(f) /\ SumFunction(f) = SumFunction(g)
<1>1. Sizing(f)
  BY Counting DEF Sizing
<1>. DEFINE U == Units(f, DOMAIN f)  V == Units(g, DOMAIN g)
            unit == [u \in U |-> <<name[u[1]], u[2]>>]
<1>2. /\ \A x \in DOMAIN f : \A i \in 1 .. f[x] : <<x, i>> \in U
      /\ \A u \in U : u[1] \in DOMAIN f /\ u[2] \in 1 .. f[u[1]] /\ u = <<u[1], u[2]>>
  BY <1>1, UnitsOf DEF Sizing
<1>3. /\ \A y \in DOMAIN g : \A i \in 1 .. g[y] : <<y, i>> \in V
      /\ \A w \in V : w[1] \in DOMAIN g /\ w[2] \in 1 .. g[w[1]] /\ w = <<w[1], w[2]>>
  BY UnitsOf DEF Sizing
<1>4. IsFiniteSet(V)
  BY UnitsFinite DEF Sizing
<1>. HIDE DEF U, V
<1>5. unit \in [U -> V]
  BY <1>2, <1>3
<1>6. \A u, w \in U : unit[u] = unit[w] => u = w
  BY <1>2
<1>7. \A w \in V : \E u \in U : unit[u] = w
  <2>1. SUFFICES ASSUME NEW w \in V
                 PROVE  \E u \in U : unit[u] = w
    OBVIOUS
  <2>2. PICK x \in DOMAIN f : name[x] = w[1]
    BY <1>3
  <2>3. <<x, w[2]>> \in U
    BY <1>2, <1>3, <2>2
  <2>4. unit[<<x, w[2]>>] = w
    BY <1>3, <2>2, <2>3
  <2>. QED BY <2>3, <2>4
<1>. HIDE DEF unit
<1>8. Cardinality(U) = Cardinality(V)
  BY <1>4, <1>5, <1>6, <1>7, Counting
<1>. QED BY <1>1, <1>8, SumIsCount DEF U, V

(* F gives each x in S a finite set, and no two of them share anything.       *)
Parting(S, F) ==
  /\ IsFiniteSet(S) /\ \A x \in S : IsFiniteSet(F[x])
  /\ \A x, y \in S : x # y => F[x] \intersect F[y] = {}

(* Counting part by part                                                     *)
LEMMA SumOfParts ==
  ASSUME NEW S, NEW F, Parting(S, F), NEW f, DOMAIN f = S, \A x \in S : f[x] = Cardinality(F[x])
  PROVE  SumFunction(f) = Cardinality(UNION {F[x] : x \in S})
<1>. DEFINE whole == UNION {F[x] : x \in S}
            U == Units(f, S)
            Lists(x) == Bijection(1 .. f[x], F[x])
            in == [x \in S |-> CHOOSE b \in Lists(x) : TRUE]
            unit == [u \in U |-> in[u[1]][u[2]]]
<1>1. Sizing(f)
  BY FS_CardinalityType DEF Sizing, Parting
<1>2. ASSUME NEW x \in S
      PROVE  /\ in[x] \in [1 .. f[x] -> F[x]]
             /\ \A i, j \in 1 .. f[x] : in[x][i] = in[x][j] => i = j
             /\ \A e \in F[x] : \E i \in 1 .. f[x] : in[x][i] = e
  <2>1. Lists(x) # {}
    BY FS_CardinalityType DEF Parting, ExistsBijection
  <2>2. in[x] \in Lists(x)
    BY <2>1
  <2>. HIDE DEF in
  <2>. QED BY <2>2 DEF Bijection, Injection, IsInjective, Surjection
<1>. HIDE DEF in
<1>3. /\ \A x \in S : \A i \in 1 .. f[x] : <<x, i>> \in U
      /\ \A u \in U : u[1] \in S /\ u[2] \in 1 .. f[u[1]] /\ u = <<u[1], u[2]>>
  BY <1>1, UnitsOf DEF Sizing
<1>. HIDE DEF U
<1>9. \A u \in U : unit[u] = in[u[1]][u[2]] /\ unit[u] \in F[u[1]]
  <2>1. SUFFICES ASSUME NEW u \in U
                 PROVE  in[u[1]][u[2]] \in F[u[1]]
    OBVIOUS
  <2>2. u[1] \in S /\ u[2] \in 1 .. f[u[1]]
    BY <1>3
  <2>3. in[u[1]] \in [1 .. f[u[1]] -> F[u[1]]]
    BY <1>2, <2>2
  <2>. QED BY <2>2, <2>3
<1>4. unit \in [U -> whole]
  BY <1>3, <1>9
<1>5. ASSUME NEW u \in U, NEW w \in U, unit[u] = unit[w]
      PROVE  u = w
  <2>1. unit[u] \in F[u[1]] /\ unit[w] \in F[w[1]]
    BY <1>9
  <2>2. u[1] = w[1]
    BY <1>3, <1>5, <2>1 DEF Parting
  <2>3. in[u[1]][u[2]] = in[u[1]][w[2]]
    BY <1>5, <2>2
  <2>. QED BY <1>2, <1>3, <2>2, <2>3
<1>6. ASSUME NEW e \in whole
      PROVE  \E u \in U : unit[u] = e
  <2>1. PICK x \in S : e \in F[x]
    OBVIOUS
  <2>2. PICK i \in 1 .. f[x] : in[x][i] = e
    BY <1>2, <2>1
  <2>3. <<x, i>> \in U /\ unit[<<x, i>>] = e
    BY <1>3, <2>2
  <2>. QED BY <2>3
<1>7. IsFiniteSet(whole)
  BY FamilyFinite DEF Parting
<1>. HIDE DEF whole, unit
<1>8. Cardinality(U) = Cardinality(whole)
  BY <1>4, <1>5, <1>6, <1>7, Counting
<1>. QED BY <1>1, <1>8, SumIsCount DEF U, whole

(* Summing part by part                                                      *)
LEMMA SumOfSums ==
  ASSUME NEW S, NEW F, Parting(S, F), NEW g, DOMAIN g = UNION {F[x] : x \in S}, Sizing(g),
         NEW f, DOMAIN f = S, \A x \in S : f[x] = SumFunction([e \in F[x] |-> g[e]])
  PROVE  SumFunction(f) = SumFunction(g)
<1>. DEFINE G == [x \in S |-> Units(g, F[x])]
            Part(x) == [e \in F[x] |-> g[e]]
<1>1. ASSUME NEW x \in S
      PROVE  /\ IsFiniteSet(G[x]) /\ f[x] = Cardinality(G[x])
             /\ \A e \in F[x] : e \in DOMAIN g /\ g[e] \in Nat
  <2>1. \A e \in F[x] : e \in DOMAIN g /\ g[e] \in Nat
    BY DEF Sizing
  <2>2. Sizing(Part(x)) /\ Units(Part(x), DOMAIN Part(x)) = Units(g, F[x])
    BY <2>1 DEF Sizing, Units, Parting
  <2>3. f[x] = Cardinality(Units(g, F[x]))
    BY <2>2, SumIsCount
  <2>4. IsFiniteSet(Units(g, F[x]))
    BY <2>1, UnitsFinite DEF Parting
  <2>. QED BY <2>1, <2>3, <2>4
<1>2. ASSUME NEW x \in S, NEW y \in S, x # y
      PROVE  G[x] \intersect G[y] = {}
  BY <1>2 DEF Parting, Units
<1>3. UNION {G[x] : x \in S} = Units(g, DOMAIN g)
  <2>1. \A x \in S : G[x] = UNION {{e} \X (1 .. g[e]) : e \in F[x]}
    BY DEF Units
  <2>2. Units(g, DOMAIN g) = UNION {{e} \X (1 .. g[e]) : e \in DOMAIN g}
    BY DEF Units
  <2>. HIDE DEF G
  <2>3. ASSUME NEW u \in UNION {G[x] : x \in S}
        PROVE  u \in Units(g, DOMAIN g)
    <3>1. PICK x \in S : u \in G[x]
      OBVIOUS
    <3>2. PICK e \in F[x] : u \in {e} \X (1 .. g[e])
      BY <2>1, <3>1
    <3>. QED BY <2>2, <3>2
  <2>4. ASSUME NEW u \in Units(g, DOMAIN g)
        PROVE  u \in UNION {G[x] : x \in S}
    <3>1. PICK e \in DOMAIN g : u \in {e} \X (1 .. g[e])
      BY <2>2
    <3>2. PICK x \in S : e \in F[x]
      OBVIOUS
    <3>. QED BY <2>1, <3>1, <3>2
  <2>. QED BY <2>3, <2>4
<1>. HIDE DEF G
<1>4. Parting(S, G)
  BY <1>1, <1>2 DEF Parting
<1>5. SumFunction(f) = Cardinality(UNION {G[x] : x \in S})
  BY <1>1, <1>4, SumOfParts
<1>. QED BY <1>3, <1>5, SumIsCount
=============================================================================
