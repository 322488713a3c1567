----------------------------- MODULE TlsfProofs -----------------------------
(***************************************************************************)
(* Proofs about Tlsf.tla and its validation in Statistics.tla, for every   *)
(* size of the block, every granularity and whatever is asked for. TlsfInv *)
(* says that the physical blocks lie one after another, that the lists,    *)
(* bitmaps, counters and pages say the same as they do and that no free    *)
(* neighbours stay apart. From it follow the metadata's own validation,    *)
(* that no request is refused which fits somewhere and, for requests       *)
(* larger than a page, that TLSF is a heap.                                *)
(***************************************************************************)
EXTENDS Statistics, CountingProofs

-----------------------------------------------------------------------------
(* Sequences                                                                 *)

IsInserted(S, s, i, e, r) ==
  /\ r \in Seq(S) /\ Len(r) = Len(s) + 1
  /\ \A j \in 1 .. Len(s) + 1 : r[j] = IF j < i THEN s[j] ELSE IF j = i THEN e ELSE s[j - 1]

LEMMA InsertedIs ==
  ASSUME NEW S, NEW s \in Seq(S), NEW i \in 1 .. Len(s) + 1, NEW e \in S
  PROVE  IsInserted(S, s, i, e, InsertAt(s, i, e))
<1>. DEFINE a == SubSeq(s, 1, i - 1)
            b == <<e>>
            c == SubSeq(s, i, Len(s))
<1>0. Len(s) \in Nat /\ i \in Nat
  OBVIOUS
<1>1. a \in Seq(S) /\ Len(a) = i - 1 /\ \A j \in 1 .. i - 1 : a[j] = s[j]
  OBVIOUS
<1>2. b \in Seq(S) /\ Len(b) = 1 /\ b[1] = e
  OBVIOUS
<1>3. c \in Seq(S) /\ Len(c) = Len(s) - i + 1 /\ \A j \in 1 .. Len(s) - i + 1 : c[j] = s[i + j - 1]
  OBVIOUS
<1>4. InsertAt(s, i, e) = (a \o b) \o c
  BY DEF InsertAt
<1>. HIDE DEF a, b, c
<1>. DEFINE d == a \o b
            r == d \o c
<1>5. /\ d \in Seq(S) /\ Len(d) = i
      /\ \A j \in 1 .. i - 1 : d[j] = s[j]
      /\ d[i] = e
  <2>1. /\ d \in Seq(S) /\ Len(d) = Len(a) + Len(b)
        /\ \A j \in 1 .. Len(a) + Len(b) : d[j] = IF j <= Len(a) THEN a[j] ELSE b[j - Len(a)]
    BY <1>1, <1>2, ConcatProperties
  <2>2. Len(a) + Len(b) = i /\ i - Len(a) = 1
    BY <1>0, <1>1, <1>2
  <2>3. d[i] = b[1]
    BY <1>0, <1>1, <2>1, <2>2
  <2>4. \A j \in 1 .. i - 1 : d[j] = a[j]
    BY <1>0, <1>1, <2>1, <2>2
  <2>. QED BY <1>1, <1>2, <2>1, <2>2, <2>3, <2>4
<1>. HIDE DEF d
<1>6. /\ r \in Seq(S) /\ Len(r) = Len(s) + 1
      /\ \A j \in 1 .. i : r[j] = d[j]
      /\ \A j \in i + 1 .. Len(s) + 1 : r[j] = c[j - i]
  <2>1. /\ r \in Seq(S) /\ Len(r) = Len(d) + Len(c)
        /\ \A j \in 1 .. Len(d) + Len(c) : r[j] = IF j <= Len(d) THEN d[j] ELSE c[j - Len(d)]
    BY <1>3, <1>5, ConcatProperties
  <2>2. Len(d) + Len(c) = Len(s) + 1
    BY <1>0, <1>3, <1>5
  <2>. QED BY <1>0, <1>5, <2>1, <2>2
<1>. HIDE DEF r
<1>7. ASSUME NEW j \in 1 .. Len(s) + 1
      PROVE  r[j] = IF j < i THEN s[j] ELSE IF j = i THEN e ELSE s[j - 1]
  <2>1. CASE j <= i
    BY <1>0, <1>5, <1>6, <2>1
  <2>2. CASE j > i
    <3>1. j - i \in 1 .. Len(s) - i + 1 /\ i + (j - i) - 1 = j - 1
      BY <1>0, <2>2
    <3>2. c[j - i] = s[i + (j - i) - 1]
      BY <1>3, <3>1
    <3>. QED BY <1>0, <1>6, <2>2, <3>1, <3>2
  <2>. QED BY <1>0, <2>1, <2>2
<1>8. IsInserted(S, s, i, e, r)
  BY <1>6, <1>7 DEF IsInserted
<1>. QED BY <1>4, <1>8 DEF d, r

LEMMA RemovedIs ==
  ASSUME NEW S, NEW s \in Seq(S), NEW i \in DOMAIN s
  PROVE  /\ RemoveAt(s, i) \in Seq(S) /\ Len(RemoveAt(s, i)) = Len(s) - 1
         /\ \A j \in 1 .. Len(s) - 1 : RemoveAt(s, i)[j] = IF j < i THEN s[j] ELSE s[j + 1]
<1>. DEFINE a == SubSeq(s, 1, i - 1)
            c == SubSeq(s, i + 1, Len(s))
<1>0. Len(s) \in Nat /\ i \in 1 .. Len(s)
  OBVIOUS
<1>1. a \in Seq(S) /\ Len(a) = i - 1 /\ \A j \in 1 .. i - 1 : a[j] = s[j]
  BY <1>0
<1>2. c \in Seq(S) /\ Len(c) = Len(s) - i /\ \A j \in 1 .. Len(s) - i : c[j] = s[i + j]
  BY <1>0
<1>3. RemoveAt(s, i) = a \o c
  BY DEF RemoveAt
<1>. DEFINE r == a \o c
<1>. HIDE DEF a, c
<1>4. /\ r \in Seq(S) /\ Len(r) = Len(s) - 1
      /\ \A j \in 1 .. i - 1 : r[j] = a[j]
      /\ \A j \in i .. Len(s) - 1 : r[j] = c[j - (i - 1)]
  BY <1>0, <1>1, <1>2
<1>. HIDE DEF r
<1>5. ASSUME NEW j \in 1 .. Len(s) - 1
      PROVE  r[j] = IF j < i THEN s[j] ELSE s[j + 1]
  <2>1. CASE j < i
    BY <1>0, <1>1, <1>4, <2>1
  <2>2. CASE j >= i
    <3>1. j - (i - 1) \in 1 .. Len(s) - i /\ i + (j - (i - 1)) = j + 1
      BY <1>0, <2>2
    <3>2. c[j - (i - 1)] = s[i + (j - (i - 1))]
      BY <1>2, <3>1
    <3>. QED BY <1>0, <1>4, <2>2, <3>1, <3>2
  <2>. QED BY <1>0, <2>1, <2>2
<1>. QED BY <1>3, <1>4, <1>5 DEF r

LEMMA UnlinkedIs ==
  ASSUME NEW s \in Seq(Nat), IsInjective(s), NEW x \in ToSet(s)
  PROVE  /\ Unlinked(s, x) \in Seq(Nat) /\ IsInjective(Unlinked(s, x))
         /\ ToSet(Unlinked(s, x)) = ToSet(s) \ {x}
<1>. DEFINE i == CHOOSE k \in DOMAIN s : s[k] = x
            r == RemoveAt(s, i)
<1>1. i \in DOMAIN s /\ s[i] = x
  BY DEF ToSet
<1>2. Unlinked(s, x) = r
  BY DEF Unlinked
<1>. HIDE DEF i
<1>3. /\ r \in Seq(Nat) /\ Len(r) = Len(s) - 1
      /\ \A j \in 1 .. Len(s) - 1 : r[j] = IF j < i THEN s[j] ELSE s[j + 1]
  BY <1>1, RemovedIs
<1>4. Len(s) \in Nat /\ DOMAIN s = 1 .. Len(s) /\ i \in 1 .. Len(s)
  BY <1>1
<1>. HIDE DEF r
<1>5. DOMAIN r = 1 .. Len(s) - 1
  BY <1>3, <1>4
<1>6. ASSUME NEW j \in DOMAIN r
      PROVE  \E k \in DOMAIN s : /\ r[j] = s[k]
                                 /\ (j < i /\ k < i /\ k = j) \/ (j >= i /\ k > i /\ k = j + 1)
  <2>1. CASE j < i
    <3>1. j \in DOMAIN s /\ j \in 1 .. Len(s) - 1
      BY <1>4, <1>5
    <3>. QED BY <1>3, <2>1, <3>1
  <2>2. CASE j >= i
    <3>1. j + 1 \in DOMAIN s /\ j \in 1 .. Len(s) - 1 /\ ~ (j < i) /\ j + 1 > i
      BY <1>4, <1>5, <2>2
    <3>. QED BY <1>3, <2>2, <3>1
  <2>. QED BY <1>4, <1>5, <2>1, <2>2
<1>7. ASSUME NEW k \in DOMAIN s, k # i PROVE \E j \in DOMAIN r : r[j] = s[k]
  <2>1. CASE k < i
    <3>1. k \in DOMAIN r /\ k \in 1 .. Len(s) - 1
      BY <1>4, <1>5, <2>1
    <3>. QED BY <1>3, <2>1, <3>1
  <2>2. CASE k > i
    <3>1. k - 1 \in DOMAIN r /\ ~ (k - 1 < i) /\ (k - 1) + 1 = k
      BY <1>4, <1>5, <2>2
    <3>. QED BY <1>3, <1>5, <3>1
  <2>. QED BY <1>4, <1>7, <2>1, <2>2
<1>8. ToSet(r) = ToSet(s) \ {x}
  <2>1. \A k \in DOMAIN s : s[k] = x => k = i
    BY <1>1 DEF IsInjective
  <2>2. ASSUME NEW y \in ToSet(r) PROVE y \in ToSet(s) \ {x}
    <3>1. PICK j \in DOMAIN r : r[j] = y
      BY DEF ToSet
    <3>2. PICK k \in DOMAIN s : r[j] = s[k] /\ k # i
      BY <1>4, <1>6
    <3>. QED BY <2>1, <3>1, <3>2 DEF ToSet
  <2>3. ASSUME NEW y \in ToSet(s) \ {x} PROVE y \in ToSet(r)
    <3>1. PICK k \in DOMAIN s : s[k] = y
      BY DEF ToSet
    <3>2. k # i
      BY <1>1, <3>1
    <3>. QED BY <1>7, <3>1, <3>2 DEF ToSet
  <2>. QED BY <2>2, <2>3
<1>9. IsInjective(r)
  <2>1. SUFFICES ASSUME NEW a \in DOMAIN r, NEW b \in DOMAIN r, r[a] = r[b] PROVE a = b
    BY DEF IsInjective
  <2>2. a \in Nat /\ b \in Nat /\ i \in Nat
    BY <1>4, <1>5
  <2>3. PICK k \in DOMAIN s : /\ r[a] = s[k]
                              /\ (a < i /\ k < i /\ k = a) \/ (a >= i /\ k > i /\ k = a + 1)
    BY <1>6
  <2>4. PICK l \in DOMAIN s : /\ r[b] = s[l]
                              /\ (b < i /\ l < i /\ l = b) \/ (b >= i /\ l > i /\ l = b + 1)
    BY <1>6
  <2>5. k = l
    <3>1. s[k] = s[l]
      BY <2>1, <2>3, <2>4
    <3>. QED BY <3>1 DEF IsInjective
  <2>. QED BY ONLY <2>2, <2>3, <2>4, <2>5
<1>. QED BY <1>2, <1>3, <1>8, <1>9

LEMMA LinkedIs ==
  ASSUME NEW s \in Seq(Nat), IsInjective(s), NEW x \in Nat, x \notin ToSet(s)
  PROVE  /\ <<x>> \o s \in Seq(Nat) /\ IsInjective(<<x>> \o s)
         /\ ToSet(<<x>> \o s) = ToSet(s) \union {x}
<1>. DEFINE r == <<x>> \o s
<1>1. /\ r \in Seq(Nat) /\ Len(r) = Len(s) + 1 /\ Len(s) \in Nat /\ DOMAIN s = 1 .. Len(s)
      /\ r[1] = x /\ \A j \in 2 .. Len(s) + 1 : r[j] = s[j - 1]
  OBVIOUS
<1>. HIDE DEF r
<1>2. DOMAIN r = 1 .. Len(s) + 1
  BY <1>1
<1>3. \A j \in DOMAIN r : j # 1 => j - 1 \in DOMAIN s /\ r[j] = s[j - 1]
  BY <1>1, <1>2
<1>4. \A k \in DOMAIN s : k + 1 \in DOMAIN r /\ r[k + 1] = s[k]
  <2>. TAKE k \in DOMAIN s
  <2>1. k + 1 \in 2 .. Len(s) + 1 /\ (k + 1) - 1 = k
    BY <1>1
  <2>. QED BY <1>1, <1>2, <2>1
<1>5. ToSet(r) = ToSet(s) \union {x}
  <2>1. ASSUME NEW y \in ToSet(r) PROVE y \in ToSet(s) \union {x}
    BY <1>1, <1>3 DEF ToSet
  <2>2. ASSUME NEW y \in ToSet(s) \union {x} PROVE y \in ToSet(r)
    <3>1. 1 \in DOMAIN r
      BY <1>1, <1>2
    <3>. QED BY <1>1, <1>4, <3>1 DEF ToSet
  <2>. QED BY <2>1, <2>2
<1>6. IsInjective(r)
  <2>1. SUFFICES ASSUME NEW a \in DOMAIN r, NEW b \in DOMAIN r, r[a] = r[b] PROVE a = b
    BY DEF IsInjective
  <2>2. a \in Nat /\ b \in Nat
    BY <1>1, <1>2
  <2>3. \A j \in DOMAIN r : j # 1 => r[j] # x
    BY <1>3 DEF ToSet
  <2>4. CASE a # 1 /\ b # 1
    <3>1. a - 1 = b - 1
      BY <1>3, <2>1, <2>4 DEF IsInjective
    <3>. QED BY <2>2, <3>1
  <2>. QED BY <1>1, <2>1, <2>3, <2>4
<1>. QED BY <1>1, <1>5, <1>6 DEF r

(* What a sequence of sequences of elements is flattened to, up to each place *)
IsFlattening(it, ss, n) ==
  it = [i \in 1 .. n |-> IF i = 1 THEN ss[i] ELSE it[i - 1] \o ss[i]]

LEMMA FlatteningIs ==
  ASSUME NEW ss, Len(ss) # 0
  PROVE  FlattenSeq(ss) = (CHOOSE it : IsFlattening(it, ss, Len(ss)))[Len(ss)]
BY Zenon DEF FlattenSeq, IsFlattening

LEMMA FlatteningExists ==
  ASSUME NEW ss, NEW n \in Nat
  PROVE  \E it : IsFlattening(it, ss, n)
<1>. DEFINE without == {k \in Nat : ~ \E it : IsFlattening(it, ss, k)}
<1>1. SUFFICES ASSUME without # {} PROVE FALSE
  OBVIOUS
<1>2. PICK k \in without : \A j \in without : k <= j
  BY <1>1, LeastOf
<1>3. CASE k = 0
  <2>. DEFINE it == [i \in 1 .. 0 |-> ss]
  <2>1. it = [i \in 1 .. 0 |-> IF i = 1 THEN ss[i] ELSE it[i - 1] \o ss[i]]
    OBVIOUS
  <2>. QED BY <1>2, <1>3, <2>1 DEF IsFlattening
<1>4. CASE k # 0
  <2>1. k - 1 \in Nat /\ k - 1 \notin without
    BY <1>2, <1>4
  <2>2. PICK g : IsFlattening(g, ss, k - 1)
    BY <2>1
  <2>. DEFINE it == [i \in 1 .. k |-> IF i = 1 THEN ss[i] ELSE g[i - 1] \o ss[i]]
  <2>3. ASSUME NEW i \in 1 .. k PROVE i # 1 => it[i - 1] = g[i - 1]
    <3>1. \A j \in 1 .. k - 1 : g[j] = IF j = 1 THEN ss[j] ELSE g[j - 1] \o ss[j]
      BY <2>2 DEF IsFlattening
    <3>2. i # 1 => i - 1 \in 1 .. k - 1 /\ i - 1 \in 1 .. k
      BY <1>2
    <3>. QED BY <3>1, <3>2
  <2>4. it = [i \in 1 .. k |-> IF i = 1 THEN ss[i] ELSE it[i - 1] \o ss[i]]
    BY <2>3
  <2>. HIDE DEF it
  <2>. QED BY <1>2, <2>4 DEF IsFlattening
<1>. QED BY <1>3, <1>4

LEMMA FlattenedIn ==
  ASSUME NEW S, NEW ss \in Seq(Seq(S))
  PROVE  FlattenSeq(ss) \in Seq(S)
<1>. DEFINE n == Len(ss)
            it == CHOOSE g : IsFlattening(g, ss, n)
            wrong == {k \in Nat : k \in 1 .. n /\ it[k] \notin Seq(S)}
<1>0. n \in Nat /\ \A k \in 1 .. n : ss[k] \in Seq(S)
  OBVIOUS
<1>1. CASE n = 0
  BY <1>1 DEF FlattenSeq
<1>2. CASE n # 0
  <2>1. FlattenSeq(ss) = it[n]
    BY <1>2, FlatteningIs
  <2>2. IsFlattening(it, ss, n)
    BY <1>0, FlatteningExists
  <2>. HIDE DEF it, n
  <2>3. \A k \in 1 .. n : it[k] = IF k = 1 THEN ss[k] ELSE it[k - 1] \o ss[k]
    BY <2>2 DEF IsFlattening
  <2>4. SUFFICES ASSUME wrong # {} PROVE FALSE
    BY <1>0, <1>2, <2>1
  <2>5. PICK k \in wrong : \A j \in wrong : k <= j
    BY <2>4, LeastOf
  <2>6. k \in 1 .. n /\ k # 1
    BY <1>0, <2>3, <2>5
  <2>7. k - 1 \in 1 .. n /\ k - 1 \notin wrong
    BY <1>0, <2>5, <2>6
  <2>8. it[k - 1] \in Seq(S) /\ ss[k] \in Seq(S) /\ it[k] = it[k - 1] \o ss[k]
    <3>1. it[k - 1] \in Seq(S)
      BY <1>0, <2>7
    <3>2. it[k] = it[k - 1] \o ss[k]
      BY <2>3, <2>6
    <3>. QED BY <1>0, <2>6, <3>1, <3>2
  <2>. QED BY <2>5, <2>8, ConcatProperties
<1>. QED BY <1>1, <1>2

(* Nothing is lost when sequences are flattened.                             *)
LEMMA FlattenedAll ==
  ASSUME NEW S, NEW ss \in Seq(Seq(S)), NEW i \in 1 .. Len(ss), NEW j \in DOMAIN ss[i]
  PROVE  \E x \in DOMAIN FlattenSeq(ss) : FlattenSeq(ss)[x] = ss[i][j]
<1>. DEFINE n == Len(ss)
            it == CHOOSE g : IsFlattening(g, ss, n)
            e == ss[i][j]
            Has(k) == it[k] \in Seq(S) /\ (i <= k => \E x \in DOMAIN it[k] : it[k][x] = e)
            wrong == {k \in Nat : k \in 1 .. n /\ ~ Has(k)}
<1>0. n \in Nat /\ n # 0 /\ (\A k \in 1 .. n : ss[k] \in Seq(S)) /\ i \in 1 .. n
  OBVIOUS
<1>1. FlattenSeq(ss) = it[n]
  BY <1>0, FlatteningIs
<1>2. IsFlattening(it, ss, n)
  BY <1>0, FlatteningExists
<1>. HIDE DEF it, n
<1>3. \A k \in 1 .. n : it[k] = IF k = 1 THEN ss[k] ELSE it[k - 1] \o ss[k]
  BY <1>2 DEF IsFlattening
<1>. HIDE DEF Has
<1>4. SUFFICES ASSUME wrong # {} PROVE FALSE
  <2>1. n \in Nat /\ n \in 1 .. n
    BY <1>0
  <2>2. ASSUME ~ Has(n) PROVE n \in wrong
    BY Zenon, <2>1, <2>2
  <2>3. wrong = {} => Has(n)
    BY <2>2
  <2>. HIDE DEF wrong, e
  <2>4. Has(n) => \E x \in DOMAIN it[n] : it[n][x] = e
    BY <1>0 DEF Has
  <2>. QED BY <1>1, <2>3, <2>4 DEF e
<1>5. PICK k \in wrong : \A h \in wrong : k <= h
  BY <1>4, LeastOf
<1>6. k \in 1 .. n /\ ~ Has(k)
  BY <1>5
<1>7. j \in DOMAIN ss[i] /\ ss[i][j] = e
  OBVIOUS
<1>. HIDE DEF e
<1>8. k # 1
  <2>1. SUFFICES ASSUME k = 1 PROVE FALSE
    OBVIOUS
  <2>2. it[k] = ss[k] /\ (i <= k => i = k) /\ ss[k] \in Seq(S)
    BY <1>0, <1>3, <1>6, <2>1
  <2>3. i <= k => \E x \in DOMAIN it[k] : it[k][x] = e
    BY <1>7, <2>2
  <2>. QED BY <1>6, <2>2, <2>3 DEF Has
<1>9. k - 1 \in 1 .. n /\ Has(k - 1)
  <2>1. k - 1 \in 1 .. n /\ k - 1 \in Nat /\ ~ (k <= k - 1)
    BY <1>0, <1>6, <1>8
  <2>2. k - 1 \notin wrong
    BY <1>5, <2>1
  <2>. QED BY <2>1, <2>2
<1>. DEFINE p == it[k - 1]
            s == ss[k]
<1>10. p \in Seq(S) /\ s \in Seq(S) /\ it[k] = p \o s
  BY <1>0, <1>3, <1>6, <1>8, <1>9 DEF Has
<1>11. (i <= k - 1 => \E x \in DOMAIN p : p[x] = e) /\ (i = k => \E x \in DOMAIN s : s[x] = e)
  BY <1>7, <1>9 DEF Has
<1>. HIDE DEF p, s
<1>12. /\ \A x \in DOMAIN p : x \in DOMAIN (p \o s) /\ (p \o s)[x] = p[x]
       /\ \A x \in DOMAIN s : Len(p) + x \in DOMAIN (p \o s) /\ (p \o s)[Len(p) + x] = s[x]
       /\ p \o s \in Seq(S)
  BY <1>10
<1>13. i <= k => i <= k - 1 \/ i = k
  BY <1>0, <1>6
<1>14. i <= k => \E x \in DOMAIN (p \o s) : (p \o s)[x] = e
  BY <1>11, <1>12, <1>13
<1>. QED BY <1>6, <1>10, <1>12, <1>14 DEF Has

-----------------------------------------------------------------------------
(* Powers of two                                                             *)

IsBits(it, n) == it = [k \in 0 .. n |-> IF k = 0 THEN 1 ELSE 2 * it[k - 1]]

LEMMA BitsUnique ==
  ASSUME NEW m \in Nat, NEW n \in Nat, NEW a, NEW b, IsBits(a, m), IsBits(b, n),
         NEW k \in 0 .. m, k <= n
  PROVE  a[k] = b[k]
<1>. DEFINE wrong == {j \in Nat : j <= m /\ j <= n /\ a[j] # b[j]}
<1>1. \A j \in 0 .. m : a[j] = IF j = 0 THEN 1 ELSE 2 * a[j - 1]
  BY DEF IsBits
<1>2. \A j \in 0 .. n : b[j] = IF j = 0 THEN 1 ELSE 2 * b[j - 1]
  BY DEF IsBits
<1>3. SUFFICES ASSUME wrong # {} PROVE FALSE
  BY DEF wrong
<1>4. PICK j \in wrong : \A i \in wrong : j <= i
  BY <1>3, LeastOf
<1>5. j \in 0 .. m /\ j \in 0 .. n /\ j # 0
  BY <1>1, <1>2, <1>4
<1>6. a[j - 1] = b[j - 1]
  BY <1>4, <1>5
<1>. QED BY <1>1, <1>2, <1>4, <1>5, <1>6

LEMMA BitsExist ==
  ASSUME NEW n \in Nat
  PROVE  \E it : IsBits(it, n)
<1>. DEFINE without == {k \in Nat : ~ \E it : IsBits(it, k)}
<1>1. SUFFICES ASSUME without # {} PROVE FALSE
  OBVIOUS
<1>2. PICK k \in without : \A j \in without : k <= j
  BY <1>1, LeastOf
<1>3. CASE k = 0
  <2>. DEFINE it == [j \in 0 .. 0 |-> 1]
  <2>1. it = [j \in 0 .. 0 |-> IF j = 0 THEN 1 ELSE 2 * it[j - 1]]
    OBVIOUS
  <2>. QED BY <1>2, <1>3, <2>1 DEF IsBits
<1>4. CASE k # 0
  <2>1. k - 1 \in Nat /\ k - 1 \notin without
    BY <1>2, <1>4
  <2>2. PICK g : IsBits(g, k - 1)
    BY <2>1
  <2>. DEFINE it == [j \in 0 .. k |-> IF j = 0 THEN 1 ELSE 2 * g[j - 1]]
  <2>3. ASSUME NEW j \in 0 .. k PROVE j # 0 => it[j - 1] = g[j - 1]
    <3>1. \A i \in 0 .. k - 1 : g[i] = IF i = 0 THEN 1 ELSE 2 * g[i - 1]
      BY <2>2 DEF IsBits
    <3>2. j # 0 => j - 1 \in 0 .. k - 1 /\ j - 1 \in 0 .. k
      BY <1>2
    <3>. QED BY <3>1, <3>2
  <2>4. it = [j \in 0 .. k |-> IF j = 0 THEN 1 ELSE 2 * it[j - 1]]
    BY <2>3
  <2>. HIDE DEF it
  <2>. QED BY <1>2, <2>4 DEF IsBits
<1>. QED BY <1>3, <1>4

LEMMA BitIs == \A n \in Nat : Bit[n] = IF n = 0 THEN 1 ELSE 2 * Bit[n - 1]
<1>. DEFINE upTo(n) == CHOOSE it : IsBits(it, n)
            f == [n \in Nat |-> upTo(n)[n]]
<1>1. \A n \in Nat : IsBits(upTo(n), n)
  BY BitsExist
<1>. HIDE DEF upTo
<1>2. ASSUME NEW n \in Nat PROVE f[n] = IF n = 0 THEN 1 ELSE 2 * f[n - 1]
  <2>1. upTo(n)[n] = IF n = 0 THEN 1 ELSE 2 * upTo(n)[n - 1]
    BY <1>1 DEF IsBits
  <2>2. n # 0 => n - 1 \in Nat /\ upTo(n)[n - 1] = upTo(n - 1)[n - 1]
    BY <1>1, BitsUnique
  <2>. QED BY <2>1, <2>2
<1>3. f = [n \in Nat |-> IF n = 0 THEN 1 ELSE 2 * f[n - 1]]
  BY <1>2
<1>. HIDE DEF f
<1>4. Bit = [n \in Nat |-> IF n = 0 THEN 1 ELSE 2 * Bit[n - 1]]
  BY <1>3 DEF Bit
<1>. QED BY <1>4

LEMMA BitNext ==
  /\ Bit[0] = 1
  /\ \A n \in Nat : Bit[n] \in Nat \ {0} /\ n < Bit[n] /\ Bit[n + 1] = 2 * Bit[n]
<1>. DEFINE wrong == {n \in Nat : ~ (Bit[n] \in Nat \ {0} /\ n < Bit[n])}
<1>1. wrong = {}
  <2>1. SUFFICES ASSUME wrong # {} PROVE FALSE
    OBVIOUS
  <2>2. PICK n \in wrong : \A j \in wrong : n <= j
    BY <2>1, LeastOf
  <2>3. n # 0
    BY <2>2, BitIs
  <2>4. n - 1 \in Nat /\ Bit[n - 1] \in Nat \ {0} /\ n - 1 < Bit[n - 1]
    BY <2>2, <2>3
  <2>5. Bit[n] = 2 * Bit[n - 1]
    BY <2>2, <2>3, BitIs
  <2>. QED BY <2>2, <2>4, <2>5
<1>2. ASSUME NEW n \in Nat PROVE Bit[n + 1] = 2 * Bit[n]
  <2>1. n + 1 \in Nat /\ n + 1 # 0 /\ (n + 1) - 1 = n
    OBVIOUS
  <2>. QED BY <2>1, BitIs
<1>. QED BY <1>1, <1>2, BitIs

LEMMA BitMonotone ==
  ASSUME NEW m \in Nat, NEW n \in Nat, m <= n
  PROVE  Bit[m] <= Bit[n]
<1>. DEFINE wrong == {k \in Nat : m <= k /\ Bit[k] < Bit[m]}
<1>1. SUFFICES ASSUME wrong # {} PROVE FALSE
  BY BitNext
<1>2. PICK k \in wrong : \A j \in wrong : k <= j
  BY <1>1, LeastOf
<1>3. k # m /\ k - 1 \in Nat /\ m <= k - 1 /\ k - 1 \notin wrong
  BY <1>2, BitNext
<1>4. Bit[(k - 1) + 1] = 2 * Bit[k - 1] /\ (k - 1) + 1 = k /\ Bit[m] <= Bit[k - 1]
  BY <1>2, <1>3, BitNext
<1>. QED BY <1>2, <1>3, <1>4, BitNext

LEMMA BitTimes ==
  ASSUME NEW m \in Nat, NEW n \in Nat
  PROVE  Bit[m + n] = Bit[m] * Bit[n]
<1>. DEFINE wrong == {k \in Nat : Bit[m + k] # Bit[m] * Bit[k]}
<1>1. SUFFICES ASSUME wrong # {} PROVE FALSE
  OBVIOUS
<1>2. PICK k \in wrong : \A j \in wrong : k <= j
  BY <1>1, LeastOf
<1>3. k # 0
  <2>1. Bit[m + 0] = Bit[m] * Bit[0]
    BY BitNext
  <2>. QED BY <1>2, <2>1
<1>4. k - 1 \in Nat /\ Bit[m + (k - 1)] = Bit[m] * Bit[k - 1]
  BY <1>2, <1>3
<1>5. Bit[m + k] = 2 * Bit[m + (k - 1)]
  <2>1. m + (k - 1) \in Nat /\ (m + (k - 1)) + 1 = m + k
    BY <1>2, <1>4
  <2>. QED BY <2>1, BitNext
<1>6. Bit[k] = 2 * Bit[k - 1]
  <2>1. (k - 1) + 1 = k
    BY <1>2
  <2>. QED BY <1>4, <2>1, BitNext
<1>7. \A x, y, z \in Nat : x * y = z => 2 * z = x * (2 * y)
  BY Z3
<1>8. Bit[m] \in Nat /\ Bit[k - 1] \in Nat /\ Bit[m + (k - 1)] \in Nat
  <2>1. m + (k - 1) \in Nat
    BY <1>4
  <2>. QED BY <1>4, <2>1, BitNext
<1>. QED BY <1>2, <1>4, <1>5, <1>6, <1>7, <1>8

LEMMA MsbIs ==
  ASSUME NEW n \in Nat \ {0}
  PROVE  Msb(n) \in Nat /\ Bit[Msb(n)] <= n /\ n < Bit[Msb(n) + 1]
<1>. DEFINE above == {k \in Nat : n < Bit[k + 1]}
<1>1. n \in above
  <2>1. n + 1 \in Nat /\ n + 1 < Bit[n + 1]
    BY BitNext
  <2>. QED BY <2>1, BitNext
<1>2. PICK k \in above : \A j \in above : k <= j
  BY <1>1, LeastOf
<1>3. k \in 0 .. n
  BY <1>1, <1>2
<1>4. Bit[k] <= n
  <2>1. CASE k = 0
    BY <2>1, BitNext
  <2>2. CASE k # 0
    <3>1. k - 1 \in Nat /\ k - 1 \notin above /\ (k - 1) + 1 = k
      BY <1>2, <2>2
    <3>. QED BY <1>3, <3>1, BitNext
  <2>. QED BY <2>1, <2>2
<1>5. \E j \in 0 .. n : Bit[j] <= n /\ n < Bit[j + 1]
  BY <1>2, <1>3, <1>4
<1>. QED BY <1>5 DEF Msb

(* Larger numbers have no lower highest bit.                                 *)
LEMMA MsbMonotone ==
  ASSUME NEW m \in Nat \ {0}, NEW n \in Nat \ {0}, m <= n
  PROVE  Msb(m) <= Msb(n)
<1>1. SUFFICES ASSUME Msb(n) + 1 <= Msb(m) PROVE FALSE
  BY MsbIs
<1>2. Bit[Msb(n) + 1] <= Bit[Msb(m)]
  BY <1>1, MsbIs, BitMonotone
<1>3. Bit[Msb(n) + 1] \in Nat /\ Bit[Msb(m)] \in Nat
  <2>1. Msb(n) + 1 \in Nat /\ Msb(m) \in Nat
    BY MsbIs
  <2>. QED BY <2>1, BitNext
<1>. QED BY <1>2, <1>3, MsbIs

-----------------------------------------------------------------------------
(* Which list a size belongs to                                              *)

LEMMA SmallIs ==
  /\ SmallSize \in Nat /\ SmallSize \div 4 \in Nat \ {0} /\ SmallSize = 4 * (SmallSize \div 4)
  /\ Bit[SecondLevel] \in Nat \ {0}
<1>1. Shift \in Nat \ {0} /\ SecondLevel \in Nat
  BY TlsfAssumption
<1>2. Shift - 1 \in Nat /\ (Shift - 1) + 1 = Shift
  BY <1>1
<1>3. Bit[Shift] = 2 * Bit[Shift - 1] /\ Bit[Shift + 1] = 2 * Bit[Shift]
  BY <1>1, <1>2, BitNext
<1>4. Bit[Shift - 1] \in Nat \ {0}
  BY <1>2, BitNext
<1>5. SmallSize = 4 * Bit[Shift - 1]
  BY <1>3, <1>4 DEF SmallSize
<1>6. SmallSize \div 4 = Bit[Shift - 1]
  BY <1>4, <1>5
<1>. QED BY <1>1, <1>4, <1>5, <1>6, BitNext

(* Sizes of the small class, and of the others                               *)
LEMMA SmallClass ==
  ASSUME NEW size \in Nat \ {0}, size <= SmallSize
  PROVE  Class(size) = 0 /\ Second(size) \in 0 .. 3
<1>1. Class(size) = 0
  BY SmallIs DEF Class
<1>2. \A q \in Nat \ {0}, x \in Nat : x < 4 * q => x \div q \in 0 .. 3
  <2>. TAKE q \in Nat \ {0}, x \in Nat
  <2>. HAVE x < 4 * q
  <2>1. x \div q \in Int /\ (x \div q) * q <= x /\ x < (x \div q) * q + q
    BY Quotient
  <2>2. x \div q < 4
    <3>1. SUFFICES ASSUME 4 <= x \div q PROVE FALSE
      BY <2>1
    <3>2. 4 * q <= (x \div q) * q
      BY <2>1, <3>1, Times
    <3>. QED BY <2>1, <3>2
  <2>3. 0 <= x \div q
    <3>1. SUFFICES ASSUME x \div q <= -1 PROVE FALSE
      BY <2>1
    <3>2. (x \div q) * q <= (-1) * q
      BY <2>1, <3>1, Times
    <3>. QED BY <2>1, <3>2
  <2>. QED BY <2>1, <2>2, <2>3
<1>3. Second(size) = (size - 1) \div (SmallSize \div 4)
  BY <1>1 DEF Second
<1>4. size - 1 \in Nat /\ size - 1 < 4 * (SmallSize \div 4)
  BY SmallIs
<1>. QED BY <1>1, <1>2, <1>3, <1>4, SmallIs

LEMMA LargeClass ==
  ASSUME NEW size \in Nat \ {0}, size > SmallSize
  PROVE  /\ Msb(size) - SecondLevel \in Nat /\ Class(size) = Msb(size) - Shift
         /\ Class(size) \in Nat \ {0}
         /\ Second(size) = size \div Bit[Msb(size) - SecondLevel] - Bit[SecondLevel]
         /\ Second(size) \in 0 .. Bit[SecondLevel] - 1
<1>. DEFINE msb == Msb(size)
            b == Bit[SecondLevel]
            q == Bit[msb - SecondLevel]
<1>1. msb \in Nat /\ Bit[msb] <= size /\ size < Bit[msb + 1]
  BY MsbIs
<1>2. Shift \in Nat \ {0} /\ SecondLevel \in Nat /\ SecondLevel <= Shift
  BY TlsfAssumption
<1>. HIDE DEF msb
<1>3. Shift + 1 <= msb
  <2>1. SUFFICES ASSUME msb + 1 <= Shift + 1 PROVE FALSE
    BY <1>1, <1>2
  <2>2. msb + 1 \in Nat /\ Shift + 1 \in Nat
    BY <1>1, <1>2
  <2>3. Bit[msb + 1] <= Bit[Shift + 1] /\ Bit[msb + 1] \in Nat
    BY <2>1, <2>2, BitMonotone, BitNext
  <2>. QED BY <1>1, <2>3, SmallIs DEF SmallSize
<1>4. msb - SecondLevel \in Nat /\ Class(size) = msb - Shift /\ Class(size) \in Nat \ {0}
  BY <1>1, <1>2, <1>3 DEF Class, msb
<1>5. Class(size) + Shift - SecondLevel = msb - SecondLevel
  BY <1>1, <1>2, <1>4
<1>6. Second(size) = size \div q - b
  BY <1>4, <1>5 DEF Second
<1>7. Bit[msb] = q * b /\ Bit[msb + 1] = 2 * Bit[msb] /\ q \in Nat \ {0} /\ b \in Nat \ {0}
  <2>1. (msb - SecondLevel) + SecondLevel = msb
    BY <1>1, <1>2
  <2>2. Bit[(msb - SecondLevel) + SecondLevel] = q * b
    BY <1>2, <1>4, BitTimes
  <2>. QED BY <1>1, <1>4, <2>1, <2>2, BitNext, SmallIs
<1>. HIDE DEF q, b
<1>8. size \div q \in b .. 2 * b - 1
  <2>1. size \div q \in Int /\ (size \div q) * q <= size /\ size < (size \div q) * q + q
    BY <1>7, Quotient
  <2>2. q * b <= size /\ size < 2 * (q * b)
    BY <1>1, <1>7
  <2>3. b <= size \div q
    <3>1. SUFFICES ASSUME size \div q + 1 <= b PROVE FALSE
      BY <1>7, <2>1
    <3>2. (size \div q + 1) * q <= b * q
      BY <1>7, <2>1, <3>1, Times
    <3>3. (size \div q + 1) * q = (size \div q) * q + q /\ b * q = q * b
      BY <1>7, <2>1
    <3>. QED BY <1>7, <2>1, <2>2, <3>2, <3>3
  <2>4. size \div q < 2 * b
    <3>1. SUFFICES ASSUME 2 * b <= size \div q PROVE FALSE
      BY <1>7, <2>1
    <3>2. (2 * b) * q <= (size \div q) * q
      BY <1>7, <2>1, <3>1, Times
    <3>3. (2 * b) * q = 2 * (q * b)
      BY <1>7
    <3>. QED BY <1>7, <2>1, <2>2, <3>2, <3>3
  <2>. QED BY <1>7, <2>1, <2>3, <2>4
<1>. QED BY <1>4, <1>6, <1>7, <1>8 DEF msb, q, b

LEMMA ClassIs ==
  ASSUME NEW size \in Nat \ {0}
  PROVE  /\ Class(size) \in Nat /\ Second(size) \in Nat
         /\ IF Class(size) = 0 THEN Second(size) <= 3 ELSE Second(size) < Bit[SecondLevel]
         /\ Class(size) = 0 <=> size <= SmallSize
<1>1. CASE size <= SmallSize
  BY <1>1, SmallClass
<1>2. CASE size > SmallSize
  BY <1>2, LargeClass, SmallIs
<1>. QED BY <1>1, <1>2, SmallIs

LEMMA Products ==
  ASSUME NEW b \in Nat \ {0}, NEW c \in Int, NEW d \in Int, c < d
  PROVE  c * b \in Int /\ d * b \in Int /\ c * b + b <= d * b
<1>1. (c + 1) * b <= d * b
  BY Times
<1>2. (c + 1) * b = c * b + b
  OBVIOUS
<1>. QED BY <1>1, <1>2

(* Sizes that share a list share a class and a second level.                 *)
LEMMA ListOfOne ==
  ASSUME NEW a \in Nat \ {0}, NEW b \in Nat \ {0}, ListOf(a) = ListOf(b)
  PROVE  Class(a) = Class(b) /\ Second(a) = Second(b)
<1>. DEFINE c == Class(a)
            d == Class(b)
            s == Second(a)
            t == Second(b)
            n == Bit[SecondLevel]
<1>1. /\ c \in Nat /\ s \in Nat /\ IF c = 0 THEN s <= 3 ELSE s < n
      /\ d \in Nat /\ t \in Nat /\ IF d = 0 THEN t <= 3 ELSE t < n
      /\ n \in Nat \ {0}
  BY ClassIs, SmallIs
<1>2. (IF c = 0 THEN s ELSE (c - 1) * n + s + 4) = (IF d = 0 THEN t ELSE (d - 1) * n + t + 4)
  BY DEF ListOf, List
<1>. HIDE DEF c, d, s, t, n
<1>3. c # 0 => (c - 1) * n \in Nat
  BY <1>1
<1>4. d # 0 => (d - 1) * n \in Nat
  BY <1>1
<1>5. CASE c = 0 \/ d = 0
  BY <1>1, <1>2, <1>3, <1>4, <1>5 DEF c, d, s, t
<1>6. CASE c # 0 /\ d # 0
  <2>1. ~ (c < d)
    <3>1. SUFFICES ASSUME c < d PROVE FALSE
      OBVIOUS
    <3>2. (c - 1) * n + n <= (d - 1) * n
      BY <1>1, <3>1, Products
    <3>. QED BY <1>1, <1>2, <1>3, <1>4, <1>6, <3>2
  <2>2. ~ (d < c)
    <3>1. SUFFICES ASSUME d < c PROVE FALSE
      OBVIOUS
    <3>2. (d - 1) * n + n <= (c - 1) * n
      BY <1>1, <3>1, Products
    <3>. QED BY <1>1, <1>2, <1>3, <1>4, <1>6, <3>2
  <2>3. c = d
    BY <1>1, <2>1, <2>2
  <2>. QED BY <1>1, <1>2, <1>3, <1>6, <2>3 DEF c, d, s, t
<1>. QED BY <1>5, <1>6

LEMMA ClassMonotone ==
  ASSUME NEW a \in Nat \ {0}, NEW b \in Nat \ {0}, a <= b
  PROVE  /\ Class(a) <= Class(b)
         /\ Class(a) = Class(b) /\ Class(a) # 0 => Second(a) <= Second(b)
<1>1. CASE a <= SmallSize
  BY <1>1, ClassIs
<1>2. CASE a > SmallSize
  <2>1. b > SmallSize /\ Msb(a) <= Msb(b) /\ Msb(a) \in Nat /\ Msb(b) \in Nat /\ Shift \in Nat
    BY <1>2, SmallIs, MsbMonotone, MsbIs, TlsfAssumption
  <2>2. Class(a) = Msb(a) - Shift /\ Class(b) = Msb(b) - Shift
    BY <1>2, <2>1, LargeClass
  <2>3. ASSUME Class(a) = Class(b) PROVE Second(a) <= Second(b)
    <3>1. Msb(a) = Msb(b)
      BY <2>1, <2>2, <2>3
    <3>. DEFINE q == Bit[Msb(a) - SecondLevel]
    <3>2. Second(a) = a \div q - Bit[SecondLevel] /\ Second(b) = b \div q - Bit[SecondLevel]
      BY <1>2, <2>1, <3>1, LargeClass
    <3>3. q \in Nat \ {0} /\ Bit[SecondLevel] \in Nat
      BY <1>2, LargeClass, BitNext, SmallIs
    <3>. HIDE DEF q
    <3>4. a \div q <= b \div q /\ a \div q \in Int /\ b \div q \in Int
      BY <3>3, DivMonotone, Quotient
    <3>. QED BY <3>2, <3>3, <3>4
  <2>. QED BY <2>1, <2>2, <2>3
<1>. QED BY <1>1, <1>2, SmallIs

(* Every block in the memory block has a list and a class.                   *)
LEMMA ListInRange ==
  ASSUME NEW size \in 1 .. Total
  PROVE  /\ ListsCount \in Nat \ {0} /\ ListOf(size) \in 0 .. ListsCount - 1
         /\ Class(size) \in Classes /\ Second(size) \in Nat
<1>0. Total \in Nat \ {0} /\ size \in Nat \ {0} /\ size <= Total /\ 2 * Total \in Nat \ {0} /\ Total <= 2 * Total
  BY TlsfAssumption
<1>. DEFINE c == Class(size)
            d == Class(Total)
            s == Second(size)
            t == Second(Total)
            n == Bit[SecondLevel]
<1>1. /\ c \in Nat /\ s \in Nat /\ IF c = 0 THEN s <= 3 ELSE s < n
      /\ d \in Nat /\ t \in Nat /\ IF d = 0 THEN t <= 3 ELSE t < n
      /\ n \in Nat \ {0}
  BY <1>0, ClassIs, SmallIs
<1>2. c <= d /\ (c = d /\ c # 0 => s <= t) /\ d <= Class(2 * Total) /\ Class(2 * Total) \in Nat
  BY <1>0, ClassMonotone, ClassIs
<1>3. c \in Classes
  BY <1>1, <1>2 DEF Classes
<1>4. ListsCount = (IF d = 0 THEN 0 ELSE (d - 1) * n + t) + 5
  BY DEF ListsCount
<1>5. ListOf(size) = IF c = 0 THEN s ELSE (c - 1) * n + s + 4
  BY DEF ListOf, List
<1>. HIDE DEF c, d, s, t, n
<1>6. (d # 0 => (d - 1) * n \in Nat) /\ (c # 0 => (c - 1) * n \in Nat)
  BY <1>1
<1>7. c # d => (c - 1) * n + n <= (d - 1) * n
  BY <1>1, <1>2, Products
<1>8. ListsCount \in Nat \ {0}
  BY <1>1, <1>4, <1>6
<1>9. ListOf(size) \in 0 .. ListsCount - 1
  <2>1. CASE c = 0
    BY <1>1, <1>4, <1>5, <1>6, <2>1
  <2>2. CASE c # 0 /\ c = d
    BY <1>1, <1>2, <1>4, <1>5, <1>6, <2>2
  <2>3. CASE c # 0 /\ c # d
    BY <1>1, <1>2, <1>4, <1>5, <1>6, <1>7, <2>3
  <2>. QED BY <2>1, <2>2, <2>3
<1>. QED BY <1>1, <1>3, <1>8, <1>9 DEF c, s

-----------------------------------------------------------------------------
(* The physical blocks                                                       *)

Blocks == [at : Nat, size : Nat, type : SuballocationTypes]

EndsAt(b) == b.at + b.size

(* The physical blocks follow one another through the whole memory block, and *)
(* only the null block may have no space.                                     *)
Laid(bs) ==
  /\ bs \in Seq(Blocks) /\ Len(bs) \in Nat \ {0}
  /\ bs[1].at = 0
  /\ \A k \in 1 .. Len(bs) - 1 : bs[k].size > 0 /\ bs[k + 1].at = EndsAt(bs[k])
  /\ EndsAt(bs[Len(bs)]) = Total /\ IsFree(bs[Len(bs)])

NullOf(bs) == bs[Len(bs)]

(* The others, and which of them are free and in use                         *)
PhysicalOf(bs) == {bs[k] : k \in 1 .. Len(bs) - 1}

FreeOf(bs) == {b \in PhysicalOf(bs) : IsFree(b)}

UsedOf(bs) == {b \in PhysicalOf(bs) : ~ IsFree(b)}

LEMMA LaidIs ==
  ASSUME NEW bs, Laid(bs), NEW k \in DOMAIN bs
  PROVE  /\ k \in 1 .. Len(bs) /\ bs[k] \in Blocks
         /\ bs[k].at \in Nat /\ bs[k].size \in Nat /\ EndsAt(bs[k]) \in Nat
         /\ bs[k].type \in SuballocationTypes
         /\ bs[k] = [at |-> bs[k].at, size |-> bs[k].size, type |-> bs[k].type]
<1>1. bs[k] \in Blocks /\ k \in 1 .. Len(bs)
  BY DEF Laid
<1>. QED BY <1>1 DEF Blocks, EndsAt

LEMMA LaidInOrder ==
  ASSUME NEW bs, Laid(bs), NEW i \in DOMAIN bs, NEW j \in DOMAIN bs, i < j
  PROVE  EndsAt(bs[i]) <= bs[j].at
<1>0. Len(bs) \in Nat /\ DOMAIN bs = 1 .. Len(bs)
  BY DEF Laid
<1>. DEFINE wrong == {n \in Nat : n \in DOMAIN bs /\ i < n /\ bs[n].at < EndsAt(bs[i])}
<1>1. \A n \in DOMAIN bs : bs[n].at \in Nat /\ bs[n].size \in Nat /\ EndsAt(bs[n]) \in Nat
  BY LaidIs
<1>2. SUFFICES ASSUME wrong # {} PROVE FALSE
  BY <1>0, <1>1
<1>3. PICK n \in wrong : \A x \in wrong : n <= x
  BY <1>2, LeastOf
<1>4. n - 1 \in 1 .. Len(bs) - 1 /\ n - 1 \in DOMAIN bs /\ (n - 1) + 1 = n
  BY <1>0, <1>3
<1>5. bs[n].at = EndsAt(bs[n - 1])
  BY <1>4 DEF Laid
<1>6. n - 1 # i
  BY <1>1, <1>3, <1>5
<1>7. EndsAt(bs[i]) <= bs[n - 1].at
  BY <1>0, <1>1, <1>3, <1>4, <1>6
<1>8. bs[n - 1].at <= EndsAt(bs[n - 1])
  BY <1>1, <1>4 DEF EndsAt
<1>. QED BY <1>1, <1>3, <1>4, <1>5, <1>7, <1>8

LEMMA LaidWithin ==
  ASSUME NEW bs, Laid(bs), NEW k \in 1 .. Len(bs) - 1
  PROVE  /\ k \in DOMAIN bs /\ bs[k].size \in 1 .. Total /\ bs[k].at < EndsAt(bs[k])
         /\ EndsAt(bs[k]) <= NullOf(bs).at /\ NullOf(bs).at <= Total
<1>1. k \in DOMAIN bs /\ Len(bs) \in DOMAIN bs /\ k < Len(bs) /\ Len(bs) \in Nat
  BY DEF Laid
<1>2. bs[k].at \in Nat /\ bs[k].size \in Nat /\ bs[Len(bs)].at \in Nat /\ bs[Len(bs)].size \in Nat
  BY <1>1, LaidIs
<1>3. EndsAt(bs[k]) <= bs[Len(bs)].at
  BY <1>1, LaidInOrder
<1>4. EndsAt(bs[Len(bs)]) = Total /\ bs[k].size > 0
  BY DEF Laid
<1>. QED BY <1>1, <1>2, <1>3, <1>4, TlsfAssumption DEF EndsAt, NullOf

(* No two blocks begin, and no two but the null block end, at one place; and  *)
(* a block ends where another begins only if it is the one before it.         *)
LEMMA LaidOnce ==
  ASSUME NEW bs, Laid(bs), NEW i \in DOMAIN bs, NEW j \in DOMAIN bs
  PROVE  /\ bs[i].at = bs[j].at => i = j
         /\ i # Len(bs) /\ j # Len(bs) /\ EndsAt(bs[i]) = EndsAt(bs[j]) => i = j
         /\ i # Len(bs) /\ EndsAt(bs[i]) = bs[j].at => j = i + 1
<1>0. Len(bs) \in Nat /\ DOMAIN bs = 1 .. Len(bs)
  BY DEF Laid
<1>1. \A n \in DOMAIN bs : bs[n].at \in Nat /\ bs[n].size \in Nat /\ EndsAt(bs[n]) \in Nat
  BY LaidIs
<1>2. \A n \in DOMAIN bs : n # Len(bs) => bs[n].at < EndsAt(bs[n])
  BY <1>0, LaidWithin
<1>3. \A x, y \in DOMAIN bs : x < y => EndsAt(bs[x]) <= bs[y].at
  BY LaidInOrder
<1>4. ASSUME NEW x \in DOMAIN bs, NEW y \in DOMAIN bs, x < y
      PROVE  /\ bs[x].at < bs[y].at
             /\ y # Len(bs) => EndsAt(bs[x]) < EndsAt(bs[y])
             /\ y # x + 1 => EndsAt(bs[x]) < bs[y].at
             /\ x # Len(bs)
  <2>1. x # Len(bs)
    BY <1>0, <1>4
  <2>2. bs[x].at < bs[y].at
    BY <1>1, <1>2, <1>3, <1>4, <2>1
  <2>3. y # Len(bs) => EndsAt(bs[x]) < EndsAt(bs[y])
    BY <1>1, <1>2, <1>3, <1>4
  <2>4. ASSUME y # x + 1 PROVE EndsAt(bs[x]) < bs[y].at
    <3>1. x + 1 \in DOMAIN bs /\ x < x + 1 /\ x + 1 < y
      BY <1>0, <1>4, <2>4
    <3>2. x + 1 # Len(bs)
      BY <1>0, <3>1
    <3>3. EndsAt(bs[x]) <= bs[x + 1].at /\ bs[x + 1].at < EndsAt(bs[x + 1]) /\ EndsAt(bs[x + 1]) <= bs[y].at
      BY <1>2, <1>3, <3>1, <3>2
    <3>. QED BY <1>1, <3>1, <3>3
  <2>. QED BY <2>1, <2>2, <2>3, <2>4
<1>5. i < j \/ i = j \/ j < i
  BY <1>0
<1>6. bs[i].at = bs[j].at => i = j
  BY <1>1, <1>4, <1>5
<1>7. i # Len(bs) /\ j # Len(bs) /\ EndsAt(bs[i]) = EndsAt(bs[j]) => i = j
  BY <1>1, <1>4, <1>5
<1>8. ASSUME i # Len(bs), EndsAt(bs[i]) = bs[j].at PROVE j = i + 1
  <2>1. i # j
    BY <1>1, <1>2, <1>8
  <2>2. ~ (j < i)
    <3>1. SUFFICES ASSUME j < i PROVE FALSE
      OBVIOUS
    <3>2. bs[j].at < bs[i].at /\ bs[i].at < EndsAt(bs[i])
      BY <1>2, <1>4, <1>8, <3>1
    <3>. QED BY <1>1, <1>8, <3>2
  <2>3. i < j
    BY <1>5, <2>1, <2>2
  <2>. QED BY <1>1, <1>4, <1>8, <2>3
<1>. QED BY <1>6, <1>7, <1>8

LEMMA IndexAtIs ==
  ASSUME NEW m, Laid(m.blocks), NEW k \in DOMAIN m.blocks
  PROVE  IndexAt(m, m.blocks[k].at) = k
<1>1. \A j \in DOMAIN m.blocks : m.blocks[j].at = m.blocks[k].at => j = k
  BY LaidOnce
<1>. QED BY <1>1 DEF IndexAt

(* The same of the blocks as a set                                           *)
LEMMA IndexOf ==
  ASSUME NEW bs, Laid(bs)
  PROVE  /\ Len(bs) \in Nat \ {0} /\ DOMAIN bs = 1 .. Len(bs) /\ Len(bs) \in DOMAIN bs
         /\ \A b \in PhysicalOf(bs) :
              \E k \in DOMAIN bs : b = bs[k] /\ k # Len(bs) /\ k \in 1 .. Len(bs) - 1
         /\ \A k \in DOMAIN bs : k # Len(bs) => bs[k] \in PhysicalOf(bs) /\ k \in 1 .. Len(bs) - 1
<1>1. Len(bs) \in Nat \ {0} /\ DOMAIN bs = 1 .. Len(bs) /\ Len(bs) \in DOMAIN bs
  BY DEF Laid
<1>2. ASSUME NEW k \in 1 .. Len(bs) - 1 PROVE k \in DOMAIN bs /\ k # Len(bs)
  <2>1. k \in Nat /\ 1 <= k /\ k <= Len(bs) - 1 /\ Len(bs) \in Int
    BY <1>1
  <2>2. k \in 1 .. Len(bs) /\ k # Len(bs)
    BY <2>1
  <2>. QED BY <1>1, <2>2
<1>3. ASSUME NEW k \in DOMAIN bs, k # Len(bs) PROVE k \in 1 .. Len(bs) - 1
  BY <1>1, <1>3
<1>. QED BY <1>1, <1>2, <1>3 DEF PhysicalOf

LEMMA PhysicalIs ==
  ASSUME NEW bs, Laid(bs), NEW b \in PhysicalOf(bs)
  PROVE  /\ b \in Blocks /\ b.at \in Nat /\ b.size \in 1 .. Total
         /\ b.at < EndsAt(b) /\ EndsAt(b) <= NullOf(bs).at /\ NullOf(bs).at <= Total
         /\ EndsAt(b) \in Nat /\ NullOf(bs).at \in Nat /\ NullOf(bs) \in Blocks
         /\ b # NullOf(bs)
<1>1. PICK k \in DOMAIN bs : b = bs[k] /\ k # Len(bs) /\ k \in 1 .. Len(bs) - 1
  BY IndexOf
<1>2. Len(bs) \in DOMAIN bs
  BY IndexOf
<1>3. /\ b.size \in 1 .. Total /\ b.at < EndsAt(b)
      /\ EndsAt(b) <= NullOf(bs).at /\ NullOf(bs).at <= Total
  BY <1>1, LaidWithin
<1>4. /\ b \in Blocks /\ b.at \in Nat /\ EndsAt(b) \in Nat
      /\ NullOf(bs).at \in Nat /\ NullOf(bs) \in Blocks
  BY <1>1, <1>2, LaidIs DEF NullOf
<1>5. b # NullOf(bs)
  BY <1>3, <1>4
<1>. QED BY <1>3, <1>4, <1>5

LEMMA PhysicalOnce ==
  ASSUME NEW bs, Laid(bs), NEW b \in PhysicalOf(bs), NEW c \in PhysicalOf(bs) \union {NullOf(bs)}
  PROVE  /\ b.at = c.at => b = c
         /\ c # NullOf(bs) /\ EndsAt(b) = EndsAt(c) => b = c
         /\ b # c => EndsAt(b) <= c.at \/ EndsAt(c) <= b.at
<1>1. PICK i \in DOMAIN bs : b = bs[i] /\ i # Len(bs)
  BY IndexOf
<1>2. PICK j \in DOMAIN bs : c = bs[j] /\ (c # NullOf(bs) => j # Len(bs))
  BY IndexOf DEF NullOf
<1>3. /\ bs[i].at = bs[j].at => i = j
      /\ j # Len(bs) /\ EndsAt(bs[i]) = EndsAt(bs[j]) => i = j
  BY <1>1, LaidOnce
<1>4. i < j \/ i = j \/ j < i
  BY IndexOf
<1>5. b # c => EndsAt(b) <= c.at \/ EndsAt(c) <= b.at
  BY <1>1, <1>2, <1>4, LaidInOrder
<1>. QED BY <1>1, <1>2, <1>3, <1>5

-----------------------------------------------------------------------------
(* Blocks cut and joined                                                     *)

(* A block in use for another purpose, or no longer, or again free           *)
LEMMA RetypedLaid ==
  ASSUME NEW bs, Laid(bs), NEW k \in DOMAIN bs, k # Len(bs), NEW t \in SuballocationTypes,
         NEW d, d = [bs EXCEPT ![k].type = t]
  PROVE  /\ Laid(d) /\ Len(d) = Len(bs) /\ DOMAIN d = DOMAIN bs
         /\ d[k] = [at |-> bs[k].at, size |-> bs[k].size, type |-> t]
         /\ \A j \in DOMAIN bs : j # k => d[j] = bs[j]
         /\ NullOf(d) = NullOf(bs)
         /\ PhysicalOf(d) = (PhysicalOf(bs) \ {bs[k]}) \union {d[k]}
<1>0. bs \in Seq(Blocks) /\ Len(bs) \in Nat \ {0} /\ DOMAIN bs = 1 .. Len(bs) /\ bs[k] \in Blocks
  BY DEF Laid
<1>. DEFINE x == [at |-> bs[k].at, size |-> bs[k].size, type |-> t]
<1>1. x \in Blocks /\ [bs[k] EXCEPT !.type = t] = x
  BY <1>0 DEF Blocks
<1>2. d = [bs EXCEPT ![k] = x]
  BY <1>1
<1>3. /\ d \in Seq(Blocks) /\ Len(d) = Len(bs) /\ DOMAIN d = DOMAIN bs /\ d[k] = x
      /\ \A j \in DOMAIN bs : j # k => d[j] = bs[j]
  BY <1>0, <1>1, <1>2
<1>. HIDE DEF x
<1>4. Len(bs) \in DOMAIN bs /\ 1 \in DOMAIN bs
  BY <1>0
<1>5. NullOf(d) = NullOf(bs)
  BY <1>3, <1>4 DEF NullOf
<1>6. \A j \in DOMAIN bs : d[j].at = bs[j].at /\ d[j].size = bs[j].size
  BY <1>3 DEF x
<1>7. Laid(d)
  <2>1. d[1].at = 0
    BY <1>4, <1>6 DEF Laid
  <2>2. ASSUME NEW j \in 1 .. Len(d) - 1 PROVE d[j].size > 0 /\ d[j + 1].at = EndsAt(d[j])
    <3>1. j \in DOMAIN bs /\ j + 1 \in DOMAIN bs /\ j \in 1 .. Len(bs) - 1
      BY <1>0, <1>3
    <3>2. bs[j].size > 0 /\ bs[j + 1].at = EndsAt(bs[j])
      BY <3>1 DEF Laid
    <3>. QED BY <1>6, <3>1, <3>2 DEF EndsAt
  <2>3. EndsAt(d[Len(d)]) = Total /\ IsFree(d[Len(d)])
    BY <1>3, <1>5 DEF Laid, NullOf
  <2>. QED BY <1>0, <1>3, <2>1, <2>2, <2>3 DEF Laid
<1>8. PhysicalOf(d) = (PhysicalOf(bs) \ {bs[k]}) \union {d[k]}
  <2>1. ASSUME NEW b \in PhysicalOf(d) PROVE b \in (PhysicalOf(bs) \ {bs[k]}) \union {d[k]}
    <3>1. PICK j \in DOMAIN d : b = d[j] /\ j # Len(d)
      BY <1>7, IndexOf
    <3>2. CASE j # k
      <4>1. bs[j] \in PhysicalOf(bs) /\ b = bs[j]
        BY <1>3, <3>1, <3>2, IndexOf
      <4>2. bs[j] # bs[k]
        BY <1>3, <3>1, <3>2, LaidOnce
      <4>. QED BY <4>1, <4>2
    <3>. QED BY <3>1, <3>2
  <2>2. ASSUME NEW b \in PhysicalOf(bs) \ {bs[k]} PROVE b \in PhysicalOf(d)
    <3>1. PICK j \in DOMAIN bs : b = bs[j] /\ j # Len(bs)
      BY IndexOf
    <3>2. j # k /\ d[j] = b
      BY <1>3, <2>2, <3>1
    <3>. QED BY <1>3, <1>7, <3>1, <3>2, IndexOf
  <2>3. d[k] \in PhysicalOf(d)
    BY <1>3, <1>7, IndexOf
  <2>. QED BY <2>1, <2>2, <2>3
<1>. QED BY <1>3, <1>5, <1>7, <1>8 DEF x

(* A block in two                                                            *)
IsSplit(bs, k, x, y, d) ==
  /\ d \in Seq(Blocks) /\ Len(d) = Len(bs) + 1
  /\ \A j \in 1 .. Len(bs) + 1 :
       d[j] = IF j < k THEN bs[j] ELSE IF j = k THEN x ELSE IF j = k + 1 THEN y ELSE bs[j - 1]

LEMMA SplitLaid ==
  ASSUME NEW bs, Laid(bs), NEW k \in DOMAIN bs, NEW x \in Blocks, NEW y \in Blocks,
         x.at = bs[k].at, x.size > 0, y.at = EndsAt(x), EndsAt(y) = EndsAt(bs[k]),
         IF k = Len(bs) THEN IsFree(y) ELSE y.size > 0,
         NEW d, IsSplit(bs, k, x, y, d)
  PROVE  /\ Laid(d) /\ k + 1 \in DOMAIN d /\ d[k] = x /\ d[k + 1] = y
         /\ IF k = Len(bs) THEN NullOf(d) = y /\ PhysicalOf(d) = PhysicalOf(bs) \union {x}
            ELSE NullOf(d) = NullOf(bs) /\ PhysicalOf(d) = (PhysicalOf(bs) \ {bs[k]}) \union {x, y}
<1>. DEFINE n == Len(bs)
<1>. USE DEF IsSplit
<1>0. /\ bs \in Seq(Blocks) /\ n \in Nat /\ n # 0 /\ DOMAIN bs = 1 .. n /\ k \in 1 .. n
      /\ d \in Seq(Blocks) /\ Len(d) = n + 1 /\ DOMAIN d = 1 .. n + 1
  BY DEF Laid
<1>1. /\ bs[1].at = 0
      /\ \A j \in 1 .. n - 1 : bs[j].size > 0 /\ bs[j + 1].at = EndsAt(bs[j])
      /\ EndsAt(bs[n]) = Total /\ IsFree(bs[n])
  BY DEF Laid
<1>. HIDE DEF n
<1>2. \A j \in 1 .. n + 1 :
        d[j] = IF j < k THEN bs[j] ELSE IF j = k THEN x ELSE IF j = k + 1 THEN y ELSE bs[j - 1]
  BY DEF n
<1>. HIDE DEF IsSplit
<1>3. d[k] = x /\ d[k + 1] = y /\ k + 1 \in 1 .. n + 1
  BY <1>0, <1>2
<1>4. d[1].at = 0
  <2>1. CASE k = 1
    BY <1>0, <1>1, <1>3, <2>1
  <2>2. CASE k # 1
    BY <1>0, <1>1, <1>2, <2>2
  <2>. QED BY <2>1, <2>2
<1>5. ASSUME NEW j \in 1 .. n PROVE d[j].size > 0 /\ d[j + 1].at = EndsAt(d[j])
  <2>0. j \in 1 .. n + 1 /\ j + 1 \in 1 .. n + 1 /\ j \in Nat /\ k \in Nat
    BY <1>0
  <2>1. CASE j + 1 < k
    <3>1. j \in 1 .. n - 1 /\ j < k /\ j + 1 < k
      BY <1>0, <2>0, <2>1
    <3>. QED BY <1>1, <1>2, <2>0, <3>1
  <2>2. CASE j + 1 = k
    <3>1. j \in 1 .. n - 1 /\ j < k
      BY <1>0, <2>0, <2>2
    <3>2. d[j] = bs[j] /\ d[j + 1] = x /\ bs[j].size > 0 /\ bs[k].at = EndsAt(bs[j])
      BY <1>1, <1>2, <1>3, <2>0, <2>2, <3>1
    <3>. QED BY <3>2
  <2>3. CASE j = k
    BY <1>3, <2>3
  <2>4. CASE j = k + 1
    <3>1. k \in 1 .. n - 1 /\ k # n
      BY <1>0, <2>0, <2>4
    <3>2. d[j] = y /\ d[j + 1] = bs[k + 1]
      <4>1. (j + 1) - 1 = k + 1 /\ ~ (j + 1 < k) /\ j + 1 # k /\ j + 1 # k + 1
        BY <2>0, <2>4
      <4>. QED BY <1>2, <1>3, <2>0, <2>4, <4>1
    <3>3. y.size > 0 /\ bs[k + 1].at = EndsAt(bs[k])
      BY <1>1, <3>1 DEF n
    <3>. QED BY <3>2, <3>3
  <2>5. CASE j > k + 1
    <3>1. j - 1 \in 1 .. n - 1 /\ (j - 1) + 1 = j /\ (j + 1) - 1 = j
      BY <1>0, <2>0, <2>5
    <3>2. ~ (j < k) /\ j # k /\ j # k + 1 /\ ~ (j + 1 < k) /\ j + 1 # k /\ j + 1 # k + 1
      BY <2>0, <2>5
    <3>3. d[j] = bs[j - 1] /\ d[j + 1] = bs[j]
      BY <1>2, <2>0, <3>1, <3>2
    <3>. QED BY <1>1, <3>1, <3>3
  <2>. QED BY <2>0, <2>1, <2>2, <2>3, <2>4, <2>5
<1>6. d[n + 1] = IF k = n THEN y ELSE bs[n]
  <2>1. n + 1 \in 1 .. n + 1 /\ (n + 1) - 1 = n /\ ~ (n + 1 < k) /\ n + 1 # k
    BY <1>0
  <2>2. n + 1 = k + 1 <=> k = n
    BY <1>0
  <2>. QED BY <1>2, <2>1, <2>2
<1>7. Laid(d)
  <2>1. EndsAt(d[n + 1]) = Total /\ IsFree(d[n + 1])
    BY <1>1, <1>6 DEF n
  <2>2. Len(d) = n + 1 /\ Len(d) - 1 = n
    BY <1>0 DEF n
  <2>. QED BY <1>0, <1>4, <1>5, <2>1, <2>2 DEF Laid
<1>8. NullOf(d) = IF k = n THEN y ELSE NullOf(bs)
  BY <1>0, <1>6 DEF NullOf, n
<1>9. \A b : b \in PhysicalOf(bs) <=> \E j \in 1 .. n - 1 : b = bs[j]
  BY DEF PhysicalOf, n
<1>10. \A b : b \in PhysicalOf(d) <=> \E j \in 1 .. n : b = d[j]
  <2>1. Len(d) - 1 = n
    BY <1>0 DEF n
  <2>. QED BY <2>1 DEF PhysicalOf
<1>11. ASSUME NEW j \in 1 .. n - 1, j # k
       PROVE  \E i \in 1 .. n : d[i] = bs[j]
  <2>1. CASE j < k
    <3>1. j \in 1 .. n /\ j \in 1 .. n + 1
      BY <1>0
    <3>. QED BY <1>2, <2>1, <3>1
  <2>2. CASE j > k
    <3>1. j + 1 \in 1 .. n /\ j + 1 \in 1 .. n + 1 /\ (j + 1) - 1 = j
          /\ ~ (j + 1 < k) /\ j + 1 # k /\ j + 1 # k + 1
      BY <1>0, <2>2
    <3>. QED BY <1>2, <3>1
  <2>. QED BY <1>0, <1>11, <2>1, <2>2
<1>12. ASSUME NEW i \in 1 .. n, i # k, i # k + 1
       PROVE  \E j \in 1 .. n - 1 : d[i] = bs[j] /\ j # k
  <2>0. i \in 1 .. n + 1
    BY <1>0
  <2>1. CASE i < k
    <3>1. i \in 1 .. n - 1
      BY <1>0, <2>1
    <3>. QED BY <1>2, <2>0, <2>1, <3>1
  <2>2. CASE i > k + 1
    <3>1. i - 1 \in 1 .. n - 1 /\ i - 1 # k /\ ~ (i < k)
      BY <1>0, <2>2
    <3>. QED BY <1>2, <1>12, <2>0, <3>1
  <2>. QED BY <1>0, <1>12, <2>1, <2>2
<1>13. ASSUME NEW j \in 1 .. n - 1, j # k PROVE bs[j] # bs[k]
  <2>1. j \in DOMAIN bs /\ k \in DOMAIN bs
    BY <1>0
  <2>. QED BY <1>13, <2>1, LaidOnce
<1>14. CASE k = n
  <2>1. \A i \in 1 .. n : i # k + 1
    BY <1>0, <1>14
  <2>2. \A j \in 1 .. n - 1 : j # k
    BY <1>0, <1>14
  <2>3. ASSUME NEW b \in PhysicalOf(d) PROVE b \in PhysicalOf(bs) \union {x}
    <3>1. PICK i \in 1 .. n : b = d[i]
      BY <1>10
    <3>. QED BY <1>3, <1>9, <1>12, <2>1, <3>1
  <2>4. ASSUME NEW b \in PhysicalOf(bs) PROVE b \in PhysicalOf(d)
    BY <1>9, <1>10, <1>11, <2>2
  <2>5. x \in PhysicalOf(d)
    BY <1>0, <1>3, <1>10
  <2>6. PhysicalOf(d) = PhysicalOf(bs) \union {x}
    BY <2>3, <2>4, <2>5
  <2>. QED BY <1>0, <1>3, <1>7, <1>8, <1>14, <2>6 DEF n
<1>15. CASE k # n
  <2>1. k + 1 \in 1 .. n /\ k \in 1 .. n - 1
    BY <1>0, <1>15
  <2>2. ASSUME NEW b \in PhysicalOf(d) PROVE b \in (PhysicalOf(bs) \ {bs[k]}) \union {x, y}
    <3>1. PICK i \in 1 .. n : b = d[i]
      BY <1>10
    <3>. QED BY <1>3, <1>9, <1>12, <1>13, <3>1
  <2>3. ASSUME NEW b \in PhysicalOf(bs) \ {bs[k]} PROVE b \in PhysicalOf(d)
    <3>1. PICK j \in 1 .. n - 1 : b = bs[j]
      BY <1>9
    <3>. QED BY <1>10, <1>11, <3>1
  <2>4. x \in PhysicalOf(d) /\ y \in PhysicalOf(d)
    BY <1>0, <1>3, <1>10, <2>1
  <2>5. PhysicalOf(d) = (PhysicalOf(bs) \ {bs[k]}) \union {x, y}
    BY <2>2, <2>3, <2>4
  <2>. QED BY <1>0, <1>3, <1>7, <1>8, <1>15, <2>5 DEF n
<1>. QED BY <1>14, <1>15

(* Two blocks in one                                                         *)
IsMerged(bs, k, x, d) ==
  /\ x = [at |-> bs[k - 1].at, size |-> bs[k].size + bs[k - 1].size, type |-> bs[k].type]
  /\ d \in Seq(Blocks) /\ Len(d) = Len(bs) - 1
  /\ \A j \in 1 .. Len(bs) - 1 :
       d[j] = IF j < k - 1 THEN bs[j] ELSE IF j = k - 1 THEN x ELSE bs[j + 1]

LEMMA MergedLaid ==
  ASSUME NEW bs, Laid(bs), NEW k \in DOMAIN bs, k # 1, NEW x, NEW d, IsMerged(bs, k, x, d)
  PROVE  /\ Laid(d) /\ k - 1 \in DOMAIN d /\ d[k - 1] = x
         /\ EndsAt(x) = EndsAt(bs[k])
         /\ IF k = Len(bs) THEN NullOf(d) = x /\ PhysicalOf(d) = PhysicalOf(bs) \ {bs[k - 1]}
            ELSE /\ NullOf(d) = NullOf(bs)
                 /\ PhysicalOf(d) = (PhysicalOf(bs) \ {bs[k - 1], bs[k]}) \union {x}
<1>. DEFINE n == Len(bs)
<1>. USE DEF IsMerged
<1>0. /\ bs \in Seq(Blocks) /\ n \in Nat /\ n # 0 /\ DOMAIN bs = 1 .. n /\ k \in 2 .. n
      /\ d \in Seq(Blocks) /\ Len(d) = n - 1
  BY DEF Laid
<1>1. /\ bs[1].at = 0
      /\ \A j \in 1 .. n - 1 : bs[j].size > 0 /\ bs[j + 1].at = EndsAt(bs[j])
      /\ EndsAt(bs[n]) = Total /\ IsFree(bs[n])
  BY DEF Laid
<1>. HIDE DEF n
<1>2. \A j \in 1 .. n - 1 :
        d[j] = IF j < k - 1 THEN bs[j] ELSE IF j = k - 1 THEN x ELSE bs[j + 1]
  BY DEF n
<1>3. k - 1 \in 1 .. n - 1 /\ k - 1 \in DOMAIN bs /\ (k - 1) + 1 = k /\ n - 1 \in Nat /\ n - 1 # 0
  BY <1>0
<1>4. d[k - 1] = x
  BY <1>2, <1>3
<1>5. /\ x.at = bs[k - 1].at /\ x.size = bs[k].size + bs[k - 1].size /\ x.type = bs[k].type
      /\ bs[k].at = EndsAt(bs[k - 1]) /\ bs[k - 1].size > 0
      /\ bs[k].size \in Nat /\ bs[k - 1].size \in Nat /\ bs[k - 1].at \in Nat
  BY <1>1, <1>3, LaidIs
<1>. HIDE DEF IsMerged
<1>6. EndsAt(x) = EndsAt(bs[k]) /\ x.size > 0
  BY <1>5 DEF EndsAt
<1>. HIDE DEF n
<1>7. d[1].at = 0
  <2>1. CASE k = 2
    BY <1>1, <1>3, <1>4, <1>5, <2>1
  <2>2. CASE k # 2
    <3>1. 1 < k - 1 /\ 1 \in 1 .. n - 1
      BY <1>0, <2>2
    <3>. QED BY <1>1, <1>2, <3>1
  <2>. QED BY <2>1, <2>2
<1>8. ASSUME NEW j \in 1 .. n - 2 PROVE d[j].size > 0 /\ d[j + 1].at = EndsAt(d[j])
  <2>0. j \in 1 .. n - 1 /\ j + 1 \in 1 .. n - 1 /\ j \in Nat /\ k \in Nat
    BY <1>0
  <2>1. CASE j + 1 < k - 1
    <3>1. j < k - 1
      BY <2>0, <2>1
    <3>. QED BY <1>1, <1>2, <2>0, <2>1, <3>1
  <2>2. CASE j + 1 = k - 1
    <3>1. j < k - 1
      BY <2>0, <2>2
    <3>2. d[j] = bs[j] /\ d[j + 1] = x /\ bs[j].size > 0 /\ bs[k - 1].at = EndsAt(bs[j])
      BY <1>1, <1>2, <1>4, <2>0, <2>2, <3>1
    <3>. QED BY <1>5, <3>2
  <2>3. CASE j = k - 1
    <3>1. d[j] = x /\ d[j + 1] = bs[k + 1] /\ k \in 1 .. n - 1
      <4>1. ~ (j + 1 < k - 1) /\ j + 1 # k - 1 /\ (j + 1) + 1 = k + 1 /\ k \in 1 .. n - 1
        BY <1>0, <2>0, <2>3
      <4>. QED BY <1>2, <1>4, <2>0, <2>3, <4>1
    <3>2. bs[k + 1].at = EndsAt(bs[k])
      BY <1>1, <3>1
    <3>. QED BY <1>6, <3>1, <3>2
  <2>4. CASE j > k - 1
    <3>1. /\ ~ (j < k - 1) /\ j # k - 1 /\ ~ (j + 1 < k - 1) /\ j + 1 # k - 1
          /\ j + 1 \in 1 .. n - 1
      BY <1>0, <2>0, <2>4
    <3>2. d[j] = bs[j + 1] /\ d[j + 1] = bs[(j + 1) + 1]
      BY <1>2, <2>0, <3>1
    <3>. QED BY <1>1, <3>1, <3>2
  <2>. QED BY <2>0, <2>1, <2>2, <2>3, <2>4
<1>9. d[n - 1] = IF k = n THEN x ELSE bs[n]
  <2>1. n - 1 \in 1 .. n - 1 /\ (n - 1) + 1 = n /\ ~ (n - 1 < k - 1)
    BY <1>0, <1>3
  <2>2. n - 1 = k - 1 <=> k = n
    BY <1>0
  <2>. QED BY <1>2, <2>1, <2>2
<1>10. Laid(d)
  <2>1. EndsAt(d[n - 1]) = Total /\ IsFree(d[n - 1])
    BY <1>1, <1>5, <1>6, <1>9 DEF IsFree
  <2>2. Len(d) = n - 1 /\ Len(d) - 1 = n - 2
    BY <1>0 DEF n
  <2>. QED BY <1>0, <1>3, <1>7, <1>8, <2>1, <2>2 DEF Laid
<1>11. NullOf(d) = IF k = n THEN x ELSE NullOf(bs)
  BY <1>0, <1>9 DEF NullOf, n
<1>12. \A b : b \in PhysicalOf(bs) <=> \E j \in 1 .. n - 1 : b = bs[j]
  BY DEF PhysicalOf, n
<1>13. \A b : b \in PhysicalOf(d) <=> \E j \in 1 .. n - 2 : b = d[j]
  <2>1. Len(d) - 1 = n - 2
    BY <1>0 DEF n
  <2>. QED BY <2>1 DEF PhysicalOf
<1>14. ASSUME NEW j \in 1 .. n - 1, j # k, j # k - 1
       PROVE  \E i \in 1 .. n - 2 : d[i] = bs[j]
  <2>1. CASE j < k - 1
    <3>1. j \in 1 .. n - 2 /\ j \in 1 .. n - 1
      BY <1>0, <2>1
    <3>. QED BY <1>2, <2>1, <3>1
  <2>2. CASE j > k
    <3>1. /\ j - 1 \in 1 .. n - 2 /\ j - 1 \in 1 .. n - 1 /\ (j - 1) + 1 = j
          /\ ~ (j - 1 < k - 1) /\ j - 1 # k - 1
      BY <1>0, <2>2
    <3>. QED BY <1>2, <3>1
  <2>3. j \in Nat /\ k \in Nat
    BY <1>0
  <2>4. j < k - 1 \/ j > k
    BY <1>14, <2>3
  <2>. QED BY <2>1, <2>2, <2>4
<1>15. ASSUME NEW i \in 1 .. n - 2, i # k - 1
       PROVE  \E j \in 1 .. n - 1 : d[i] = bs[j] /\ j # k /\ j # k - 1
  <2>0. i \in 1 .. n - 1
    BY <1>0
  <2>1. CASE i < k - 1
    <3>1. i # k
      BY <1>0, <2>1
    <3>. QED BY <1>2, <1>15, <2>0, <2>1, <3>1
  <2>2. CASE i > k - 1
    <3>1. i + 1 \in 1 .. n - 1 /\ i + 1 # k /\ i + 1 # k - 1 /\ ~ (i < k - 1)
      BY <1>0, <2>2
    <3>. QED BY <1>2, <1>15, <2>0, <3>1
  <2>3. i \in Nat /\ k \in Nat
    BY <1>0
  <2>4. i < k - 1 \/ i > k - 1
    BY <1>15, <2>3
  <2>. QED BY <2>1, <2>2, <2>4
<1>16. ASSUME NEW j \in 1 .. n - 1, j # k, j # k - 1 PROVE bs[j] # bs[k] /\ bs[j] # bs[k - 1]
  <2>1. j \in DOMAIN bs /\ k \in DOMAIN bs /\ k - 1 \in DOMAIN bs
    BY <1>0, <1>3
  <2>. QED BY <1>16, <2>1, LaidOnce
<1>17. CASE k = n
  <2>1. \A i \in 1 .. n - 2 : i # k - 1
    BY <1>0, <1>17
  <2>2. \A j \in 1 .. n - 1 : j # k
    BY <1>0, <1>17
  <2>3. ASSUME NEW b \in PhysicalOf(d) PROVE b \in PhysicalOf(bs) \ {bs[k - 1]}
    <3>1. PICK i \in 1 .. n - 2 : b = d[i]
      BY <1>13
    <3>2. PICK j \in 1 .. n - 1 : d[i] = bs[j] /\ j # k /\ j # k - 1
      BY <1>15, <2>1
    <3>. QED BY <1>12, <1>16, <3>1, <3>2
  <2>4. ASSUME NEW b \in PhysicalOf(bs) \ {bs[k - 1]} PROVE b \in PhysicalOf(d)
    <3>1. PICK j \in 1 .. n - 1 : b = bs[j]
      BY <1>12
    <3>. QED BY <1>13, <1>14, <2>2, <3>1
  <2>5. PhysicalOf(d) = PhysicalOf(bs) \ {bs[k - 1]}
    BY <2>3, <2>4
  <2>6. k - 1 \in DOMAIN d
    BY <1>0, <1>3 DEF n
  <2>. QED BY <1>4, <1>6, <1>10, <1>11, <1>17, <2>5, <2>6 DEF n
<1>18. CASE k # n
  <2>1. k - 1 \in 1 .. n - 2
    BY <1>0, <1>18
  <2>2. ASSUME NEW b \in PhysicalOf(d) PROVE b \in (PhysicalOf(bs) \ {bs[k - 1], bs[k]}) \union {x}
    <3>1. PICK i \in 1 .. n - 2 : b = d[i]
      BY <1>13
    <3>2. CASE i # k - 1
      <4>1. PICK j \in 1 .. n - 1 : d[i] = bs[j] /\ j # k /\ j # k - 1
        BY <1>15, <3>2
      <4>. QED BY <1>12, <1>16, <3>1, <4>1
    <3>. QED BY <1>4, <3>1, <3>2
  <2>3. ASSUME NEW b \in PhysicalOf(bs) \ {bs[k - 1], bs[k]} PROVE b \in PhysicalOf(d)
    <3>1. PICK j \in 1 .. n - 1 : b = bs[j]
      BY <1>12
    <3>. QED BY <1>13, <1>14, <3>1
  <2>4. x \in PhysicalOf(d)
    BY <1>4, <1>13, <2>1
  <2>5. PhysicalOf(d) = (PhysicalOf(bs) \ {bs[k - 1], bs[k]}) \union {x}
    BY <2>2, <2>3, <2>4
  <2>6. k - 1 \in DOMAIN d
    BY <1>0, <1>3 DEF n
  <2>. QED BY <1>4, <1>6, <1>10, <1>11, <1>18, <2>5, <2>6 DEF n
<1>. QED BY <1>17, <1>18

-----------------------------------------------------------------------------
(* The books about the free blocks                                           *)

(* Blocks in a memory block, told apart by where they begin                  *)
Keyed(F) ==
  /\ IsFiniteSet(F) /\ F \in SUBSET Blocks
  /\ \A b \in F : b.size \in 1 .. Total
  /\ \A b, c \in F : b.at = c.at => b = c

OnList(F, l) == {f \in F : ListOf(f.size) = l}

NoneOn(F, l) == OnList(F, l) = {}

IsEmpty(s) == s = <<>>

OfClass(F, c) == {f \in F : Class(f.size) = c}

(* The books are right for these free blocks.                                *)
ListsRight(lists, F) ==
  /\ lists \in [0 .. ListsCount - 1 -> Seq(Nat)]
  /\ \A l \in 0 .. ListsCount - 1 :
       IsInjective(lists[l]) /\ ToSet(lists[l]) = {b.at : b \in OnList(F, l)}

BitsRight(inner, classes, F) ==
  /\ inner \in [Classes -> SUBSET Nat]
  /\ \A c \in Classes :
       /\ inner[c] = {Second(b.size) : b \in OfClass(F, c)}
       /\ c \in classes <=> inner[c] # {}

CountsRight(count, size, F) ==
  count = Cardinality(F) /\ size = SumFunction([b \in F |-> b.size])

Books(m, F) ==
  /\ ListsRight(m.lists, F)
  /\ BitsRight(m.inner, m.classes, F)
  /\ CountsRight(m.freeCount, m.freeSize, F)

LEMMA KeyedIs ==
  ASSUME NEW F, Keyed(F), NEW b \in F
  PROVE  /\ b.at \in Nat /\ b.size \in Nat \ {0} /\ b.size \in 1 .. Total
         /\ ListsCount \in Nat \ {0} /\ ListOf(b.size) \in 0 .. ListsCount - 1
         /\ Class(b.size) \in Classes /\ Second(b.size) \in Nat
<1>1. b \in Blocks /\ b.size \in 1 .. Total
  BY DEF Keyed
<1>2. b.at \in Nat /\ b.size \in Nat \ {0}
  BY <1>1 DEF Blocks
<1>. QED BY <1>1, <1>2, ListInRange

(* A free block less                                                         *)
LEMMA ListsLess ==
  ASSUME NEW F, Keyed(F), NEW b \in F, NEW lists, ListsRight(lists, F),
         NEW left, left = Unlinked(lists[ListOf(b.size)], b.at)
  PROVE  /\ ListsRight([lists EXCEPT ![ListOf(b.size)] = left], F \ {b})
         /\ IsEmpty(left) <=> NoneOn(F \ {b}, ListOf(b.size))
<1>. DEFINE k == ListOf(b.size)
            G == F \ {b}
            after == [lists EXCEPT ![k] = left]
<1>1. k \in 0 .. ListsCount - 1 /\ lists \in [0 .. ListsCount - 1 -> Seq(Nat)] /\ b.at \in Nat
  BY KeyedIs DEF ListsRight
<1>2. lists[k] \in Seq(Nat) /\ IsInjective(lists[k]) /\ ToSet(lists[k]) = {f.at : f \in OnList(F, k)}
  BY <1>1 DEF ListsRight
<1>3. b.at \in ToSet(lists[k])
  BY <1>2 DEF OnList
<1>4. left \in Seq(Nat) /\ IsInjective(left) /\ ToSet(left) = ToSet(lists[k]) \ {b.at}
  BY <1>2, <1>3, UnlinkedIs
<1>5. {f.at : f \in OnList(F, k)} \ {b.at} = {f.at : f \in OnList(G, k)}
  BY DEF OnList, Keyed
<1>6. ASSUME NEW l \in 0 .. ListsCount - 1, l # k PROVE OnList(F, l) = OnList(G, l)
  BY <1>6 DEF OnList
<1>7. after \in [0 .. ListsCount - 1 -> Seq(Nat)] /\ after[k] = left
      /\ \A l \in 0 .. ListsCount - 1 : l # k => after[l] = lists[l]
  BY <1>1, <1>4
<1>. HIDE DEF after, k, G
<1>8. ListsRight(after, G)
  <2>1. ASSUME NEW l \in 0 .. ListsCount - 1
        PROVE  IsInjective(after[l]) /\ ToSet(after[l]) = {f.at : f \in OnList(G, l)}
    <3>1. CASE l = k
      BY <1>2, <1>4, <1>5, <1>7, <3>1
    <3>2. CASE l # k
      BY <1>6, <1>7, <3>2 DEF ListsRight
    <3>. QED BY <3>1, <3>2
  <2>. QED BY <1>7, <2>1 DEF ListsRight
<1>9. left = <<>> <=> ToSet(left) = {}
  <2>1. ASSUME left # <<>> PROVE ToSet(left) # {}
    <3>1. 1 \in DOMAIN left
      BY <1>4, <2>1
    <3>. QED BY <3>1 DEF ToSet
  <2>2. ASSUME left = <<>> PROVE ToSet(left) = {}
    <3>1. DOMAIN left = {}
      BY <2>2
    <3>. QED BY <3>1 DEF ToSet
  <2>. QED BY <2>1, <2>2
<1>10. ToSet(left) = {} <=> OnList(G, k) = {}
  <2>1. ToSet(left) = {f.at : f \in OnList(G, k)}
    BY <1>2, <1>4, <1>5
  <2>. QED BY <2>1
<1>11. IsEmpty(left) <=> NoneOn(G, k)
  BY <1>9, <1>10 DEF IsEmpty, NoneOn
<1>. QED BY <1>8, <1>11 DEF after, k, G

LEMMA BitsLess ==
  ASSUME NEW F, Keyed(F), NEW b \in F, NEW inner, NEW classes, BitsRight(inner, classes, F),
         NEW c, c = Class(b.size),
         NEW seconds,
         seconds = IF NoneOn(F \ {b}, ListOf(b.size)) THEN inner[c] \ {Second(b.size)} ELSE inner[c]
  PROVE  BitsRight([inner EXCEPT ![c] = seconds],
                   IF seconds = {} THEN classes \ {c} ELSE classes, F \ {b})
<1>. DEFINE G == F \ {b}
            after == [inner EXCEPT ![c] = seconds]
            left == IF seconds = {} THEN classes \ {c} ELSE classes
            Of(S, d) == {Second(f.size) : f \in OfClass(S, d)}
<1>1. c \in Classes /\ inner \in [Classes -> SUBSET Nat] /\ inner[c] = Of(F, c)
  BY KeyedIs DEF BitsRight
<1>2. \A f \in F : f.size \in Nat \ {0}
  BY KeyedIs
<1>3. OnList(G, ListOf(b.size)) = {} <=> Second(b.size) \notin Of(G, c)
  <2>1. ASSUME NEW f \in OnList(G, ListOf(b.size)) PROVE Second(b.size) \in Of(G, c)
    <3>1. f \in G /\ f \in F /\ ListOf(f.size) = ListOf(b.size)
      BY DEF OnList
    <3>2. Class(f.size) = c /\ Second(f.size) = Second(b.size)
      BY <1>2, <3>1, ListOfOne
    <3>. QED BY <3>1, <3>2 DEF OfClass
  <2>2. ASSUME Second(b.size) \in Of(G, c) PROVE OnList(G, ListOf(b.size)) # {}
    <3>1. PICK f \in G : Class(f.size) = c /\ Second(f.size) = Second(b.size)
      BY <2>2 DEF OfClass
    <3>2. ListOf(f.size) = ListOf(b.size)
      BY <3>1 DEF ListOf
    <3>. QED BY <3>1, <3>2 DEF OnList
  <2>. QED BY <2>1, <2>2
<1>4. Of(F, c) = Of(G, c) \union {Second(b.size)}
  BY DEF OfClass
<1>5. seconds = Of(G, c)
  BY <1>1, <1>3, <1>4 DEF NoneOn
<1>6. ASSUME NEW d \in Classes, d # c PROVE OfClass(F, d) = OfClass(G, d)
  BY <1>6 DEF OfClass
<1>7. after \in [Classes -> SUBSET Nat] /\ after[c] = seconds
      /\ \A d \in Classes : d # c => after[d] = inner[d]
  <2>1. seconds \in SUBSET Nat
    BY <1>1
  <2>. QED BY <1>1, <2>1
<1>. HIDE DEF after
<1>8. ASSUME NEW d \in Classes PROVE after[d] = Of(G, d) /\ (d \in left <=> after[d] # {})
  <2>1. CASE d = c
    <3>1. inner[c] # {} /\ c \in classes
      BY <1>1, <1>4 DEF BitsRight
    <3>. QED BY <1>5, <1>7, <2>1, <3>1
  <2>2. CASE d # c
    <3>1. inner[d] = Of(F, d) /\ (d \in classes <=> inner[d] # {})
      BY DEF BitsRight
    <3>. QED BY <1>6, <1>7, <2>2, <3>1
  <2>. QED BY <2>1, <2>2
<1>. QED BY <1>7, <1>8 DEF BitsRight, after

LEMMA CountsLess ==
  ASSUME NEW F, Keyed(F), NEW b \in F, NEW count, NEW size, CountsRight(count, size, F)
  PROVE  CountsRight(count - 1, size - b.size, F \ {b})
<1>. DEFINE f == [x \in F |-> x.size]
            g == [x \in F \ {b} |-> x.size]
<1>1. Sizing(f) /\ b \in DOMAIN f
  BY KeyedIs DEF Sizing, Keyed
<1>2. DOMAIN g = DOMAIN f \ {b} /\ \A y \in DOMAIN g : g[y] = f[y]
  OBVIOUS
<1>3. f[b] = b.size /\ DOMAIN f = F /\ DOMAIN g = F \ {b}
  OBVIOUS
<1>4. Sizing(g)
  <2>1. IsFiniteSet(F \ {b})
    BY FS_RemoveElement DEF Keyed
  <2>. QED BY <2>1, KeyedIs DEF Sizing
<1>. HIDE DEF f, g
<1>5. SumFunction(f) = SumFunction(g) + f[b] /\ Cardinality(DOMAIN f) = Cardinality(DOMAIN g) + 1
  BY <1>1, <1>2, SumMore
<1>6. SumFunction(g) \in Nat /\ Cardinality(F \ {b}) \in Nat /\ b.size \in Nat
  BY <1>3, <1>4, SumIsCount, KeyedIs, FS_CardinalityType DEF Sizing
<1>7. count = Cardinality(F) /\ size = SumFunction(f)
  BY DEF CountsRight, f
<1>8. count - 1 = Cardinality(F \ {b}) /\ size - b.size = SumFunction(g)
  BY <1>3, <1>5, <1>6, <1>7
<1>. QED BY <1>8 DEF CountsRight, g

(* And a free block more                                                     *)
LEMMA ListsMore ==
  ASSUME NEW F, NEW b, b \notin F, Keyed(F \union {b}), NEW lists, ListsRight(lists, F)
  PROVE  ListsRight([lists EXCEPT ![ListOf(b.size)] = <<b.at>> \o lists[ListOf(b.size)]], F \union {b})
<1>. DEFINE k == ListOf(b.size)
            G == F \union {b}
            more == <<b.at>> \o lists[k]
            after == [lists EXCEPT ![k] = more]
<1>1. k \in 0 .. ListsCount - 1 /\ lists \in [0 .. ListsCount - 1 -> Seq(Nat)] /\ b.at \in Nat
  BY KeyedIs DEF ListsRight
<1>2. lists[k] \in Seq(Nat) /\ IsInjective(lists[k]) /\ ToSet(lists[k]) = {f.at : f \in OnList(F, k)}
  BY <1>1 DEF ListsRight
<1>3. b.at \notin ToSet(lists[k])
  BY <1>2 DEF OnList, Keyed
<1>4. more \in Seq(Nat) /\ IsInjective(more) /\ ToSet(more) = ToSet(lists[k]) \union {b.at}
  BY <1>1, <1>2, <1>3, LinkedIs
<1>5. {f.at : f \in OnList(F, k)} \union {b.at} = {f.at : f \in OnList(G, k)}
  BY DEF OnList
<1>6. ASSUME NEW l \in 0 .. ListsCount - 1, l # k PROVE OnList(F, l) = OnList(G, l)
  BY <1>6 DEF OnList
<1>. HIDE DEF more
<1>7. after \in [0 .. ListsCount - 1 -> Seq(Nat)] /\ after[k] = more
      /\ \A l \in 0 .. ListsCount - 1 : l # k => after[l] = lists[l]
  BY <1>1, <1>4
<1>. HIDE DEF after, k, G
<1>8. ASSUME NEW l \in 0 .. ListsCount - 1
      PROVE  IsInjective(after[l]) /\ ToSet(after[l]) = {f.at : f \in OnList(G, l)}
  <2>1. CASE l = k
    BY <1>2, <1>4, <1>5, <1>7, <2>1
  <2>2. CASE l # k
    BY <1>6, <1>7, <2>2 DEF ListsRight
  <2>. QED BY <2>1, <2>2
<1>9. ListsRight(after, G)
  BY <1>7, <1>8 DEF ListsRight
<1>. QED BY <1>9 DEF after, k, G, more

LEMMA BitsMore ==
  ASSUME NEW F, NEW b, b \notin F, Keyed(F \union {b}), NEW inner, NEW classes,
         BitsRight(inner, classes, F), NEW c, c = Class(b.size)
  PROVE  BitsRight([inner EXCEPT ![c] = inner[c] \union {Second(b.size)}],
                   classes \union {c}, F \union {b})
<1>. DEFINE G == F \union {b}
            after == [inner EXCEPT ![c] = inner[c] \union {Second(b.size)}]
            Of(S, d) == {Second(f.size) : f \in OfClass(S, d)}
<1>1. c \in Classes /\ inner \in [Classes -> SUBSET Nat] /\ inner[c] = Of(F, c) /\ Second(b.size) \in Nat
  BY KeyedIs DEF BitsRight
<1>2. Of(G, c) = Of(F, c) \union {Second(b.size)}
  BY DEF OfClass
<1>3. ASSUME NEW d \in Classes, d # c PROVE OfClass(F, d) = OfClass(G, d)
  BY <1>3 DEF OfClass
<1>4. after \in [Classes -> SUBSET Nat] /\ after[c] = Of(G, c)
      /\ \A d \in Classes : d # c => after[d] = inner[d]
  <2>1. inner[c] \union {Second(b.size)} \in SUBSET Nat
    BY <1>1
  <2>2. after \in [Classes -> SUBSET Nat] /\ after[c] = inner[c] \union {Second(b.size)}
        /\ \A d \in Classes : d # c => after[d] = inner[d]
    BY <1>1, <2>1
  <2>. QED BY <1>1, <1>2, <2>2
<1>. HIDE DEF after
<1>5. ASSUME NEW d \in Classes
      PROVE  after[d] = Of(G, d) /\ (d \in classes \union {c} <=> after[d] # {})
  <2>1. CASE d = c
    BY <1>2, <1>4, <2>1
  <2>2. CASE d # c
    <3>1. inner[d] = Of(F, d) /\ (d \in classes <=> inner[d] # {})
      BY DEF BitsRight
    <3>. QED BY <1>3, <1>4, <2>2, <3>1
  <2>. QED BY <2>1, <2>2
<1>. QED BY <1>4, <1>5 DEF BitsRight, after

LEMMA CountsMore ==
  ASSUME NEW F, NEW b, b \notin F, Keyed(F \union {b}), NEW count, NEW size, CountsRight(count, size, F)
  PROVE  CountsRight(count + 1, size + b.size, F \union {b})
<1>. DEFINE f == [x \in F \union {b} |-> x.size]
            g == [x \in F |-> x.size]
<1>1. Sizing(f) /\ b \in DOMAIN f
  BY KeyedIs DEF Sizing, Keyed
<1>2. DOMAIN g = DOMAIN f \ {b} /\ \A y \in DOMAIN g : g[y] = f[y]
  OBVIOUS
<1>3. f[b] = b.size /\ DOMAIN f = F \union {b} /\ DOMAIN g = F
  OBVIOUS
<1>4. Sizing(g)
  <2>1. IsFiniteSet(F)
    BY FS_Subset DEF Keyed
  <2>. QED BY <2>1, KeyedIs DEF Sizing
<1>. HIDE DEF f, g
<1>5. SumFunction(f) = SumFunction(g) + f[b] /\ Cardinality(DOMAIN f) = Cardinality(DOMAIN g) + 1
  BY <1>1, <1>2, SumMore
<1>6. count = Cardinality(F) /\ size = SumFunction(g)
  BY DEF CountsRight, g
<1>7. count + 1 = Cardinality(F \union {b}) /\ size + b.size = SumFunction(f)
  BY <1>3, <1>5, <1>6
<1>. QED BY <1>7 DEF CountsRight, f

Meta(T) ==
  [blocks : Seq(Blocks), lists : [0 .. ListsCount - 1 -> Seq(Nat)], inner : [Classes -> SUBSET Nat],
   classes : SUBSET Classes, freeCount : Int, freeSize : Int, allocCount : Int, pages : T]

(* The blocks, and the books about those that are free                       *)
Placed(m, T) ==
  /\ m \in Meta(T)
  /\ Laid(m.blocks)
  /\ Books(m, FreeOf(m.blocks))

LEMMA FreeKeyed ==
  ASSUME NEW bs, Laid(bs)
  PROVE  IsFiniteSet(PhysicalOf(bs)) /\ Keyed(FreeOf(bs))
<1>1. IsFiniteSet(PhysicalOf(bs))
  <2>. DEFINE I == 1 .. Len(bs) - 1
              f == [k \in I |-> bs[k]]
  <2>1. Len(bs) - 1 \in Int
    BY DEF Laid
  <2>2. IsFiniteSet(I)
    BY <2>1, FS_Interval
  <2>3. f \in Surjection(I, PhysicalOf(bs))
    BY DEF Surjection, PhysicalOf
  <2>. QED BY <2>2, <2>3, FS_Surjection
<1>2. FreeOf(bs) \in SUBSET PhysicalOf(bs)
  BY DEF FreeOf
<1>3. IsFiniteSet(FreeOf(bs))
  BY <1>1, <1>2, FS_Subset
<1>4. ASSUME NEW b \in FreeOf(bs) PROVE b \in Blocks /\ b.size \in 1 .. Total
  BY <1>2, PhysicalIs
<1>5. ASSUME NEW b \in FreeOf(bs), NEW c \in FreeOf(bs), b.at = c.at PROVE b = c
  BY <1>2, <1>5, PhysicalOnce
<1>. QED BY <1>1, <1>3, <1>4, <1>5 DEF Keyed

LEMMA FreeIn ==
  ASSUME NEW bs, Laid(bs), NEW k \in DOMAIN bs, k # Len(bs)
  PROVE  /\ bs[k] \in PhysicalOf(bs)
         /\ IsFree(bs[k]) => bs[k] \in FreeOf(bs)
         /\ ~ IsFree(bs[k]) => bs[k] \in UsedOf(bs)
BY IndexOf DEF FreeOf, UsedOf

(* The block at k is not free any more, and all else is as it was.            *)
LosesFree(m, k, n) ==
  /\ n.pages = m.pages /\ n.allocCount = m.allocCount
  /\ Len(n.blocks) = Len(m.blocks) /\ DOMAIN n.blocks = DOMAIN m.blocks
  /\ n.blocks[k] = [at |-> m.blocks[k].at, size |-> m.blocks[k].size, type |-> "unknown"]
  /\ \A j \in DOMAIN m.blocks : j # k => n.blocks[j] = m.blocks[j]
  /\ NullOf(n.blocks) = NullOf(m.blocks)
  /\ FreeOf(n.blocks) = FreeOf(m.blocks) \ {m.blocks[k]}
  /\ UsedOf(n.blocks) = UsedOf(m.blocks) \union {n.blocks[k]}

LEMMA RemoveFreePlaced ==
  ASSUME NEW T, NEW m, Placed(m, T), NEW k \in DOMAIN m.blocks, k # Len(m.blocks),
         IsFree(m.blocks[k]), NEW n, n = RemoveFree(m, k)
  PROVE  Placed(n, T) /\ LosesFree(m, k, n)
<1>. DEFINE bs == m.blocks
            b == m.blocks[k]
            F == FreeOf(bs)
            c == Class(b.size)
            left == Unlinked(m.lists[ListOf(b.size)], b.at)
            seconds == IF left = <<>> THEN m.inner[c] \ {Second(b.size)} ELSE m.inner[c]
            d == [bs EXCEPT ![k].type = "unknown"]
<1>0. m \in Meta(T) /\ Laid(bs) /\ Books(m, F)
  BY DEF Placed
<1>1. /\ n.blocks = d
      /\ n.lists = [m.lists EXCEPT ![ListOf(b.size)] = left]
      /\ n.inner = [m.inner EXCEPT ![c] = seconds]
      /\ n.classes = IF seconds = {} THEN m.classes \ {c} ELSE m.classes
      /\ n.freeCount = m.freeCount - 1 /\ n.freeSize = m.freeSize - b.size
      /\ n.allocCount = m.allocCount /\ n.pages = m.pages
      /\ n = [blocks |-> n.blocks, lists |-> n.lists, inner |-> n.inner, classes |-> n.classes,
              freeCount |-> n.freeCount, freeSize |-> n.freeSize,
              allocCount |-> n.allocCount, pages |-> n.pages]
  BY <1>0 DEF RemoveFree, Meta
<1>2. b \in F /\ Keyed(F)
  BY <1>0, FreeKeyed, FreeIn
<1>3. /\ Laid(d) /\ Len(d) = Len(bs) /\ DOMAIN d = DOMAIN bs
      /\ d[k] = [at |-> b.at, size |-> b.size, type |-> "unknown"]
      /\ \A j \in DOMAIN bs : j # k => d[j] = bs[j]
      /\ NullOf(d) = NullOf(bs)
      /\ PhysicalOf(d) = (PhysicalOf(bs) \ {b}) \union {d[k]}
  <2>1. "unknown" \in SuballocationTypes
    BY DEF SuballocationTypes
  <2>. QED BY <1>0, <2>1, RetypedLaid
<1>4. FreeOf(d) = F \ {b} /\ UsedOf(d) = UsedOf(bs) \union {d[k]}
  <2>1. ~ IsFree(d[k]) /\ IsFree(b)
    BY <1>3 DEF IsFree
  <2>. QED BY <1>3, <2>1 DEF FreeOf, UsedOf
<1>5. ListsRight(m.lists, F) /\ BitsRight(m.inner, m.classes, F) /\ CountsRight(m.freeCount, m.freeSize, F)
  BY <1>0 DEF Books
<1>6. ListsRight(n.lists, F \ {b}) /\ (IsEmpty(left) <=> NoneOn(F \ {b}, ListOf(b.size)))
  <2>0. left = Unlinked(m.lists[ListOf(b.size)], b.at)
    OBVIOUS
  <2>. HIDE DEF left, F, b
  <2>1. /\ ListsRight([m.lists EXCEPT ![ListOf(b.size)] = left], F \ {b})
        /\ IsEmpty(left) <=> NoneOn(F \ {b}, ListOf(b.size))
    BY <1>2, <1>5, <2>0, ListsLess
  <2>. QED BY <1>1, <2>1
<1>7. BitsRight(n.inner, n.classes, F \ {b})
  <2>1. seconds = IF NoneOn(F \ {b}, ListOf(b.size)) THEN m.inner[c] \ {Second(b.size)}
                  ELSE m.inner[c]
    BY <1>6 DEF IsEmpty
  <2>. HIDE DEF seconds, F, b, c
  <2>2. BitsRight([m.inner EXCEPT ![c] = seconds],
                  IF seconds = {} THEN m.classes \ {c} ELSE m.classes, F \ {b})
    BY <1>2, <1>5, <2>1, BitsLess DEF c
  <2>. QED BY <1>1, <2>2
<1>8. CountsRight(n.freeCount, n.freeSize, F \ {b})
  BY <1>1, <1>2, <1>5, CountsLess
<1>9. Books(n, FreeOf(n.blocks))
  BY <1>1, <1>4, <1>6, <1>7, <1>8 DEF Books
<1>10. n \in Meta(T)
  <2>1. n.lists \in [0 .. ListsCount - 1 -> Seq(Nat)] /\ n.inner \in [Classes -> SUBSET Nat]
    BY <1>6, <1>7 DEF ListsRight, BitsRight
  <2>2. n.blocks \in Seq(Blocks)
    BY <1>1, <1>3 DEF Laid
  <2>3. n.classes \in SUBSET Classes /\ n.freeCount \in Int /\ n.allocCount \in Int /\ n.pages \in T
    BY <1>0, <1>1 DEF Meta
  <2>4. n.freeSize \in Int
    BY <1>0, <1>1, <1>2, KeyedIs DEF Meta
  <2>. QED BY <1>1, <2>1, <2>2, <2>3, <2>4 DEF Meta
<1>11. Placed(n, T)
  BY <1>1, <1>3, <1>9, <1>10 DEF Placed
<1>. QED BY <1>1, <1>3, <1>4, <1>11 DEF LosesFree

(* The block at k is free again.                                             *)
GainsFree(m, k, n) ==
  /\ n.pages = m.pages /\ n.allocCount = m.allocCount
  /\ Len(n.blocks) = Len(m.blocks) /\ DOMAIN n.blocks = DOMAIN m.blocks
  /\ n.blocks[k] = [at |-> m.blocks[k].at, size |-> m.blocks[k].size, type |-> "free"]
  /\ \A j \in DOMAIN m.blocks : j # k => n.blocks[j] = m.blocks[j]
  /\ NullOf(n.blocks) = NullOf(m.blocks)
  /\ FreeOf(n.blocks) = FreeOf(m.blocks) \union {n.blocks[k]}
  /\ UsedOf(n.blocks) = UsedOf(m.blocks) \ {m.blocks[k]}

LEMMA InsertFreePlaced ==
  ASSUME NEW T, NEW m, Placed(m, T), NEW k \in DOMAIN m.blocks, k # Len(m.blocks),
         ~ IsFree(m.blocks[k]), NEW n, n = InsertFree(m, k)
  PROVE  Placed(n, T) /\ GainsFree(m, k, n)
<1>. DEFINE bs == m.blocks
            b == m.blocks[k]
            F == FreeOf(bs)
            c == Class(b.size)
            d == [bs EXCEPT ![k].type = "free"]
            e == [at |-> b.at, size |-> b.size, type |-> "free"]
<1>0. m \in Meta(T) /\ Laid(bs) /\ Books(m, F)
  BY DEF Placed
<1>1. /\ n.blocks = d
      /\ n.lists = [m.lists EXCEPT ![ListOf(b.size)] = <<b.at>> \o m.lists[ListOf(b.size)]]
      /\ n.inner = [m.inner EXCEPT ![c] = m.inner[c] \union {Second(b.size)}]
      /\ n.classes = m.classes \union {c}
      /\ n.freeCount = m.freeCount + 1 /\ n.freeSize = m.freeSize + b.size
      /\ n.allocCount = m.allocCount /\ n.pages = m.pages
      /\ n = [blocks |-> n.blocks, lists |-> n.lists, inner |-> n.inner, classes |-> n.classes,
              freeCount |-> n.freeCount, freeSize |-> n.freeSize,
              allocCount |-> n.allocCount, pages |-> n.pages]
  <2>1. n.blocks = d /\ n.classes = m.classes \union {c} /\ n.freeCount = m.freeCount + 1
        /\ n.freeSize = m.freeSize + b.size /\ n.allocCount = m.allocCount /\ n.pages = m.pages
    BY <1>0 DEF InsertFree, Meta
  <2>2. n.lists = [m.lists EXCEPT ![ListOf(b.size)] = <<b.at>> \o m.lists[ListOf(b.size)]]
    BY <1>0 DEF InsertFree, Meta
  <2>3. n.inner = [m.inner EXCEPT ![c] = m.inner[c] \union {Second(b.size)}]
    BY <1>0 DEF InsertFree, Meta
  <2>4. n = [blocks |-> n.blocks, lists |-> n.lists, inner |-> n.inner, classes |-> n.classes,
              freeCount |-> n.freeCount, freeSize |-> n.freeSize,
              allocCount |-> n.allocCount, pages |-> n.pages]
    BY <1>0 DEF InsertFree, Meta
  <2>. QED BY <2>1, <2>2, <2>3, <2>4
<1>2. /\ Laid(d) /\ Len(d) = Len(bs) /\ DOMAIN d = DOMAIN bs
      /\ d[k] = e
      /\ \A j \in DOMAIN bs : j # k => d[j] = bs[j]
      /\ NullOf(d) = NullOf(bs)
      /\ PhysicalOf(d) = (PhysicalOf(bs) \ {b}) \union {d[k]}
  <2>1. "free" \in SuballocationTypes
    BY DEF SuballocationTypes
  <2>. QED BY <1>0, <2>1, RetypedLaid
<1>3. FreeOf(d) = F \union {e} /\ UsedOf(d) = UsedOf(bs) \ {b}
  <2>1. IsFree(d[k]) /\ ~ IsFree(b)
    BY <1>2 DEF IsFree
  <2>. QED BY <1>2, <2>1 DEF FreeOf, UsedOf
<1>4. e \notin F /\ Keyed(F \union {e})
  <2>1. Keyed(FreeOf(d))
    BY <1>2, FreeKeyed
  <2>2. e \notin F
    <3>1. SUFFICES ASSUME e \in F PROVE FALSE
      OBVIOUS
    <3>2. e \in PhysicalOf(bs) /\ b \in PhysicalOf(bs) /\ IsFree(e)
      BY <1>0, <3>1, FreeIn DEF FreeOf
    <3>3. e = b
      BY <1>0, <3>2, PhysicalOnce
    <3>. QED BY <3>2, <3>3
  <2>. QED BY <1>3, <2>1, <2>2
<1>5. ListsRight(m.lists, F) /\ BitsRight(m.inner, m.classes, F) /\ CountsRight(m.freeCount, m.freeSize, F)
  BY <1>0 DEF Books
<1>6. e.at = b.at /\ e.size = b.size
  OBVIOUS
<1>. HIDE DEF e, F
<1>7. ListsRight(n.lists, F \union {e})
  <2>1. ListsRight([m.lists EXCEPT ![ListOf(e.size)] = <<e.at>> \o m.lists[ListOf(e.size)]], F \union {e})
    BY <1>4, <1>5, ListsMore
  <2>. QED BY <1>1, <1>6, <2>1
<1>8. BitsRight(n.inner, n.classes, F \union {e})
  <2>. HIDE DEF b, c
  <2>1. c = Class(e.size)
    BY <1>6 DEF c
  <2>2. BitsRight([m.inner EXCEPT ![c] = m.inner[c] \union {Second(e.size)}], m.classes \union {c},
                  F \union {e})
    BY <1>4, <1>5, <2>1, BitsMore
  <2>. QED BY <1>1, <1>6, <2>2
<1>9. CountsRight(n.freeCount, n.freeSize, F \union {e})
  <2>1. CountsRight(m.freeCount + 1, m.freeSize + e.size, F \union {e})
    BY <1>4, <1>5, CountsMore
  <2>. QED BY <1>1, <1>6, <2>1
<1>10. Books(n, FreeOf(n.blocks))
  BY <1>1, <1>3, <1>7, <1>8, <1>9 DEF Books
<1>11. n \in Meta(T)
  <2>1. n.lists \in [0 .. ListsCount - 1 -> Seq(Nat)] /\ n.inner \in [Classes -> SUBSET Nat]
    BY <1>7, <1>8 DEF ListsRight, BitsRight
  <2>2. n.blocks \in Seq(Blocks)
    BY <1>1, <1>2 DEF Laid
  <2>3. c \in Classes /\ b.size \in Int
    <3>1. e \in F \union {e}
      OBVIOUS
    <3>. QED BY <1>4, <1>6, <3>1, KeyedIs
  <2>4. n.classes \in SUBSET Classes /\ n.freeCount \in Int /\ n.freeSize \in Int
        /\ n.allocCount \in Int /\ n.pages \in T
    BY <1>0, <1>1, <2>3 DEF Meta
  <2>. QED BY <1>1, <2>1, <2>2, <2>4 DEF Meta
<1>12. Placed(n, T)
  BY <1>1, <1>2, <1>10, <1>11 DEF Placed
<1>13. n.blocks[k] = [at |-> b.at, size |-> b.size, type |-> "free"]
  BY <1>1, <1>2 DEF e
<1>. HIDE DEF d, b
<1>14. FreeOf(n.blocks) = FreeOf(bs) \union {n.blocks[k]} /\ UsedOf(n.blocks) = UsedOf(bs) \ {b}
  BY <1>1, <1>2, <1>3 DEF F
<1>. QED BY <1>1, <1>2, <1>12, <1>13, <1>14 DEF b, GainsFree

-----------------------------------------------------------------------------
(* Blocks joined with the one before                                         *)

(* The block at k took over the one before it.                               *)
TakesOver(m, k, n) ==
  /\ n.pages = m.pages /\ n.allocCount = m.allocCount
  /\ k - 1 \in DOMAIN n.blocks /\ FreeOf(n.blocks) = FreeOf(m.blocks)
  /\ n.blocks[k - 1] = [at |-> m.blocks[k - 1].at, type |-> m.blocks[k].type,
                        size |-> m.blocks[k].size + m.blocks[k - 1].size]
  /\ EndsAt(n.blocks[k - 1]) = EndsAt(m.blocks[k])
  /\ IF k = Len(m.blocks)
     THEN /\ NullOf(n.blocks) = n.blocks[k - 1]
          /\ UsedOf(n.blocks) = UsedOf(m.blocks) \ {m.blocks[k - 1]}
     ELSE /\ NullOf(n.blocks) = NullOf(m.blocks) /\ k - 1 # Len(n.blocks)
          /\ UsedOf(n.blocks) =
               (UsedOf(m.blocks) \ {m.blocks[k - 1], m.blocks[k]}) \union {n.blocks[k - 1]}

LEMMA MergePlaced ==
  ASSUME NEW T, NEW m, Placed(m, T), NEW k \in DOMAIN m.blocks, k # 1,
         ~ IsFree(m.blocks[k - 1]), k = Len(m.blocks) \/ ~ IsFree(m.blocks[k]),
         NEW n, n = Merge(m, k)
  PROVE  Placed(n, T) /\ TakesOver(m, k, n)
<1>. DEFINE bs == m.blocks
            prev == bs[k - 1]
            x == [at |-> prev.at, size |-> bs[k].size + prev.size, type |-> bs[k].type]
            wide == [bs EXCEPT ![k].at = prev.at, ![k].size = @ + prev.size]
            d == RemoveAt(wide, k - 1)
<1>0. m \in Meta(T) /\ Laid(bs) /\ Books(m, FreeOf(bs))
  BY DEF Placed
<1>1. bs \in Seq(Blocks) /\ Len(bs) \in Nat /\ Len(bs) # 0 /\ DOMAIN bs = 1 .. Len(bs)
      /\ k \in 2 .. Len(bs) /\ k - 1 \in DOMAIN bs /\ k - 1 # Len(bs)
  BY <1>0 DEF Laid
<1>2. bs[k] \in Blocks /\ prev \in Blocks
  BY <1>1
<1>3. x \in Blocks /\ [[bs[k] EXCEPT !.at = prev.at] EXCEPT !.size = bs[k].size + prev.size] = x
  <2>1. bs[k] = [at |-> bs[k].at, size |-> bs[k].size, type |-> bs[k].type]
    BY <1>0, LaidIs
  <2>2. prev.at \in Nat /\ prev.size \in Nat /\ bs[k].size \in Nat /\ bs[k].type \in SuballocationTypes
    BY <1>2 DEF Blocks
  <2>. HIDE DEF bs, prev
  <2>3. x \in Blocks
    BY <2>2 DEF Blocks
  <2>4. \A a, z, t, u : [[at |-> a, size |-> z, type |-> t] EXCEPT !.at = u]
                        = [at |-> u, size |-> z, type |-> t]
    OBVIOUS
  <2>5. \A a, z, t, u : [[at |-> a, size |-> z, type |-> t] EXCEPT !.size = u]
                        = [at |-> a, size |-> u, type |-> t]
    OBVIOUS
  <2>6. x = [at |-> prev.at, size |-> bs[k].size + prev.size, type |-> bs[k].type]
    BY DEF x
  <2>. HIDE DEF x
  <2>. DEFINE y == [bs[k] EXCEPT !.at = prev.at]
              w == bs[k].size + prev.size
  <2>7. y = [at |-> prev.at, size |-> bs[k].size, type |-> bs[k].type]
    BY <2>1, <2>4
  <2>. HIDE DEF y, w
  <2>8. [y EXCEPT !.size = w] = [at |-> prev.at, size |-> w, type |-> bs[k].type]
    BY <2>7
  <2>. QED BY <2>3, <2>6, <2>8 DEF y, w
<1>4. wide = [bs EXCEPT ![k] = x]
  BY <1>1, <1>2, <1>3 DEF Blocks
<1>. HIDE DEF x, bs, prev, wide
<1>5. /\ wide \in Seq(Blocks) /\ Len(wide) = Len(bs) /\ DOMAIN wide = DOMAIN bs
      /\ wide[k] = x /\ \A j \in DOMAIN bs : j # k => wide[j] = bs[j]
  BY <1>1, <1>3, <1>4
<1>. DEFINE i == k - 1
<1>6. /\ d \in Seq(Blocks) /\ Len(d) = Len(bs) - 1
      /\ \A j \in 1 .. Len(bs) - 1 : d[j] = IF j < k - 1 THEN wide[j] ELSE wide[j + 1]
  <2>1. i \in DOMAIN wide
    BY <1>1, <1>5
  <2>. HIDE DEF i
  <2>2. /\ RemoveAt(wide, i) \in Seq(Blocks) /\ Len(RemoveAt(wide, i)) = Len(wide) - 1
        /\ \A j \in 1 .. Len(wide) - 1 :
             RemoveAt(wide, i)[j] = IF j < i THEN wide[j] ELSE wide[j + 1]
    BY <1>5, <2>1, RemovedIs
  <2>. QED BY <1>5, <2>2 DEF i
<1>7. ASSUME NEW j \in 1 .. Len(bs) - 1
      PROVE  d[j] = IF j < k - 1 THEN bs[j] ELSE IF j = k - 1 THEN x ELSE bs[j + 1]
  <2>1. j \in DOMAIN bs /\ j + 1 \in DOMAIN bs
    BY <1>1
  <2>2. CASE j < k - 1
    <3>1. j # k
      BY <1>1, <2>2
    <3>. QED BY <1>5, <1>6, <2>1, <2>2, <3>1
  <2>3. CASE j = k - 1
    <3>1. j + 1 = k /\ ~ (j < k - 1)
      BY <1>1, <2>3
    <3>. QED BY <1>5, <1>6, <2>3, <3>1
  <2>4. CASE ~ (j < k - 1) /\ j # k - 1
    <3>1. j + 1 # k
      BY <1>1, <2>4
    <3>. QED BY <1>5, <1>6, <2>1, <2>4, <3>1
  <2>. QED BY <2>2, <2>3, <2>4
<1>. HIDE DEF d
<1>8. /\ Laid(d) /\ k - 1 \in DOMAIN d /\ d[k - 1] = x /\ EndsAt(x) = EndsAt(bs[k])
      /\ IF k = Len(bs) THEN NullOf(d) = x /\ PhysicalOf(d) = PhysicalOf(bs) \ {bs[k - 1]}
         ELSE /\ NullOf(d) = NullOf(bs)
              /\ PhysicalOf(d) = (PhysicalOf(bs) \ {bs[k - 1], bs[k]}) \union {x}
  <2>1. x = [at |-> bs[k - 1].at, size |-> bs[k].size + bs[k - 1].size, type |-> bs[k].type]
    BY DEF x, prev
  <2>2. IsMerged(bs, k, x, d)
    BY <1>6, <1>7, <2>1 DEF IsMerged
  <2>3. k # 1 /\ k \in DOMAIN bs /\ Laid(bs)
    BY <1>0, <1>1
  <2>. QED BY <2>2, <2>3, MergedLaid
<1>9. n = [m EXCEPT !.blocks = d]
  BY DEF Merge, d, wide, bs, prev
<1>10. /\ n.blocks = d /\ n.lists = m.lists /\ n.inner = m.inner /\ n.classes = m.classes
       /\ n.freeCount = m.freeCount /\ n.freeSize = m.freeSize
       /\ n.pages = m.pages /\ n.allocCount = m.allocCount /\ n \in Meta(T)
  BY <1>0, <1>6, <1>9 DEF Meta, bs
<1>11. x.type = bs[k].type /\ ~ IsFree(bs[k - 1]) /\ (k = Len(bs) \/ ~ IsFree(bs[k]))
  BY DEF x, bs
<1>12. FreeOf(d) = FreeOf(bs)
  <2>1. CASE k = Len(bs)
    BY <1>8, <1>11, <2>1 DEF FreeOf
  <2>2. CASE k # Len(bs)
    BY <1>8, <1>11, <2>2 DEF FreeOf, IsFree
  <2>. QED BY <2>1, <2>2
<1>13. IF k = Len(bs) THEN UsedOf(d) = UsedOf(bs) \ {bs[k - 1]}
       ELSE UsedOf(d) = (UsedOf(bs) \ {bs[k - 1], bs[k]}) \union {x}
  <2>1. CASE k = Len(bs)
    BY <1>8, <2>1 DEF UsedOf
  <2>2. CASE k # Len(bs)
    BY <1>8, <1>11, <2>2 DEF UsedOf, IsFree
  <2>. QED BY <2>1, <2>2
<1>14. k # Len(bs) => k - 1 # Len(d)
  BY <1>1, <1>6
<1>15. Placed(n, T)
  BY <1>0, <1>8, <1>10, <1>12 DEF Placed, Books, bs
<1>16. n.blocks[k - 1] = [at |-> m.blocks[k - 1].at, type |-> m.blocks[k].type,
                          size |-> m.blocks[k].size + m.blocks[k - 1].size]
  BY <1>8, <1>10 DEF x, bs, prev
<1>17. /\ EndsAt(n.blocks[k - 1]) = EndsAt(bs[k]) /\ FreeOf(n.blocks) = FreeOf(bs)
       /\ k - 1 \in DOMAIN n.blocks
       /\ IF k = Len(bs) THEN NullOf(n.blocks) = n.blocks[k - 1]
          ELSE NullOf(n.blocks) = NullOf(bs) /\ k - 1 # Len(n.blocks)
  BY <1>8, <1>10, <1>12, <1>14
<1>18. IF k = Len(bs) THEN UsedOf(n.blocks) = UsedOf(bs) \ {bs[k - 1]}
       ELSE UsedOf(n.blocks) = (UsedOf(bs) \ {bs[k - 1], bs[k]}) \union {n.blocks[k - 1]}
  BY <1>8, <1>10, <1>13
<1>. QED BY <1>10, <1>15, <1>16, <1>17, <1>18 DEF bs, TakesOver

-----------------------------------------------------------------------------
(* No free block ends where another, or the null block, begins.              *)
NoNeighbours(F, null) == \A b \in F : \A c \in F \union {null} : EndsAt(b) # c.at

(* All is right but for the block at k, which is neither free nor in use,    *)
(* beside the ones in use.                                                   *)
Around(m, T, k, used) ==
  /\ Placed(m, T)
  /\ k \in DOMAIN m.blocks /\ k # Len(m.blocks) /\ ~ IsFree(m.blocks[k])
  /\ m.blocks[k] \notin used /\ UsedOf(m.blocks) = used \union {m.blocks[k]}
  /\ NoNeighbours(FreeOf(m.blocks), NullOf(m.blocks))

(* All is right, with these blocks in use.                                   *)
Arranged(m, T, used) ==
  /\ Placed(m, T)
  /\ UsedOf(m.blocks) = used
  /\ NoNeighbours(FreeOf(m.blocks), NullOf(m.blocks))

(* What begins where one of the blocks does is no other in use.              *)
LEMMA NotUsed ==
  ASSUME NEW bs, Laid(bs), NEW b \in PhysicalOf(bs), NEW used, used \subseteq UsedOf(bs), b \notin used,
         NEW x, x.at = b.at
  PROVE  x \notin used
BY PhysicalOnce DEF UsedOf

LEMMA JoinedBefore ==
  ASSUME NEW T, NEW used, NEW m, NEW k, Around(m, T, k, used), k > 1, IsFree(m.blocks[k - 1]),
         NEW n, n = Merge(RemoveFree(m, k - 1), k)
  PROVE  /\ Around(n, T, k - 1, used) /\ n.pages = m.pages /\ n.allocCount = m.allocCount
         /\ \A b \in FreeOf(n.blocks) : EndsAt(b) # n.blocks[k - 1].at
<1>. DEFINE bs == m.blocks
            p == bs[k - 1]
            x == bs[k]
            m1 == RemoveFree(m, k - 1)
            p1 == m1.blocks[k - 1]
            y == n.blocks[k - 1]
<1>0. /\ Placed(m, T) /\ Laid(bs) /\ k \in DOMAIN bs /\ k # Len(bs) /\ ~ IsFree(x)
      /\ x \notin used /\ UsedOf(bs) = used \union {x} /\ NoNeighbours(FreeOf(bs), NullOf(bs))
  BY DEF Around, Placed
<1>1. k - 1 \in DOMAIN bs /\ k - 1 # Len(bs) /\ k - 1 # k /\ k # 1 /\ DOMAIN bs = 1 .. Len(bs) /\ Len(bs) \in Nat
  BY <1>0 DEF Laid
<1>2. /\ Placed(m1, T) /\ m1.pages = m.pages /\ m1.allocCount = m.allocCount
      /\ Len(m1.blocks) = Len(bs) /\ DOMAIN m1.blocks = DOMAIN bs
      /\ p1 = [at |-> p.at, size |-> p.size, type |-> "unknown"]
      /\ m1.blocks[k] = x /\ NullOf(m1.blocks) = NullOf(bs)
      /\ FreeOf(m1.blocks) = FreeOf(bs) \ {p} /\ UsedOf(m1.blocks) = UsedOf(bs) \union {p1}
  <2>1. Placed(m1, T) /\ LosesFree(m, k - 1, m1)
    BY <1>0, <1>1, RemoveFreePlaced
  <2>. HIDE DEF m1
  <2>. QED BY <1>0, <1>1, <2>1 DEF LosesFree
<1>. HIDE DEF m1
<1>3. ~ IsFree(p1) /\ p1.at = p.at
  BY <1>2 DEF IsFree
<1>4. n = Merge(m1, k)
  BY DEF m1
<1>5. /\ Placed(n, T) /\ n.pages = m1.pages /\ n.allocCount = m1.allocCount
      /\ k - 1 \in DOMAIN n.blocks /\ FreeOf(n.blocks) = FreeOf(m1.blocks)
      /\ y = [at |-> p1.at, type |-> x.type, size |-> x.size + p1.size]
      /\ NullOf(n.blocks) = NullOf(m1.blocks) /\ k - 1 # Len(n.blocks)
      /\ UsedOf(n.blocks) = (UsedOf(m1.blocks) \ {p1, x}) \union {y}
  <2>1. Placed(n, T) /\ TakesOver(m1, k, n)
    BY <1>0, <1>1, <1>2, <1>3, <1>4, MergePlaced
  <2>. QED BY <1>0, <1>1, <1>2, <2>1 DEF TakesOver
<1>6. ~ IsFree(y) /\ y.at = p.at
  BY <1>0, <1>3, <1>5 DEF IsFree
<1>7. p \in PhysicalOf(bs) /\ p \in FreeOf(bs) /\ p \notin used
  BY <1>0, <1>1, FreeIn DEF UsedOf
<1>8. p1 \notin used /\ y \notin used
  BY <1>0, <1>3, <1>6, <1>7, NotUsed
<1>9. UsedOf(n.blocks) = used \union {y}
  BY <1>0, <1>2, <1>5, <1>8
<1>10. NoNeighbours(FreeOf(n.blocks), NullOf(n.blocks))
  BY <1>0, <1>2, <1>5 DEF NoNeighbours
<1>11. \A b \in FreeOf(n.blocks) : EndsAt(b) # y.at
  BY <1>0, <1>2, <1>5, <1>6, <1>7 DEF NoNeighbours
<1>. QED BY <1>2, <1>5, <1>6, <1>8, <1>9, <1>10, <1>11 DEF Around

LEMMA JoinedAfter ==
  ASSUME NEW T, NEW used, NEW m, NEW k, Around(m, T, k, used),
         \A b \in FreeOf(m.blocks) : EndsAt(b) # m.blocks[k].at,
         NEW n, n = JoinedNext(m, k)
  PROVE  Arranged(n, T, used) /\ n.pages = m.pages /\ n.allocCount = m.allocCount
<1>. DEFINE bs == m.blocks
            F == FreeOf(bs)
            null == NullOf(bs)
            x == bs[k]
            next == bs[k + 1]
<1>0. /\ Placed(m, T) /\ Laid(bs) /\ k \in DOMAIN bs /\ k # Len(bs) /\ ~ IsFree(x)
      /\ x \notin used /\ UsedOf(bs) = used \union {x} /\ NoNeighbours(F, null)
  BY DEF Around, Placed
<1>1. /\ k + 1 \in DOMAIN bs /\ k + 1 # k /\ k + 1 # 1 /\ (k + 1) - 1 = k /\ k \in 1 .. Len(bs) - 1
      /\ DOMAIN bs = 1 .. Len(bs) /\ Len(bs) \in Nat /\ Len(bs) \in DOMAIN bs
  BY <1>0 DEF Laid
<1>2. next.at = EndsAt(x) /\ x \in PhysicalOf(bs) /\ x.at \in Nat /\ x.size \in Nat
  BY <1>0, <1>1, FreeIn, LaidIs DEF Laid
<1>3. ASSUME ~ IsFree(next) PROVE Arranged(n, T, used) /\ n.pages = m.pages /\ n.allocCount = m.allocCount
  <2>1. n = InsertFree(m, k)
    BY <1>3 DEF JoinedNext
  <2>. DEFINE y == n.blocks[k]
  <2>2. /\ Placed(n, T) /\ n.pages = m.pages /\ n.allocCount = m.allocCount
        /\ y = [at |-> x.at, size |-> x.size, type |-> "free"]
        /\ NullOf(n.blocks) = null
        /\ FreeOf(n.blocks) = F \union {y} /\ UsedOf(n.blocks) = UsedOf(bs) \ {x}
    <3>1. Placed(n, T) /\ GainsFree(m, k, n)
      BY <1>0, <2>1, InsertFreePlaced
    <3>. QED BY <3>1 DEF GainsFree
  <2>3. y.at = x.at /\ EndsAt(y) = EndsAt(x)
    BY <2>2 DEF EndsAt
  <2>4. \A c \in F \union {null} : EndsAt(x) # c.at
    <3>1. SUFFICES ASSUME NEW c \in F \union {null}, EndsAt(x) = c.at PROVE FALSE
      OBVIOUS
    <3>2. PICK j \in DOMAIN bs : c = bs[j]
      BY <1>0, <1>1, IndexOf DEF FreeOf, NullOf
    <3>3. c = next
      BY <1>0, <1>1, <1>2, <3>1, <3>2, LaidOnce
    <3>4. IsFree(c)
      BY <1>0 DEF FreeOf, NullOf, Laid
    <3>. QED BY <1>3, <3>3, <3>4
  <2>5. EndsAt(y) # y.at
    <3>1. x.at < EndsAt(x)
      BY <1>0, <1>2, PhysicalIs
    <3>. QED BY <1>2, <2>3, <3>1
  <2>. HIDE DEF y
  <2>6. NoNeighbours(FreeOf(n.blocks), NullOf(n.blocks))
    <3>1. ASSUME NEW b \in F \union {y}, NEW c \in F \union {y} \union {null} PROVE EndsAt(b) # c.at
      <4>1. CASE b \in F /\ c \in F \union {null}
        BY <1>0, <4>1 DEF NoNeighbours
      <4>2. CASE b \in F /\ c = y
        BY <2>3, <4>2
      <4>3. CASE b = y /\ c \in F \union {null}
        BY <2>3, <2>4, <4>3
      <4>4. CASE b = y /\ c = y
        BY <2>5, <4>4
      <4>. QED BY <4>1, <4>2, <4>3, <4>4
    <3>. QED BY <2>2, <3>1 DEF NoNeighbours
  <2>7. UsedOf(n.blocks) = used
    BY <1>0, <2>2
  <2>. QED BY <2>2, <2>6, <2>7 DEF Arranged
<1>4. ASSUME IsFree(next), k + 1 = Len(bs)
      PROVE  Arranged(n, T, used) /\ n.pages = m.pages /\ n.allocCount = m.allocCount
  <2>1. n = Merge(m, k + 1)
    BY <1>4 DEF JoinedNext, NullIndex
  <2>2. /\ Placed(n, T) /\ n.pages = m.pages /\ n.allocCount = m.allocCount
        /\ FreeOf(n.blocks) = F
        /\ n.blocks[k] = [at |-> x.at, type |-> next.type, size |-> next.size + x.size]
        /\ NullOf(n.blocks) = n.blocks[k] /\ UsedOf(n.blocks) = UsedOf(bs) \ {x}
    <3>1. Placed(n, T) /\ TakesOver(m, k + 1, n)
      BY <1>0, <1>1, <1>4, <2>1, MergePlaced
    <3>. QED BY <1>1, <1>4, <3>1 DEF TakesOver
  <2>3. NullOf(n.blocks).at = x.at
    BY <2>2
  <2>4. NoNeighbours(FreeOf(n.blocks), NullOf(n.blocks))
    BY <1>0, <2>2, <2>3 DEF NoNeighbours
  <2>5. UsedOf(n.blocks) = used
    BY <1>0, <2>2
  <2>. QED BY <2>2, <2>4, <2>5 DEF Arranged
<1>5. ASSUME IsFree(next), k + 1 # Len(bs)
      PROVE  Arranged(n, T, used) /\ n.pages = m.pages /\ n.allocCount = m.allocCount
  <2>. DEFINE m1 == RemoveFree(m, k + 1)
              m2 == Merge(m1, k + 1)
              next1 == m1.blocks[k + 1]
              y == m2.blocks[k]
              z == n.blocks[k]
  <2>1. n = InsertFree(m2, k)
    BY <1>5 DEF JoinedNext, NullIndex
  <2>2. /\ Placed(m1, T) /\ m1.pages = m.pages /\ m1.allocCount = m.allocCount
        /\ Len(m1.blocks) = Len(bs) /\ DOMAIN m1.blocks = DOMAIN bs
        /\ next1 = [at |-> next.at, size |-> next.size, type |-> "unknown"]
        /\ m1.blocks[k] = x /\ NullOf(m1.blocks) = null
        /\ FreeOf(m1.blocks) = F \ {next} /\ UsedOf(m1.blocks) = UsedOf(bs) \union {next1}
    <3>1. Placed(m1, T) /\ LosesFree(m, k + 1, m1)
      BY <1>0, <1>1, <1>5, RemoveFreePlaced
    <3>. HIDE DEF m1
    <3>. QED BY <1>0, <1>1, <3>1 DEF LosesFree
  <2>. HIDE DEF m1
  <2>3. ~ IsFree(next1) /\ next1.at = next.at /\ EndsAt(next1) = EndsAt(next)
    BY <2>2 DEF IsFree, EndsAt
  <2>4. /\ Placed(m2, T) /\ m2.pages = m1.pages /\ m2.allocCount = m1.allocCount
        /\ k \in DOMAIN m2.blocks /\ FreeOf(m2.blocks) = FreeOf(m1.blocks)
        /\ y = [at |-> x.at, type |-> next1.type, size |-> next1.size + x.size]
        /\ EndsAt(y) = EndsAt(next1)
        /\ NullOf(m2.blocks) = NullOf(m1.blocks) /\ k # Len(m2.blocks)
        /\ UsedOf(m2.blocks) = (UsedOf(m1.blocks) \ {x, next1}) \union {y}
    <3>1. Placed(m2, T) /\ TakesOver(m1, k + 1, m2)
      BY <1>0, <1>1, <1>5, <2>2, <2>3, MergePlaced
    <3>. HIDE DEF m2
    <3>. QED BY <1>1, <1>5, <2>2, <3>1 DEF TakesOver
  <2>. HIDE DEF m2
  <2>5. ~ IsFree(y) /\ y.at = x.at
    BY <2>3, <2>4 DEF IsFree
  <2>6. next \in PhysicalOf(bs) /\ next \in F /\ next \notin used
    BY <1>0, <1>1, <1>5, FreeIn DEF UsedOf
  <2>7. next1 \notin used /\ y \notin used
    BY <1>0, <1>2, <2>3, <2>5, <2>6, NotUsed
  <2>8. UsedOf(m2.blocks) = used \union {y}
    BY <1>0, <2>2, <2>4, <2>7
  <2>9. /\ Placed(n, T) /\ n.pages = m2.pages /\ n.allocCount = m2.allocCount
        /\ z = [at |-> y.at, size |-> y.size, type |-> "free"]
        /\ NullOf(n.blocks) = NullOf(m2.blocks)
        /\ FreeOf(n.blocks) = FreeOf(m2.blocks) \union {z} /\ UsedOf(n.blocks) = UsedOf(m2.blocks) \ {y}
    <3>1. Placed(n, T) /\ GainsFree(m2, k, n)
      BY <2>1, <2>4, <2>5, InsertFreePlaced
    <3>. QED BY <3>1 DEF GainsFree
  <2>10. z.at = x.at /\ EndsAt(z) = EndsAt(next)
    BY <2>3, <2>4, <2>5, <2>9 DEF EndsAt
  <2>11. EndsAt(z) # z.at
    <3>1. next.at < EndsAt(next) /\ next.at \in Nat /\ EndsAt(next) \in Nat
      BY <1>0, <2>6, PhysicalIs
    <3>2. x.at <= next.at
      BY <1>2 DEF EndsAt
    <3>. QED BY <1>2, <2>10, <3>1, <3>2
  <2>. HIDE DEF z, F, null
  <2>12. ASSUME NEW b \in (F \ {next}) \union {z}, NEW c \in (F \ {next}) \union {z} \union {null}
         PROVE  EndsAt(b) # c.at
    <3>1. CASE b \in F /\ c \in F \union {null}
      BY <1>0, <3>1 DEF NoNeighbours
    <3>2. CASE b \in F /\ c = z
      BY <2>10, <3>2 DEF F
    <3>3. CASE b = z /\ c \in F \union {null}
      BY <1>0, <2>6, <2>10, <3>3 DEF NoNeighbours
    <3>4. CASE b = z /\ c = z
      BY <2>11, <3>4
    <3>. QED BY <3>1, <3>2, <3>3, <3>4
  <2>13. NoNeighbours(FreeOf(n.blocks), NullOf(n.blocks))
    BY <2>2, <2>4, <2>9, <2>12 DEF NoNeighbours
  <2>14. UsedOf(n.blocks) = used
    BY <2>7, <2>8, <2>9
  <2>. QED BY <2>2, <2>4, <2>9, <2>13, <2>14 DEF Arranged
<1>. QED BY <1>3, <1>4, <1>5

-----------------------------------------------------------------------------
(* Free                                                                      *)

LEMMA FreedArranged ==
  ASSUME NEW T, NEW used, NEW m, Arranged(m, T, used), NEW k \in DOMAIN m.blocks,
         ~ IsFree(m.blocks[k]),
         NEW pages \in T, pages = PagesLeft(m.pages, m.blocks[k].at, m.blocks[k].size, granularity),
         NEW n, n = Freed(m, k)
  PROVE  /\ m.blocks[k] \in used /\ Arranged(n, T, used \ {m.blocks[k]})
         /\ n.pages = pages /\ n.allocCount = m.allocCount - 1
<1>. DEFINE bs == m.blocks
            b == bs[k]
            left == used \ {b}
            g == GivenBack(m, k)
<1>0. /\ m \in Meta(T) /\ Placed(m, T) /\ Laid(bs) /\ Books(m, FreeOf(bs))
      /\ UsedOf(bs) = used /\ NoNeighbours(FreeOf(bs), NullOf(bs))
  BY DEF Arranged, Placed
<1>1. k # Len(bs)
  BY <1>0 DEF Laid
<1>2. b \in used
  BY <1>0, <1>1, FreeIn
<1>3. /\ g.blocks = bs /\ g.lists = m.lists /\ g.inner = m.inner /\ g.classes = m.classes
      /\ g.freeCount = m.freeCount /\ g.freeSize = m.freeSize
      /\ g.pages = pages /\ g.allocCount = m.allocCount - 1 /\ g \in Meta(T)
  <2>1. g = [m EXCEPT !.pages = pages, !.allocCount = m.allocCount - 1]
    BY <1>0 DEF GivenBack, Meta
  <2>2. m.allocCount - 1 \in Int
    BY <1>0 DEF Meta
  <2>. HIDE DEF g
  <2>. QED BY <1>0, <2>1, <2>2 DEF Meta
<1>. HIDE DEF g
<1>4. Placed(g, T)
  BY <1>0, <1>3 DEF Placed, Books
<1>5. Around(g, T, k, left)
  BY <1>0, <1>1, <1>2, <1>3, <1>4 DEF Around
<1>6. ASSUME k > 1 /\ IsFree(bs[k - 1])
      PROVE  Arranged(n, T, left) /\ n.pages = g.pages /\ n.allocCount = g.allocCount
  <2>. DEFINE g1 == Merge(RemoveFree(g, k - 1), k)
  <2>1. /\ Around(g1, T, k - 1, left) /\ g1.pages = g.pages /\ g1.allocCount = g.allocCount
        /\ \A f \in FreeOf(g1.blocks) : EndsAt(f) # g1.blocks[k - 1].at
    BY <1>3, <1>5, <1>6, JoinedBefore
  <2>2. n = JoinedNext(g1, k - 1)
    BY <1>6 DEF Freed, g
  <2>. HIDE DEF g1
  <2>3. Arranged(n, T, left) /\ n.pages = g1.pages /\ n.allocCount = g1.allocCount
    BY <2>1, <2>2, JoinedAfter
  <2>. QED BY <2>1, <2>3
<1>7. ASSUME ~ (k > 1 /\ IsFree(bs[k - 1]))
      PROVE  Arranged(n, T, left) /\ n.pages = g.pages /\ n.allocCount = g.allocCount
  <2>1. n = JoinedNext(g, k)
    BY <1>7 DEF Freed, g
  <2>2. ASSUME NEW f \in FreeOf(bs), EndsAt(f) = b.at PROVE FALSE
    <3>1. f \in PhysicalOf(bs) /\ IsFree(f)
      BY DEF FreeOf
    <3>2. PICK j \in DOMAIN bs : f = bs[j] /\ j # Len(bs)
      BY <1>0, <3>1, IndexOf
    <3>3. k = j + 1
      BY <1>0, <2>2, <3>2, LaidOnce
    <3>4. j \in Nat /\ j >= 1
      BY <1>0, <3>2, IndexOf
    <3>5. k > 1 /\ k - 1 = j
      BY <3>3, <3>4
    <3>. QED BY <1>7, <3>1, <3>2, <3>5
  <2>3. \A f \in FreeOf(g.blocks) : EndsAt(f) # g.blocks[k].at
    BY <1>3, <2>2
  <2>. QED BY <1>5, <2>1, <2>3, JoinedAfter
<1>. QED BY <1>2, <1>3, <1>6, <1>7

-----------------------------------------------------------------------------
(* A block at the front of its list                                          *)

(* Bringing a block to the front of its list changes nothing but the order.  *)
LEMMA InFrontArranged ==
  ASSUME NEW T, NEW used, NEW m, Arranged(m, T, used), NEW c,
         c.list = ListsCount \/ (c.list \in 0 .. ListsCount - 1 /\ c.block \in ToSet(m.lists[c.list])),
         NEW n, n = InFront(m, c)
  PROVE  /\ Arranged(n, T, used) /\ n.blocks = m.blocks
         /\ n.pages = m.pages /\ n.allocCount = m.allocCount
<1>0. m \in Meta(T) /\ Placed(m, T) /\ Laid(m.blocks) /\ Books(m, FreeOf(m.blocks))
  BY DEF Arranged, Placed
<1>1. CASE c.list = ListsCount
  BY <1>1 DEF InFront
<1>2. CASE c.list # ListsCount
  <2>. DEFINE l == c.list
              s == m.lists[l]
              r == Unlinked(s, c.block)
              t == <<c.block>> \o r
              after == [m.lists EXCEPT ![l] = t]
  <2>1. l \in 0 .. ListsCount - 1 /\ c.block \in ToSet(s)
    BY <1>2
  <2>2. ListsRight(m.lists, FreeOf(m.blocks))
    BY <1>0 DEF Books
  <2>3. s \in Seq(Nat) /\ IsInjective(s) /\ m.lists \in [0 .. ListsCount - 1 -> Seq(Nat)]
    BY <2>1, <2>2 DEF ListsRight
  <2>4. c.block \in Nat
    BY <2>1, <2>3 DEF ToSet
  <2>5. r \in Seq(Nat) /\ IsInjective(r) /\ ToSet(r) = ToSet(s) \ {c.block}
    BY <2>1, <2>3, UnlinkedIs
  <2>. HIDE DEF r
  <2>6. t \in Seq(Nat) /\ IsInjective(t) /\ ToSet(t) = ToSet(s)
    <3>1. c.block \notin ToSet(r)
      BY <2>5
    <3>2. /\ <<c.block>> \o r \in Seq(Nat) /\ IsInjective(<<c.block>> \o r)
          /\ ToSet(<<c.block>> \o r) = ToSet(r) \union {c.block}
      BY <2>4, <2>5, <3>1, LinkedIs
    <3>. QED BY <2>1, <2>5, <3>2
  <2>7. n = [m EXCEPT !.lists = after]
    BY <1>0, <1>2 DEF InFront, r, Meta
  <2>. HIDE DEF t
  <2>8. /\ after \in [0 .. ListsCount - 1 -> Seq(Nat)] /\ after[l] = t
        /\ \A k \in 0 .. ListsCount - 1 : k # l => after[k] = m.lists[k]
    BY <2>1, <2>3, <2>6
  <2>. HIDE DEF after
  <2>9. ListsRight(after, FreeOf(m.blocks))
    BY <2>2, <2>6, <2>8 DEF ListsRight
  <2>10. /\ n.blocks = m.blocks /\ n.lists = after /\ n.inner = m.inner /\ n.classes = m.classes
         /\ n.freeCount = m.freeCount /\ n.freeSize = m.freeSize
         /\ n.pages = m.pages /\ n.allocCount = m.allocCount /\ n \in Meta(T)
    BY <1>0, <2>7, <2>8 DEF Meta
  <2>11. Placed(n, T)
    BY <1>0, <2>9, <2>10 DEF Placed, Books
  <2>. QED BY <2>10, <2>11 DEF Arranged
<1>. QED BY <1>1, <1>2

-----------------------------------------------------------------------------
(* What is free, with the null block, but for the block at k                 *)
Others(bs, k) == FreeOf(bs) \union (IF k = Len(bs) THEN {} ELSE {NullOf(bs)})

(* Alloc has taken the block at k, and the rest is right.                    *)
Held(m, T, k, used) ==
  /\ Placed(m, T)
  /\ k \in DOMAIN m.blocks
  /\ IF k = Len(m.blocks) THEN UsedOf(m.blocks) = used
     ELSE /\ ~ IsFree(m.blocks[k])
          /\ m.blocks[k] \notin used /\ UsedOf(m.blocks) = used \union {m.blocks[k]}
  /\ \A b \in FreeOf(m.blocks) : \A c \in Others(m.blocks, k) : EndsAt(b) # c.at
  /\ \A c \in Others(m.blocks, k) : EndsAt(m.blocks[k]) # c.at

(* Nothing free ends where the block at k begins.                            *)
NoneBefore(bs, k) == \A b \in FreeOf(bs) : EndsAt(b) # bs[k].at

(* The one block stands for the other.                                       *)
Same(m, k, n, j, at, size) ==
  /\ n.pages = m.pages /\ n.allocCount = m.allocCount
  /\ j \in DOMAIN n.blocks /\ n.blocks[j].at = at /\ n.blocks[j].size = size

LEMMA TakenHeld ==
  ASSUME NEW T, NEW used, NEW m, Arranged(m, T, used), NEW k \in DOMAIN m.blocks, IsFree(m.blocks[k]),
         NEW n, n = IF k = NullIndex(m) THEN m ELSE RemoveFree(m, k)
  PROVE  /\ Held(n, T, k, used) /\ NoneBefore(n.blocks, k)
         /\ Same(m, k, n, k, m.blocks[k].at, m.blocks[k].size)
<1>. DEFINE bs == m.blocks
            b == bs[k]
            F == FreeOf(bs)
            null == NullOf(bs)
<1>0. /\ m \in Meta(T) /\ Placed(m, T) /\ Laid(bs)
      /\ UsedOf(bs) = used /\ NoNeighbours(F, null)
  BY DEF Arranged, Placed
<1>1. ASSUME NEW f \in F PROVE EndsAt(b) # f.at
  <2>1. CASE k = Len(bs)
    <3>1. /\ f.at \in Nat /\ f.at < EndsAt(f) /\ EndsAt(f) <= null.at /\ EndsAt(f) \in Nat
          /\ null.at \in Nat /\ null.size \in Nat
      <4>1. f \in PhysicalOf(bs)
        BY DEF FreeOf
      <4>. QED BY <1>0, <4>1, PhysicalIs DEF Blocks
    <3>2. EndsAt(b) = null.at + null.size
      BY <2>1 DEF EndsAt, NullOf
    <3>. QED BY <3>1, <3>2
  <2>2. CASE k # Len(bs)
    <3>1. b \in F
      BY <1>0, <2>2, FreeIn
    <3>. QED BY <1>0, <3>1 DEF NoNeighbours
  <2>. QED BY <2>1, <2>2
<1>2. CASE k = Len(bs)
  <2>1. n = m /\ Others(bs, k) = F
    BY <1>2 DEF NullIndex, Others
  <2>2. NoneBefore(bs, k)
    BY <1>0, <1>2 DEF NoNeighbours, NoneBefore, NullOf
  <2>3. Held(n, T, k, used)
    BY <1>0, <1>1, <1>2, <2>1 DEF Held, NoNeighbours
  <2>. QED BY <2>1, <2>2, <2>3 DEF Same
<1>3. CASE k # Len(bs)
  <2>1. n = RemoveFree(m, k)
    BY <1>3 DEF NullIndex
  <2>. DEFINE x == n.blocks[k]
  <2>2. /\ Placed(n, T) /\ n.pages = m.pages /\ n.allocCount = m.allocCount
        /\ Len(n.blocks) = Len(bs) /\ DOMAIN n.blocks = DOMAIN bs
        /\ x = [at |-> b.at, size |-> b.size, type |-> "unknown"]
        /\ NullOf(n.blocks) = null
        /\ FreeOf(n.blocks) = F \ {b}
        /\ UsedOf(n.blocks) = UsedOf(bs) \union {x}
    <3>1. Placed(n, T) /\ LosesFree(m, k, n)
      BY <1>0, <1>3, <2>1, RemoveFreePlaced
    <3>. QED BY <3>1 DEF LosesFree
  <2>3. ~ IsFree(x) /\ x.at = b.at /\ x.size = b.size /\ EndsAt(x) = EndsAt(b)
    BY <2>2 DEF IsFree, EndsAt
  <2>4. b \in F /\ b \in PhysicalOf(bs) /\ b \notin UsedOf(bs)
    BY <1>0, <1>3, FreeIn DEF UsedOf
  <2>. HIDE DEF x
  <2>5. x \notin used
    BY <1>0, <2>3, <2>4, NotUsed
  <2>6. Others(n.blocks, k) = (F \ {b}) \union {null}
    BY <1>3, <2>2 DEF Others
  <2>7. \A f \in F : \A c \in F \union {null} : EndsAt(f) # c.at
    BY <1>0 DEF NoNeighbours
  <2>8. /\ \A f \in FreeOf(n.blocks) : \A c \in Others(n.blocks, k) : EndsAt(f) # c.at
        /\ \A c \in Others(n.blocks, k) : EndsAt(x) # c.at
        /\ \A f \in FreeOf(n.blocks) : EndsAt(f) # x.at
    BY <2>2, <2>3, <2>4, <2>6, <2>7
  <2>9. Held(n, T, k, used)
    BY <1>0, <1>3, <2>2, <2>3, <2>5, <2>8 DEF Held, x
  <2>. QED BY <2>2, <2>3, <2>8, <2>9 DEF NoneBefore, Same, x
<1>. QED BY <1>2, <1>3

(* Either way to put two blocks where there was one                          *)
LEMMA InsertedSplit ==
  ASSUME NEW bs \in Seq(Blocks), NEW k \in DOMAIN bs, NEW x \in Blocks, NEW y \in Blocks, NEW d,
         \/ d = InsertAt([bs EXCEPT ![k] = y], k, x)
         \/ d = InsertAt([bs EXCEPT ![k] = x], k + 1, y)
  PROVE  IsSplit(bs, k, x, y, d)
<1>0. Len(bs) \in Nat /\ DOMAIN bs = 1 .. Len(bs) /\ k \in Nat /\ 1 <= k /\ k <= Len(bs)
  OBVIOUS
<1>1. CASE d = InsertAt([bs EXCEPT ![k] = y], k, x)
  <2>. DEFINE w == [bs EXCEPT ![k] = y]
  <2>1. w \in Seq(Blocks) /\ Len(w) = Len(bs) /\ w[k] = y /\ \A j \in DOMAIN bs : j # k => w[j] = bs[j]
    OBVIOUS
  <2>2. d = InsertAt(w, k, x) /\ k \in 1 .. Len(w) + 1
    BY <1>0, <1>1, <2>1
  <2>. HIDE DEF w
  <2>3. /\ d \in Seq(Blocks) /\ Len(d) = Len(w) + 1
        /\ \A j \in 1 .. Len(w) + 1 : d[j] = IF j < k THEN w[j] ELSE IF j = k THEN x ELSE w[j - 1]
    <3>0. w \in Seq(Blocks) /\ k \in 1 .. Len(w) + 1 /\ x \in Blocks
      BY <2>1, <2>2
    <3>1. IsInserted(Blocks, w, k, x, InsertAt(w, k, x))
      BY <3>0, InsertedIs
    <3>. QED BY <2>2, <3>1 DEF IsInserted
  <2>4. ASSUME NEW j \in 1 .. Len(bs) + 1
        PROVE  d[j] = IF j < k THEN bs[j] ELSE IF j = k THEN x ELSE IF j = k + 1 THEN y ELSE bs[j - 1]
    <3>1. CASE j < k
      BY <1>0, <2>1, <2>3, <3>1
    <3>2. CASE j = k
      BY <1>0, <2>1, <2>3, <3>2
    <3>3. CASE j = k + 1
      BY <1>0, <2>1, <2>3, <3>3
    <3>4. CASE j > k + 1
      <4>1. j - 1 \in DOMAIN bs /\ j - 1 # k
        BY <1>0, <3>4
      <4>. QED BY <1>0, <2>1, <2>3, <3>4, <4>1
    <3>. QED BY <1>0, <3>1, <3>2, <3>3, <3>4
  <2>. QED BY <2>1, <2>3, <2>4 DEF IsSplit
<1>2. CASE d = InsertAt([bs EXCEPT ![k] = x], k + 1, y)
  <2>. DEFINE w == [bs EXCEPT ![k] = x]
              i == k + 1
  <2>1. w \in Seq(Blocks) /\ Len(w) = Len(bs) /\ w[k] = x /\ \A j \in DOMAIN bs : j # k => w[j] = bs[j]
    OBVIOUS
  <2>2. d = InsertAt(w, i, y) /\ i \in 1 .. Len(w) + 1
    BY <1>0, <1>2, <2>1
  <2>. HIDE DEF w, i
  <2>3. /\ d \in Seq(Blocks) /\ Len(d) = Len(w) + 1
        /\ \A j \in 1 .. Len(w) + 1 : d[j] = IF j < i THEN w[j] ELSE IF j = i THEN y ELSE w[j - 1]
    <3>0. w \in Seq(Blocks) /\ i \in 1 .. Len(w) + 1 /\ y \in Blocks
      BY <2>1, <2>2
    <3>1. IsInserted(Blocks, w, i, y, InsertAt(w, i, y))
      BY <3>0, InsertedIs
    <3>. QED BY <2>2, <3>1 DEF IsInserted
  <2>4. ASSUME NEW j \in 1 .. Len(bs) + 1
        PROVE  d[j] = IF j < k THEN bs[j] ELSE IF j = k THEN x ELSE IF j = k + 1 THEN y ELSE bs[j - 1]
    <3>1. CASE j < k
      <4>1. j < i /\ j \in DOMAIN bs /\ j # k
        BY <1>0, <3>1 DEF i
      <4>. QED BY <2>1, <2>3, <3>1, <4>1
    <3>2. CASE j = k
      <4>1. j < i
        BY <1>0, <3>2 DEF i
      <4>. QED BY <1>0, <2>1, <2>3, <3>2, <4>1
    <3>3. CASE j = k + 1
      BY <1>0, <2>1, <2>3, <3>3 DEF i
    <3>4. CASE j > k + 1
      <4>1. j - 1 \in DOMAIN bs /\ j - 1 # k
        BY <1>0, <3>4
      <4>2. ~ (j < i) /\ j # i /\ ~ (j < k) /\ j # k /\ j # k + 1
        BY <1>0, <3>4 DEF i
      <4>. QED BY <2>1, <2>3, <4>1, <4>2
    <3>. QED BY <1>0, <3>1, <3>2, <3>3, <3>4
  <2>. QED BY <2>1, <2>3, <2>4 DEF IsSplit
<1>. QED BY <1>1, <1>2

(* No other block begins inside the one at k.                                *)
LEMMA NoneInside ==
  ASSUME NEW bs, Laid(bs), NEW k \in DOMAIN bs, NEW c \in PhysicalOf(bs) \union {NullOf(bs)},
         c # bs[k], NEW at \in Nat, bs[k].at <= at, at < EndsAt(bs[k])
  PROVE  c.at # at
<1>1. PICK j \in DOMAIN bs : c = bs[j] /\ j # k
  BY IndexOf DEF NullOf
<1>2. /\ j \in Nat /\ k \in Nat /\ bs[j].at \in Nat /\ bs[j].size \in Nat /\ EndsAt(bs[j]) \in Nat
      /\ EndsAt(bs[k]) \in Nat /\ bs[k].at \in Nat
  BY IndexOf, LaidIs
<1>3. CASE j < k
  <2>1. EndsAt(bs[j]) <= bs[k].at
    BY <1>3, LaidInOrder
  <2>2. j # Len(bs)
    BY <1>2, <1>3, IndexOf
  <2>3. j \in 1 .. Len(bs) - 1
    BY <2>2, IndexOf
  <2>4. bs[j].at < EndsAt(bs[j])
    BY <2>3, LaidWithin
  <2>. QED BY <1>1, <1>2, <2>1, <2>4
<1>4. CASE k < j
  <2>1. EndsAt(bs[k]) <= bs[j].at
    BY <1>4, LaidInOrder
  <2>. QED BY <1>1, <1>2, <2>1
<1>. QED BY <1>1, <1>2, <1>3, <1>4

LEMMA HeldIs ==
  ASSUME NEW T, NEW used, NEW m, NEW k, Held(m, T, k, used)
  PROVE  /\ Placed(m, T) /\ m \in Meta(T) /\ Laid(m.blocks) /\ m.blocks \in Seq(Blocks)
         /\ Len(m.blocks) \in Nat \ {0} /\ DOMAIN m.blocks = 1 .. Len(m.blocks)
         /\ k \in DOMAIN m.blocks /\ k \in Nat /\ 1 <= k /\ k <= Len(m.blocks)
         /\ m.blocks[k] \in Blocks /\ m.blocks[k].at \in Nat /\ m.blocks[k].size \in Nat
         /\ EndsAt(m.blocks[k]) = m.blocks[k].at + m.blocks[k].size
         /\ used \subseteq UsedOf(m.blocks) /\ m.blocks[k] \notin used
         /\ \A c \in Others(m.blocks, k) :
              c \in PhysicalOf(m.blocks) \union {NullOf(m.blocks)} /\ c # m.blocks[k]
         /\ IF k = Len(m.blocks) THEN IsFree(m.blocks[k]) ELSE ~ IsFree(m.blocks[k])
<1>1. /\ Placed(m, T) /\ m \in Meta(T) /\ Laid(m.blocks) /\ m.blocks \in Seq(Blocks)
      /\ Len(m.blocks) \in Nat \ {0} /\ DOMAIN m.blocks = 1 .. Len(m.blocks)
      /\ k \in DOMAIN m.blocks /\ k \in Nat /\ 1 <= k /\ k <= Len(m.blocks)
  BY DEF Held, Placed, Laid
<1>2. m.blocks[k] \in Blocks /\ m.blocks[k].at \in Nat /\ m.blocks[k].size \in Nat
  BY <1>1, LaidIs
<1>3. IF k = Len(m.blocks) THEN IsFree(m.blocks[k]) ELSE ~ IsFree(m.blocks[k])
  BY <1>1 DEF Held, Laid
<1>4. used \subseteq UsedOf(m.blocks) /\ m.blocks[k] \notin used
  BY <1>3 DEF Held, UsedOf
<1>5. ASSUME NEW c \in Others(m.blocks, k)
      PROVE  c \in PhysicalOf(m.blocks) \union {NullOf(m.blocks)} /\ c # m.blocks[k]
  <2>1. CASE c \in FreeOf(m.blocks)
    <3>1. c \in PhysicalOf(m.blocks) /\ IsFree(c) /\ c # NullOf(m.blocks)
      BY <1>1, <2>1, PhysicalIs DEF FreeOf
    <3>. QED BY <1>3, <3>1 DEF NullOf
  <2>2. CASE k # Len(m.blocks) /\ c = NullOf(m.blocks)
    <3>1. m.blocks[k] \in PhysicalOf(m.blocks)
      BY <1>1, <2>2, FreeIn
    <3>2. m.blocks[k] # NullOf(m.blocks)
      BY <1>1, <3>1, PhysicalIs
    <3>. QED BY <2>2, <3>2
  <2>. QED BY <2>1, <2>2 DEF Others
<1>. QED BY <1>1, <1>2, <1>3, <1>4, <1>5 DEF EndsAt

(* The block at k in two, neither of them free but the null block             *)
Halved(m, k, used, x, y, n) ==
  /\ n.pages = m.pages /\ n.allocCount = m.allocCount
  /\ Len(n.blocks) = Len(m.blocks) + 1 /\ n.blocks[k] = x /\ n.blocks[k + 1] = y
  /\ k \in DOMAIN n.blocks /\ k + 1 \in DOMAIN n.blocks
  /\ FreeOf(n.blocks) = FreeOf(m.blocks) /\ x \notin used /\ x # y
  /\ IF k = Len(m.blocks) THEN NullOf(n.blocks) = y /\ UsedOf(n.blocks) = used \union {x}
     ELSE /\ NullOf(n.blocks) = NullOf(m.blocks)
          /\ y \notin used /\ UsedOf(n.blocks) = used \union {x, y}

LEMMA HalvedPlaced ==
  ASSUME NEW T, NEW used, NEW m, NEW k, Held(m, T, k, used), NEW x \in Blocks, NEW y \in Blocks,
         x.at = m.blocks[k].at, x.size > 0, y.at = EndsAt(x), EndsAt(y) = EndsAt(m.blocks[k]),
         ~ IsFree(x), IF k = Len(m.blocks) THEN IsFree(y) ELSE y.size > 0 /\ ~ IsFree(y),
         NEW d, IsSplit(m.blocks, k, x, y, d), NEW n, n = [m EXCEPT !.blocks = d]
  PROVE  Placed(n, T) /\ Halved(m, k, used, x, y, n)
<1>. DEFINE bs == m.blocks
<1>0. /\ Placed(m, T) /\ m \in Meta(T) /\ Laid(bs) /\ bs \in Seq(Blocks)
      /\ Len(bs) \in Nat \ {0} /\ DOMAIN bs = 1 .. Len(bs)
      /\ k \in DOMAIN bs /\ k \in Nat /\ 1 <= k /\ k <= Len(bs)
      /\ bs[k].at \in Nat /\ bs[k].size \in Nat
      /\ EndsAt(bs[k]) = bs[k].at + bs[k].size
      /\ used \subseteq UsedOf(bs) /\ bs[k] \notin used
      /\ IF k = Len(bs) THEN IsFree(bs[k]) ELSE ~ IsFree(bs[k])
  BY HeldIs
<1>1. IF k = Len(bs) THEN UsedOf(bs) = used ELSE UsedOf(bs) = used \union {bs[k]}
  BY DEF Held
<1>2. /\ Laid(d) /\ k + 1 \in DOMAIN d /\ d[k] = x /\ d[k + 1] = y
      /\ IF k = Len(bs) THEN NullOf(d) = y /\ PhysicalOf(d) = PhysicalOf(bs) \union {x}
         ELSE NullOf(d) = NullOf(bs) /\ PhysicalOf(d) = (PhysicalOf(bs) \ {bs[k]}) \union {x, y}
  BY <1>0, SplitLaid
<1>3. d \in Seq(Blocks) /\ Len(d) = Len(bs) + 1 /\ DOMAIN d = 1 .. Len(bs) + 1 /\ k \in DOMAIN d
  BY <1>0 DEF IsSplit
<1>4. FreeOf(d) = FreeOf(bs)
  <2>1. CASE k = Len(bs)
    BY <1>2, <2>1 DEF FreeOf
  <2>2. CASE k # Len(bs)
    BY <1>0, <1>2, <2>2 DEF FreeOf
  <2>. QED BY <2>1, <2>2
<1>5. /\ x.at \in Nat /\ x.size \in Nat /\ y.at \in Nat /\ y.size \in Nat
      /\ EndsAt(x) = x.at + x.size /\ EndsAt(y) = y.at + y.size
  BY DEF Blocks, EndsAt
<1>6. ASSUME NEW at \in Nat, bs[k].at <= at, at < EndsAt(bs[k]), NEW u \in used PROVE u.at # at
  <2>1. u \in PhysicalOf(bs) \union {NullOf(bs)} /\ u # bs[k]
    BY <1>0 DEF UsedOf
  <2>. QED BY <1>0, <1>6, <2>1, NoneInside
<1>7. x \notin used /\ x # y
  <2>1. x.at < EndsAt(bs[k]) /\ x.at # y.at
    BY <1>5
  <2>. QED BY <1>0, <1>5, <1>6, <2>1
<1>8. k # Len(bs) => y \notin used
  <2>1. y.size > 0 => bs[k].at <= y.at /\ y.at < EndsAt(bs[k])
    BY <1>0, <1>5
  <2>. QED BY <1>5, <1>6, <2>1
<1>9. IF k = Len(bs) THEN UsedOf(d) = used \union {x} ELSE UsedOf(d) = used \union {x, y}
  <2>1. CASE k = Len(bs)
    BY <1>1, <1>2, <2>1 DEF UsedOf
  <2>2. CASE k # Len(bs)
    <3>1. UsedOf(d) = (UsedOf(bs) \ {bs[k]}) \union {x, y}
      BY <1>2, <2>2 DEF UsedOf
    <3>. QED BY <1>0, <1>1, <2>2, <3>1
  <2>. QED BY <2>1, <2>2
<1>10. /\ n.blocks = d /\ n.lists = m.lists /\ n.inner = m.inner /\ n.classes = m.classes
       /\ n.freeCount = m.freeCount /\ n.freeSize = m.freeSize
       /\ n.pages = m.pages /\ n.allocCount = m.allocCount /\ n \in Meta(T)
  BY <1>0, <1>3 DEF Meta
<1>11. Placed(n, T)
  BY <1>0, <1>2, <1>4, <1>10 DEF Placed, Books
<1>. QED BY <1>2, <1>3, <1>4, <1>7, <1>8, <1>9, <1>10, <1>11 DEF Halved

-----------------------------------------------------------------------------
(* The space before the aligned offset                                       *)
LEMMA TrimmedHeld ==
  ASSUME NEW T, NEW used, NEW m, NEW k, Held(m, T, k, used), NoneBefore(m.blocks, k),
         NEW missing \in Nat, missing < m.blocks[k].size, m.blocks[k].at = 0 => missing = 0,
         NEW n, n = Trimmed(m, k, missing)
  PROVE  \E j : /\ Held(n, T, j, used)
                /\ Same(m, k, n, j, m.blocks[k].at + missing, m.blocks[k].size - missing)
<1>. DEFINE bs == m.blocks
            b == bs[k]
            F == FreeOf(bs)
<1>0. /\ Placed(m, T) /\ m \in Meta(T) /\ Laid(bs) /\ bs \in Seq(Blocks)
      /\ Len(bs) \in Nat \ {0} /\ DOMAIN bs = 1 .. Len(bs)
      /\ k \in DOMAIN bs /\ k \in Nat /\ 1 <= k /\ k <= Len(bs)
      /\ b \in Blocks /\ b.at \in Nat /\ b.size \in Nat
      /\ EndsAt(b) = b.at + b.size
      /\ used \subseteq UsedOf(bs) /\ b \notin used
      /\ \A c \in Others(bs, k) : c \in PhysicalOf(bs) \union {NullOf(bs)} /\ c # b
      /\ IF k = Len(bs) THEN IsFree(b) ELSE ~ IsFree(b)
  BY HeldIs
<1>1. CASE missing = 0
  <2>1. n = m /\ b.at + missing = b.at /\ b.size - missing = b.size
    BY <1>0, <1>1 DEF Trimmed
  <2>. QED BY <1>0, <2>1 DEF Same
<1>2. CASE missing # 0
  <2>. DEFINE x == [at |-> b.at, size |-> missing, type |-> "unknown"]
              y == [at |-> b.at + missing, size |-> b.size - missing, type |-> b.type]
              d == InsertAt([bs EXCEPT ![k] = y], k, x)
              m1 == [m EXCEPT !.blocks = d]
              e == n.blocks[k]
  <2>1. k > 1 /\ k - 1 \in DOMAIN bs /\ k - 1 # Len(bs)
    <3>1. k # 1
      BY <1>0, <1>2 DEF Laid
    <3>. QED BY <1>0, <3>1
  <2>2. ~ IsFree(bs[k - 1])
    <3>1. SUFFICES ASSUME IsFree(bs[k - 1]) PROVE FALSE
      OBVIOUS
    <3>2. bs[k - 1] \in F
      BY <1>0, <2>1, <3>1, FreeIn
    <3>3. k - 1 \in 1 .. Len(bs) - 1 /\ (k - 1) + 1 = k
      BY <1>0, <2>1
    <3>4. b.at = EndsAt(bs[k - 1])
      BY <1>0, <3>3 DEF Laid
    <3>. QED BY <3>2, <3>4 DEF NoneBefore
  <2>3. /\ x \in Blocks /\ y \in Blocks /\ x.at = b.at /\ x.size > 0 /\ y.at = EndsAt(x)
        /\ EndsAt(y) = EndsAt(b) /\ ~ IsFree(x) /\ y.size > 0 /\ (IsFree(y) <=> IsFree(b))
        /\ y.at = b.at + missing /\ y.size = b.size - missing /\ x.size = missing
    BY <1>0, <1>2 DEF Blocks, SuballocationTypes, EndsAt, IsFree
  <2>4. m1 = [[m EXCEPT !.blocks[k].at = @ + missing, !.blocks[k].size = @ - missing]
               EXCEPT !.blocks = InsertAt(@, k, x)]
    <3>1. b = [at |-> b.at, size |-> b.size, type |-> b.type]
      BY <1>0, LaidIs
    <3>2. [[b EXCEPT !.at = b.at + missing] EXCEPT !.size = b.size - missing] = y
      <4>. HIDE DEF b
      <4>. DEFINE w == [b EXCEPT !.at = b.at + missing]
                  s == b.size - missing
      <4>1. w = [at |-> b.at + missing, size |-> b.size, type |-> b.type]
        BY <3>1
      <4>. HIDE DEF w, s
      <4>2. [w EXCEPT !.size = s] = [at |-> b.at + missing, size |-> s, type |-> b.type]
        BY <4>1
      <4>. QED BY <4>2 DEF w, s
    <3>. DEFINE m0 == [m EXCEPT !.blocks[k].at = @ + missing, !.blocks[k].size = @ - missing]
    <3>3. m0 = [m EXCEPT !.blocks = [bs EXCEPT ![k] = y]]
      <4>. DEFINE wide == [bs EXCEPT ![k].at = @ + missing, ![k].size = @ - missing]
      <4>1. wide = [bs EXCEPT ![k] = y]
        BY <1>0, <3>2 DEF Blocks
      <4>2. m0 = [m EXCEPT !.blocks = wide]
        BY <1>0 DEF Meta
      <4>. HIDE DEF wide, m0
      <4>. QED BY <4>1, <4>2
    <3>. HIDE DEF m0, x, y
    <3>4. m0.blocks = [bs EXCEPT ![k] = y] /\ [m0 EXCEPT !.blocks = d] = [m EXCEPT !.blocks = d]
      BY <1>0, <3>3 DEF Meta
    <3>. QED BY <3>4 DEF m0
  <2>5. n = InsertFree(m1, k)
    BY <1>2, <2>2, <2>4 DEF Trimmed
  <2>. HIDE DEF x, y
  <2>6. IsSplit(bs, k, x, y, d)
    BY <1>0, <2>3, InsertedSplit
  <2>. HIDE DEF d
  <2>7. Placed(m1, T) /\ Halved(m, k, used, x, y, m1)
    BY <1>0, <2>3, <2>6, HalvedPlaced
  <2>. HIDE DEF m1
  <2>8. /\ m1.pages = m.pages /\ m1.allocCount = m.allocCount
        /\ Len(m1.blocks) = Len(bs) + 1 /\ m1.blocks[k] = x /\ m1.blocks[k + 1] = y
        /\ k \in DOMAIN m1.blocks /\ k + 1 \in DOMAIN m1.blocks
        /\ FreeOf(m1.blocks) = F /\ x \notin used /\ x # y
        /\ IF k = Len(bs) THEN NullOf(m1.blocks) = y /\ UsedOf(m1.blocks) = used \union {x}
           ELSE /\ NullOf(m1.blocks) = NullOf(bs)
                /\ y \notin used /\ UsedOf(m1.blocks) = used \union {x, y}
    BY <2>7 DEF Halved
  <2>9. k # Len(m1.blocks) /\ k + 1 # k /\ (k + 1 = Len(m1.blocks) <=> k = Len(bs))
    BY <1>0, <2>8
  <2>10. /\ Placed(n, T) /\ n.pages = m1.pages /\ n.allocCount = m1.allocCount
         /\ Len(n.blocks) = Len(m1.blocks) /\ DOMAIN n.blocks = DOMAIN m1.blocks
         /\ e = [at |-> x.at, size |-> x.size, type |-> "free"]
         /\ n.blocks[k + 1] = y /\ NullOf(n.blocks) = NullOf(m1.blocks)
         /\ FreeOf(n.blocks) = F \union {e} /\ UsedOf(n.blocks) = UsedOf(m1.blocks) \ {x}
    <3>1. Placed(n, T) /\ GainsFree(m1, k, n)
      BY <2>3, <2>5, <2>7, <2>8, <2>9, InsertFreePlaced
    <3>. QED BY <2>8, <2>9, <3>1 DEF GainsFree
  <2>11. e.at = b.at /\ EndsAt(e) = y.at /\ e.at < y.at /\ e.at < EndsAt(y)
    BY <1>0, <1>2, <2>3, <2>10 DEF EndsAt
  <2>12. Others(n.blocks, k + 1) = Others(bs, k) \union {e}
    BY <2>8, <2>9, <2>10 DEF Others
  <2>. HIDE DEF e
  <2>13. \A c \in Others(bs, k) : c.at # y.at
    <3>1. y.at \in Nat /\ b.at <= y.at /\ y.at < EndsAt(b)
      BY <1>0, <2>3
    <3>. QED BY <1>0, <3>1, NoneInside
  <2>14. ASSUME NEW f \in F \union {e}, NEW c \in Others(bs, k) \union {e} PROVE EndsAt(f) # c.at
    <3>1. CASE f \in F /\ c \in Others(bs, k)
      BY <3>1 DEF Held
    <3>2. CASE f \in F /\ c = e
      BY <2>11, <3>2 DEF NoneBefore
    <3>3. CASE f = e /\ c \in Others(bs, k)
      BY <2>11, <2>13, <3>3
    <3>4. CASE f = e /\ c = e
      BY <1>0, <2>3, <2>11, <3>4
    <3>. QED BY <3>1, <3>2, <3>3, <3>4
  <2>15. \A c \in Others(bs, k) \union {e} : EndsAt(y) # c.at
    <3>1. \A c \in Others(bs, k) : EndsAt(b) # c.at
      BY DEF Held
    <3>2. EndsAt(b) # e.at
      BY <1>0, <2>3, <2>11
    <3>. QED BY <2>3, <3>1, <3>2
  <2>16. IF k + 1 = Len(n.blocks) THEN UsedOf(n.blocks) = used
         ELSE ~ IsFree(y) /\ y \notin used /\ UsedOf(n.blocks) = used \union {y}
    BY <1>0, <2>3, <2>8, <2>9, <2>10
  <2>17. Held(n, T, k + 1, used)
    BY <2>8, <2>10, <2>12, <2>14, <2>15, <2>16 DEF Held
  <2>18. Same(m, k, n, k + 1, b.at + missing, b.size - missing)
    BY <2>3, <2>8, <2>10 DEF Same
  <2>. QED BY <2>17, <2>18
<1>. QED BY <1>1, <1>2

(* The rest of the block                                                     *)
LEMMA SplitAround ==
  ASSUME NEW T, NEW used, NEW m, NEW k, Held(m, T, k, used),
         NEW size \in Nat \ {0}, size <= m.blocks[k].size, NEW n, n = Split(m, k, size)
  PROVE  Around(n, T, k, used) /\ Same(m, k, n, k, m.blocks[k].at, size)
<1>. DEFINE bs == m.blocks
            b == bs[k]
            F == FreeOf(bs)
            x == [at |-> b.at, size |-> size, type |-> "unknown"]
            y == [at |-> b.at + size, size |-> b.size - size,
                  type |-> IF k = NullIndex(m) THEN "free" ELSE "unknown"]
            d == InsertAt([bs EXCEPT ![k].size = size, ![k].type = "unknown"], k + 1, y)
            m1 == [m EXCEPT !.blocks = d]
<1>0. /\ Placed(m, T) /\ m \in Meta(T) /\ Laid(bs) /\ bs \in Seq(Blocks)
      /\ Len(bs) \in Nat \ {0} /\ DOMAIN bs = 1 .. Len(bs)
      /\ k \in DOMAIN bs /\ k \in Nat /\ 1 <= k /\ k <= Len(bs)
      /\ b \in Blocks /\ b.at \in Nat /\ b.size \in Nat
      /\ EndsAt(b) = b.at + b.size
      /\ used \subseteq UsedOf(bs) /\ b \notin used
      /\ \A c \in Others(bs, k) : c \in PhysicalOf(bs) \union {NullOf(bs)} /\ c # b
      /\ IF k = Len(bs) THEN IsFree(b) ELSE ~ IsFree(b)
  BY HeldIs
<1>1. \A f \in F : \A c \in Others(bs, k) : EndsAt(f) # c.at
  BY DEF Held
<1>2. \A c \in Others(bs, k) : EndsAt(b) # c.at
  BY DEF Held
<1>3. /\ x \in Blocks /\ y \in Blocks /\ x.at = b.at /\ x.size = size /\ y.at = EndsAt(x)
      /\ EndsAt(y) = EndsAt(b) /\ ~ IsFree(x) /\ (IsFree(y) <=> k = Len(bs))
      /\ y.at = b.at + size /\ y.size = b.size - size
  BY <1>0 DEF Blocks, SuballocationTypes, EndsAt, IsFree, NullIndex
<1>4. IsSplit(bs, k, x, y, d)
  <2>1. b = [at |-> b.at, size |-> b.size, type |-> b.type]
    BY <1>0, LaidIs
  <2>. DEFINE w == [b EXCEPT !.size = size]
  <2>2. w = [at |-> b.at, size |-> size, type |-> b.type]
    BY <2>1
  <2>. HIDE DEF w
  <2>3. [w EXCEPT !.type = "unknown"] = x
    BY <2>2
  <2>4. [bs EXCEPT ![k].size = size, ![k].type = "unknown"] = [bs EXCEPT ![k] = x]
    BY <1>0, <2>3 DEF w, Blocks
  <2>5. d = InsertAt([bs EXCEPT ![k] = x], k + 1, y)
    BY <2>4
  <2>. HIDE DEF x, y, d
  <2>. QED BY <1>0, <1>3, <2>5, InsertedSplit
<1>5. /\ k = Len(bs) => n = m1
      /\ k # Len(bs) /\ b.size = size => n = m
      /\ k # Len(bs) /\ b.size # size => n = InsertFree(m1, k + 1)
  BY DEF Split, NullIndex
<1>. HIDE DEF x, y, d
<1>6. ASSUME k = Len(bs) \/ b.size # size
      PROVE  /\ Placed(m1, T) /\ m1.pages = m.pages /\ m1.allocCount = m.allocCount
             /\ Len(m1.blocks) = Len(bs) + 1 /\ m1.blocks[k] = x /\ m1.blocks[k + 1] = y
             /\ k \in DOMAIN m1.blocks /\ k + 1 \in DOMAIN m1.blocks
             /\ FreeOf(m1.blocks) = F /\ x \notin used /\ x # y
             /\ IF k = Len(bs) THEN NullOf(m1.blocks) = y /\ UsedOf(m1.blocks) = used \union {x}
                ELSE /\ NullOf(m1.blocks) = NullOf(bs)
                     /\ y \notin used /\ UsedOf(m1.blocks) = used \union {x, y}
  <2>1. x.size > 0 /\ IF k = Len(bs) THEN IsFree(y) ELSE y.size > 0 /\ ~ IsFree(y)
    BY <1>0, <1>3, <1>6
  <2>2. m1 = [m EXCEPT !.blocks = d]
    OBVIOUS
  <2>. HIDE DEF m1
  <2>3. Placed(m1, T) /\ Halved(m, k, used, x, y, m1)
    BY <1>0, <1>3, <1>4, <2>1, <2>2, HalvedPlaced
  <2>. QED BY <2>3 DEF Halved
<1>. HIDE DEF m1
<1>7. CASE k = Len(bs)
  <2>1. /\ Placed(n, T) /\ n.pages = m.pages /\ n.allocCount = m.allocCount
        /\ Len(n.blocks) = Len(bs) + 1 /\ n.blocks[k] = x
        /\ k \in DOMAIN n.blocks /\ FreeOf(n.blocks) = F /\ x \notin used
        /\ NullOf(n.blocks) = y /\ UsedOf(n.blocks) = used \union {x}
    BY <1>5, <1>6, <1>7
  <2>2. \A f \in F : EndsAt(f) # y.at
    <3>1. ASSUME NEW f \in F PROVE EndsAt(f) <= b.at /\ EndsAt(f) \in Nat
      <4>1. f \in PhysicalOf(bs)
        BY DEF FreeOf
      <4>. QED BY <1>0, <1>7, <4>1, PhysicalIs DEF NullOf
    <3>. QED BY <1>0, <1>3, <3>1
  <2>3. \A f \in F : \A c \in F : EndsAt(f) # c.at
    BY <1>1 DEF Others
  <2>4. NoNeighbours(FreeOf(n.blocks), NullOf(n.blocks))
    BY <2>1, <2>2, <2>3 DEF NoNeighbours
  <2>5. Around(n, T, k, used)
    BY <1>0, <1>3, <1>7, <2>1, <2>4 DEF Around
  <2>. QED BY <1>3, <2>1, <2>5 DEF Same
<1>8. CASE k # Len(bs) /\ b.size = size
  <2>1. n = m
    BY <1>5, <1>8
  <2>2. NoNeighbours(F, NullOf(bs))
    BY <1>1, <1>8 DEF NoNeighbours, Others
  <2>3. Around(n, T, k, used)
    BY <1>0, <1>8, <2>1, <2>2 DEF Around, Held
  <2>. QED BY <1>0, <1>8, <2>1, <2>3 DEF Same
<1>9. CASE k # Len(bs) /\ b.size # size
  <2>. DEFINE i == k + 1
              e == n.blocks[i]
  <2>1. /\ Placed(m1, T) /\ m1.pages = m.pages /\ m1.allocCount = m.allocCount
        /\ Len(m1.blocks) = Len(bs) + 1 /\ m1.blocks[k] = x /\ m1.blocks[i] = y
        /\ k \in DOMAIN m1.blocks /\ i \in DOMAIN m1.blocks
        /\ FreeOf(m1.blocks) = F /\ x \notin used /\ x # y
        /\ NullOf(m1.blocks) = NullOf(bs)
        /\ y \notin used /\ UsedOf(m1.blocks) = used \union {x, y}
    BY <1>6, <1>9
  <2>2. i # Len(m1.blocks) /\ k # Len(m1.blocks) /\ i # k
    BY <1>0, <1>9, <2>1
  <2>3. n = InsertFree(m1, i) /\ ~ IsFree(y)
    BY <1>3, <1>5, <1>9
  <2>. HIDE DEF i
  <2>4. /\ Placed(n, T) /\ n.pages = m1.pages /\ n.allocCount = m1.allocCount
        /\ Len(n.blocks) = Len(m1.blocks) /\ DOMAIN n.blocks = DOMAIN m1.blocks
        /\ e = [at |-> y.at, size |-> y.size, type |-> "free"]
        /\ n.blocks[k] = x /\ NullOf(n.blocks) = NullOf(bs)
        /\ FreeOf(n.blocks) = F \union {e} /\ UsedOf(n.blocks) = UsedOf(m1.blocks) \ {y}
    <3>1. Placed(n, T) /\ GainsFree(m1, i, n)
      BY <2>1, <2>2, <2>3, InsertFreePlaced
    <3>. QED BY <2>1, <2>2, <3>1 DEF GainsFree
  <2>5. e.at = y.at /\ EndsAt(e) = EndsAt(b)
    BY <1>3, <2>4 DEF EndsAt
  <2>. HIDE DEF e
  <2>6. y.at \in Nat /\ b.at <= y.at /\ y.at < EndsAt(b)
    BY <1>0, <1>3, <1>9
  <2>7. ASSUME NEW f \in F PROVE EndsAt(f) # y.at
    <3>1. f \in PhysicalOf(m1.blocks) /\ IsFree(f) /\ Laid(m1.blocks)
      BY <2>1 DEF FreeOf, Placed
    <3>2. PICK j \in DOMAIN m1.blocks : f = m1.blocks[j] /\ j # Len(m1.blocks)
      BY <3>1, IndexOf
    <3>3. EndsAt(f) = y.at => i = j + 1
      BY <2>1, <3>1, <3>2, LaidOnce
    <3>4. i = j + 1 => j = k
      BY <1>0, <3>1, <3>2, IndexOf DEF i
    <3>. QED BY <1>3, <2>1, <3>1, <3>2, <3>3, <3>4
  <2>8. ASSUME NEW f \in F \union {e}, NEW c \in F \union {e} \union {NullOf(bs)} PROVE EndsAt(f) # c.at
    <3>0. Others(bs, k) = F \union {NullOf(bs)}
      BY <1>9 DEF Others
    <3>1. CASE f \in F /\ c \in Others(bs, k)
      BY <1>1, <3>1
    <3>2. CASE f \in F /\ c = e
      BY <2>5, <2>7, <3>2
    <3>3. CASE f = e /\ c \in Others(bs, k)
      BY <1>2, <2>5, <3>3
    <3>4. CASE f = e /\ c = e
      BY <1>0, <2>5, <2>6, <3>4
    <3>. QED BY <3>0, <3>1, <3>2, <3>3, <3>4
  <2>9. NoNeighbours(FreeOf(n.blocks), NullOf(n.blocks))
    BY <2>4, <2>8 DEF NoNeighbours
  <2>10. Around(n, T, k, used)
    BY <1>3, <2>1, <2>2, <2>4, <2>9 DEF Around
  <2>. QED BY <1>3, <2>1, <2>4, <2>10 DEF Same
<1>. QED BY <1>7, <1>8, <1>9

(* The block in use                                                          *)
LEMMA OccupiedArranged ==
  ASSUME NEW T, NEW used, NEW m, NEW k, Around(m, T, k, used), NEW at, NEW size,
         at = m.blocks[k].at, size = m.blocks[k].size,
         NEW type \in SuballocationTypes \ {"free"},
         NEW pages \in T, pages = PagesTaken(m.pages, type, at, size, granularity),
         NEW n, n = Occupied(m, at, size, type), NEW r, r = [at |-> at, size |-> size, type |-> type]
  PROVE  /\ r \notin used /\ Arranged(n, T, used \union {r})
         /\ n.pages = pages /\ n.allocCount = m.allocCount + 1
<1>. DEFINE bs == m.blocks
            d == [bs EXCEPT ![k].type = type]
<1>0. /\ m \in Meta(T) /\ Placed(m, T) /\ Laid(bs) /\ k \in DOMAIN bs /\ k # Len(bs) /\ ~ IsFree(bs[k])
      /\ bs[k] \notin used /\ UsedOf(bs) = used \union {bs[k]}
      /\ NoNeighbours(FreeOf(bs), NullOf(bs))
  BY DEF Around, Placed
<1>1. IndexAt(m, at) = k
  BY <1>0, IndexAtIs
<1>2. type \in SuballocationTypes /\ type # "free"
  OBVIOUS
<1>3. /\ Laid(d) /\ Len(d) = Len(bs) /\ DOMAIN d = DOMAIN bs /\ d[k] = r
      /\ \A j \in DOMAIN bs : j # k => d[j] = bs[j]
      /\ NullOf(d) = NullOf(bs)
      /\ PhysicalOf(d) = (PhysicalOf(bs) \ {bs[k]}) \union {d[k]}
  BY <1>0, <1>2, RetypedLaid
<1>4. ~ IsFree(r) /\ r.at = bs[k].at
  BY <1>2 DEF IsFree
<1>5. FreeOf(d) = FreeOf(bs)
  BY <1>0, <1>3, <1>4 DEF FreeOf
<1>6. bs[k] \in PhysicalOf(bs)
  BY <1>0, FreeIn
<1>7. r \notin used
  BY <1>0, <1>4, <1>6, NotUsed
<1>8. UsedOf(d) = used \union {r}
  <2>1. UsedOf(d) = (UsedOf(bs) \ {bs[k]}) \union {r}
    BY <1>3, <1>4 DEF UsedOf
  <2>. QED BY <1>0, <2>1
<1>9. n = [m EXCEPT !.blocks = d, !.pages = pages, !.allocCount = m.allocCount + 1]
  BY <1>0, <1>1 DEF Occupied, Meta
<1>. HIDE DEF d
<1>10. /\ n.blocks = d /\ n.lists = m.lists /\ n.inner = m.inner /\ n.classes = m.classes
       /\ n.freeCount = m.freeCount /\ n.freeSize = m.freeSize
       /\ n.pages = pages /\ n.allocCount = m.allocCount + 1
  BY <1>0, <1>9 DEF Meta
<1>11. n \in Meta(T)
  <2>1. d \in Seq(Blocks) /\ m.allocCount + 1 \in Int
    BY <1>0, <1>3 DEF Laid, Meta
  <2>. DEFINE m1 == [m EXCEPT !.blocks = d]
              m2 == [m1 EXCEPT !.pages = pages]
              count == m.allocCount + 1
  <2>2. m1 \in Meta(T)
    BY <1>0, <2>1 DEF Meta
  <2>. HIDE DEF m1
  <2>3. m2 \in Meta(T)
    BY <2>2 DEF Meta
  <2>4. n = [m2 EXCEPT !.allocCount = m.allocCount + 1]
    BY <1>9 DEF m1
  <2>. HIDE DEF m2
  <2>. QED BY <2>1, <2>3, <2>4 DEF Meta
<1>12. Placed(n, T)
  BY <1>0, <1>3, <1>5, <1>10, <1>11 DEF Placed, Books
<1>13. Arranged(n, T, used \union {r})
  BY <1>0, <1>3, <1>5, <1>8, <1>10, <1>12 DEF Arranged
<1>. QED BY <1>7, <1>10, <1>13

LEMMA AllocArranged ==
  ASSUME NEW T, NEW used, NEW m, Arranged(m, T, used), NEW k \in DOMAIN m.blocks, IsFree(m.blocks[k]),
         NEW c, c.block = m.blocks[k].at, c.to \in Nat, c.block <= c.to,
         NEW size \in Nat \ {0}, c.to + size <= EndsAt(m.blocks[k]), c.block = 0 => c.to = 0,
         NEW type \in SuballocationTypes \ {"free"},
         NEW pages \in T, pages = PagesTaken(m.pages, type, c.to, size, granularity),
         NEW n, n = AllocAt(m, c, size, type),
         NEW r, r = [at |-> c.to, size |-> size, type |-> type]
  PROVE  /\ r \notin used /\ Arranged(n, T, used \union {r})
         /\ n.pages = pages /\ n.allocCount = m.allocCount + 1
<1>. DEFINE b == m.blocks[k]
            missing == c.to - c.block
            m1 == IF k = NullIndex(m) THEN m ELSE RemoveFree(m, k)
            m2 == Trimmed(m1, k, missing)
<1>0. Placed(m, T) /\ Laid(m.blocks) /\ b.at \in Nat /\ b.size \in Nat /\ EndsAt(b) = b.at + b.size
  <2>1. Placed(m, T) /\ Laid(m.blocks)
    BY DEF Arranged, Placed
  <2>. QED BY <2>1, LaidIs DEF EndsAt
<1>1. IndexAt(m, c.block) = k
  BY <1>0, IndexAtIs
<1>2. missing \in Nat /\ b.at + missing = c.to /\ missing < b.size /\ size <= b.size - missing
      /\ (b.at = 0 => missing = 0)
  BY <1>0
<1>3. /\ Held(m1, T, k, used) /\ NoneBefore(m1.blocks, k)
      /\ Same(m, k, m1, k, b.at, b.size)
  BY TakenHeld
<1>4. n = Occupied(SplitAt(m2, c.to, size), c.to, size, type)
  BY <1>1 DEF AllocAt
<1>. HIDE DEF m1, missing
<1>5. /\ m1.pages = m.pages /\ m1.allocCount = m.allocCount
      /\ m1.blocks[k].at = b.at /\ m1.blocks[k].size = b.size
  BY <1>3 DEF Same
<1>6. PICK j : /\ Held(m2, T, j, used)
               /\ Same(m1, k, m2, j, m1.blocks[k].at + missing, m1.blocks[k].size - missing)
  BY <1>2, <1>3, <1>5, TrimmedHeld
<1>. HIDE DEF m2
<1>7. /\ m2.pages = m.pages /\ m2.allocCount = m.allocCount /\ j \in DOMAIN m2.blocks
      /\ m2.blocks[j].at = c.to /\ m2.blocks[j].size = b.size - missing /\ Laid(m2.blocks)
  BY <1>2, <1>5, <1>6 DEF Same, Held, Placed
<1>. DEFINE m3 == Split(m2, j, size)
<1>8. SplitAt(m2, c.to, size) = m3
  BY <1>7, IndexAtIs DEF SplitAt
<1>9. Around(m3, T, j, used) /\ Same(m2, j, m3, j, c.to, size)
  BY <1>2, <1>6, <1>7, SplitAround
<1>. HIDE DEF m3
<1>10. /\ m3.pages = m.pages /\ m3.allocCount = m.allocCount
       /\ m3.blocks[j].at = c.to /\ m3.blocks[j].size = size
  BY <1>7, <1>9 DEF Same
<1>11. n = Occupied(m3, c.to, size, type)
  BY <1>4, <1>8
<1>. QED BY <1>9, <1>10, <1>11, OccupiedArranged

-----------------------------------------------------------------------------
(* What a request is offered                                                 *)

(* What a request may look at: the free blocks, each with its list, and the   *)
(* null block                                                                *)
Tried(m) ==
  {[list |-> ListOf(b.size), at |-> b.at] : b \in FreeOf(m.blocks)}
    \union {[list |-> ListsCount, at |-> NullOf(m.blocks).at]}

LEMMA OnListsTried ==
  ASSUME NEW T, NEW m, Placed(m, T), NEW ls
  PROVE  OnLists(m, ls) \in Seq(Tried(m))
<1>. DEFINE Entries(l) == [j \in DOMAIN m.lists[l] |-> [list |-> l, at |-> m.lists[l][j]]]
            ss == [i \in 1 .. ListsCount |-> IF i - 1 \in ls THEN Entries(i - 1) ELSE <<>>]
            F == FreeOf(m.blocks)
<1>1. ListsRight(m.lists, F) /\ Keyed(F) /\ Laid(m.blocks)
  BY FreeKeyed DEF Placed, Books
<1>2. ListsCount \in Nat
  BY TlsfAssumption, ListInRange
<1>3. ASSUME NEW l \in 0 .. ListsCount - 1 PROVE Entries(l) \in Seq(Tried(m))
  <2>1. m.lists[l] \in Seq(Nat) /\ ToSet(m.lists[l]) = {b.at : b \in OnList(F, l)}
    BY <1>1 DEF ListsRight
  <2>2. ASSUME NEW j \in DOMAIN m.lists[l] PROVE [list |-> l, at |-> m.lists[l][j]] \in Tried(m)
    <3>1. m.lists[l][j] \in ToSet(m.lists[l])
      BY DEF ToSet
    <3>2. PICK b \in OnList(F, l) : m.lists[l][j] = b.at
      BY <2>1, <3>1
    <3>3. b \in F /\ l = ListOf(b.size)
      BY DEF OnList
    <3>. QED BY <3>2, <3>3 DEF Tried
  <2>3. DOMAIN m.lists[l] = 1 .. Len(m.lists[l]) /\ Len(m.lists[l]) \in Nat
    BY <2>1
  <2>. QED BY <2>2, <2>3, SeqDef
<1>4. ASSUME NEW i \in 1 .. ListsCount PROVE ss[i] \in Seq(Tried(m))
  <2>1. i - 1 \in 0 .. ListsCount - 1
    BY <1>2
  <2>2. <<>> \in Seq(Tried(m))
    OBVIOUS
  <2>. HIDE DEF Entries
  <2>. QED BY <1>3, <2>1, <2>2
<1>. HIDE DEF Entries
<1>5. ss \in Seq(Seq(Tried(m)))
  BY <1>2, <1>4, SeqDef
<1>6. OnLists(m, ls) = FlattenSeq(ss)
  BY DEF OnLists, Entries
<1>. HIDE DEF ss
<1>. QED BY <1>5, <1>6, FlattenedIn

LEMMA OrderedTried ==
  ASSUME NEW T, NEW m, Placed(m, T), NEW size, NEW strategy \in Strategies, NEW next, NEW prev
  PROVE  Ordered(m, size, strategy, next, prev) \in Seq(Tried(m))
<1>. DEFINE S == Tried(m)
            null == <<[list |-> ListsCount, at |-> m.blocks[NullIndex(m)].at]>>
            n == OnLists(m, next)
            p == OnLists(m, prev)
            rest == OnLists(m, {l \in 0 .. ListsCount - 1 : \E x \in next : l > x})
            Entry(k) == IF IsFree(m.blocks[k]) /\ m.blocks[k].size >= size
                        THEN <<[list |-> ListOf(m.blocks[k].size), at |-> m.blocks[k].at]>>
                        ELSE <<>>
            ss == [k \in 1 .. NullIndex(m) - 1 |-> Entry(k)]
            byOffset == FlattenSeq(ss)
            first == SubSeq(n, 1, IF n = <<>> THEN 0 ELSE 1)
<1>0. Laid(m.blocks) /\ NullIndex(m) = Len(m.blocks) /\ Len(m.blocks) \in Nat \ {0}
  BY DEF Placed, NullIndex, Laid
<1>1. null \in Seq(S)
  <2>1. [list |-> ListsCount, at |-> m.blocks[NullIndex(m)].at] \in S
    BY <1>0 DEF Tried, NullOf
  <2>. QED BY <2>1
<1>2. n \in Seq(S) /\ p \in Seq(S) /\ rest \in Seq(S)
  BY OnListsTried
<1>3. byOffset \in Seq(S)
  <2>1. ASSUME NEW k \in 1 .. NullIndex(m) - 1 PROVE Entry(k) \in Seq(S)
    <3>1. CASE ~ (IsFree(m.blocks[k]) /\ m.blocks[k].size >= size)
      BY <3>1
    <3>2. CASE IsFree(m.blocks[k]) /\ m.blocks[k].size >= size
      <4>1. m.blocks[k] \in FreeOf(m.blocks)
        BY <1>0, <3>2 DEF FreeOf, PhysicalOf
      <4>2. [list |-> ListOf(m.blocks[k].size), at |-> m.blocks[k].at] \in S
        BY <4>1 DEF Tried
      <4>. QED BY <3>2, <4>2
    <3>. QED BY <3>1, <3>2
  <2>. HIDE DEF S, Entry
  <2>2. ss \in Seq(Seq(S))
    BY <1>0, <2>1, SeqDef
  <2>. HIDE DEF ss
  <2>. QED BY <2>2, FlattenedIn
<1>4. Ordered(m, size, strategy, next, prev) =
        CASE m.freeCount = 0 -> null
          [] m.freeCount # 0 /\ strategy = "time" -> first \o null \o n \o p \o rest
          [] m.freeCount # 0 /\ strategy = "memory" -> p \o null \o n \o rest
          [] m.freeCount # 0 /\ strategy = "offset" -> byOffset \o null
          [] m.freeCount # 0 /\ strategy = "none" -> n \o null \o p \o rest
  BY Zenon DEF Ordered
<1>. HIDE DEF S, null, n, p, rest, byOffset
<1>5. first \in Seq(S)
  <2>1. n # <<>> => Len(n) >= 1
    BY <1>2
  <2>. QED BY <1>2, <2>1
<1>6. ASSUME NEW a \in Seq(S), NEW b \in Seq(S) PROVE a \o b \in Seq(S)
  OBVIOUS
<1>. HIDE DEF first
<1>7. /\ ((first \o null) \o n) \o p \o rest \in Seq(S) /\ p \o null \o n \o rest \in Seq(S)
      /\ byOffset \o null \in Seq(S) /\ n \o null \o p \o rest \in Seq(S)
  BY <1>1, <1>2, <1>3, <1>5
<1>. DEFINE result == Ordered(m, size, strategy, next, prev)
<1>8. CASE m.freeCount = 0
  <2>1. result = null
    BY <1>4, <1>8
  <2>. QED BY <1>1, <2>1 DEF S
<1>9. CASE m.freeCount # 0 /\ strategy = "time"
  <2>1. result = first \o null \o n \o p \o rest
    BY <1>4, <1>9
  <2>. QED BY <1>7, <2>1 DEF S
<1>10. CASE m.freeCount # 0 /\ strategy = "memory"
  <2>1. result = p \o null \o n \o rest
    BY <1>4, <1>10
  <2>. QED BY <1>7, <2>1 DEF S
<1>11. CASE m.freeCount # 0 /\ strategy = "offset"
  <2>1. result = byOffset \o null
    BY <1>4, <1>11
  <2>. QED BY <1>7, <2>1 DEF S
<1>12. CASE m.freeCount # 0 /\ strategy = "none"
  <2>1. result = n \o null \o p \o rest
    BY <1>4, <1>12
  <2>. QED BY <1>7, <2>1 DEF S
<1>. QED BY <1>8, <1>9, <1>10, <1>11, <1>12 DEF Strategies

LEMMA FirstOfIs ==
  ASSUME NEW tried, DOMAIN tried \in SUBSET Nat, NEW c \in FirstOf(tried)
  PROVE  \E i \in DOMAIN tried :
           /\ c.list = tried[i].list /\ c.block = tried[i].at /\ c.to \in tried[i].to
<1>. DEFINE fitting == {i \in DOMAIN tried : tried[i].to # {}}
            i == CHOOSE x \in fitting : \A y \in fitting : x <= y
<1>1. fitting # {} /\ fitting \in SUBSET Nat
  BY DEF FirstOf
<1>2. i \in fitting
  <2>1. \E x \in fitting : \A y \in fitting : x <= y
    BY <1>1, LeastOf
  <2>. QED BY <2>1
<1>3. FirstOf(tried) = {[list |-> tried[i].list, block |-> tried[i].at, to |-> to] : to \in tried[i].to}
  BY <1>1 DEF FirstOf
<1>. HIDE DEF i
<1>4. PICK to \in tried[i].to : c = [list |-> tried[i].list, block |-> tried[i].at, to |-> to]
  BY <1>3
<1>. QED BY <1>2, <1>4

(* A request is given a place in a free block, or in the null block, that it  *)
(* fits in.                                                                  *)
LEMMA ChosenIs ==
  ASSUME NEW T, NEW m, Placed(m, T), NEW size, NEW align, NEW type, NEW strategy \in Strategies,
         NEW c \in Chosen(m, size, align, type, strategy)
  PROVE  /\ \E k \in DOMAIN m.blocks : /\ IsFree(m.blocks[k]) /\ c.block = m.blocks[k].at
                                       /\ c.to \in Fits(m, k, size, align, type)
         /\ \/ c.list = ListsCount
            \/ c.list \in 0 .. ListsCount - 1 /\ c.block \in ToSet(m.lists[c.list])
<1>. DEFINE tried == Search(m, size, strategy)
            placed == WithPlaces(m, tried, size, align, type)
            F == FreeOf(m.blocks)
<1>0. Laid(m.blocks) /\ Books(m, F) /\ Keyed(F)
  BY FreeKeyed DEF Placed
<1>1. tried \in Seq(Tried(m))
  BY OrderedTried DEF Search
<1>2. c \in FirstOf(placed)
  BY DEF Chosen
<1>. HIDE DEF tried
<1>3. DOMAIN placed = DOMAIN tried /\ DOMAIN tried = 1 .. Len(tried) /\ Len(tried) \in Nat
      /\ \A i \in DOMAIN tried :
           /\ placed[i].list = tried[i].list /\ placed[i].at = tried[i].at
           /\ placed[i].to = Fits(m, IndexAt(m, tried[i].at), size, align, type)
  BY <1>1 DEF WithPlaces
<1>. HIDE DEF placed
<1>4. PICK i \in DOMAIN tried :
        c.list = tried[i].list /\ c.block = tried[i].at
        /\ c.to \in Fits(m, IndexAt(m, tried[i].at), size, align, type)
  BY <1>2, <1>3, FirstOfIs
<1>5. tried[i] \in Tried(m)
  BY <1>1
<1>6. ASSUME NEW k \in DOMAIN m.blocks, IsFree(m.blocks[k]), tried[i].at = m.blocks[k].at
      PROVE  \E j \in DOMAIN m.blocks : /\ IsFree(m.blocks[j]) /\ c.block = m.blocks[j].at
                                        /\ c.to \in Fits(m, j, size, align, type)
  <2>1. IndexAt(m, tried[i].at) = k
    BY <1>0, <1>6, IndexAtIs
  <2>. QED BY <1>4, <1>6, <2>1
<1>7. CASE tried[i] = [list |-> ListsCount, at |-> NullOf(m.blocks).at]
  <2>1. Len(m.blocks) \in DOMAIN m.blocks /\ IsFree(m.blocks[Len(m.blocks)])
    BY <1>0, IndexOf DEF Laid
  <2>. QED BY <1>4, <1>6, <1>7, <2>1 DEF NullOf
<1>8. ASSUME NEW b \in F, tried[i] = [list |-> ListOf(b.size), at |-> b.at]
      PROVE  /\ \E k \in DOMAIN m.blocks : /\ IsFree(m.blocks[k]) /\ c.block = m.blocks[k].at
                                           /\ c.to \in Fits(m, k, size, align, type)
             /\ c.list \in 0 .. ListsCount - 1 /\ c.block \in ToSet(m.lists[c.list])
  <2>1. PICK k \in DOMAIN m.blocks : b = m.blocks[k] /\ IsFree(b)
    BY <1>0, IndexOf DEF FreeOf
  <2>2. ListOf(b.size) \in 0 .. ListsCount - 1
    BY <1>0, KeyedIs
  <2>3. b \in OnList(F, ListOf(b.size))
    BY DEF OnList
  <2>4. b.at \in ToSet(m.lists[ListOf(b.size)])
    BY <1>0, <2>2, <2>3 DEF Books, ListsRight
  <2>. QED BY <1>4, <1>6, <1>8, <2>1, <2>2, <2>4
<1>. QED BY <1>5, <1>7, <1>8 DEF Tried

-----------------------------------------------------------------------------
(* Places in a free block                                                    *)

LEMMA UpTo ==
  ASSUME NEW x \in Nat, NEW a \in Nat \ {0}
  PROVE  /\ AlignUp(x, a) \in Nat /\ x <= AlignUp(x, a) /\ AlignUp(x, a) < x + a
         /\ x = 0 => AlignUp(x, a) = 0
         /\ \E k \in Int : AlignUp(x, a) = k * a
<1>. DEFINE k == (x + a - 1) \div a
<1>1. k \in Int /\ k * a <= x + a - 1 /\ x + a - 1 < k * a + a
  BY Quotient
<1>2. x = 0 => k = 0
  OBVIOUS
<1>. HIDE DEF k
<1>3. k * a \in Int
  BY <1>1
<1>. QED BY <1>1, <1>2, <1>3 DEF k, AlignUp

(* The page the place begins on is not one it conflicts with, or the place    *)
(* was moved to where that page ends; and the page it ends on is not either,  *)
(* unless it is the one it begins on or was moved to.                        *)
LEMMA SettledIs ==
  ASSUME NEW pages, NEW at \in Nat, NEW size \in Nat \ {0}, NEW b, b.at \in Nat, b.size \in Nat,
         b.at <= at, at + size <= b.at + b.size, NEW type, NEW g \in Nat \ {0},
         NEW to \in Settled(pages, at, size, b, type, g)
  PROVE  /\ to \in Nat /\ at <= to /\ to + size <= b.at + b.size
         /\ at = 0 => to = 0
         /\ ~ Enabled(g) => to = at
         /\ Enabled(g) =>
              \/ /\ to = at /\ ~ Taken(pages, StartPage(to, g), type)
                 /\ EndPage(to, size, g) = StartPage(to, g) \/ ~ Taken(pages, EndPage(to, size, g), type)
              \/ /\ to = AlignUp(at, g) /\ Taken(pages, StartPage(at, g), type)
                 /\ \/ EndPage(to, size, g) = StartPage(at, g) + 1
                    \/ ~ Taken(pages, EndPage(to, size, g), type)
<1>1. CASE ~ Enabled(g)
  BY <1>1 DEF Settled
<1>2. CASE Enabled(g)
  <2>. DEFINE first == StartPage(at, g)
              moved == Taken(pages, first, type)
  <2>1. AlignUp(at, g) \in Nat /\ at <= AlignUp(at, g) /\ (at = 0 => AlignUp(at, g) = 0)
    BY UpTo
  <2>2. CASE moved
    <3>1. /\ to = AlignUp(at, g) /\ ~ (b.size < size + to - b.at)
          /\ EndPage(to, size, g) = first + 1 \/ ~ Taken(pages, EndPage(to, size, g), type)
      BY <1>2, <2>2 DEF Settled
    <3>. QED BY <1>2, <2>1, <2>2, <3>1
  <2>3. CASE ~ moved
    <3>1. /\ to = at
          /\ EndPage(to, size, g) = first \/ ~ Taken(pages, EndPage(to, size, g), type)
      BY <1>2, <2>3 DEF Settled
    <3>. QED BY <1>2, <2>3, <3>1
  <2>. QED BY <2>2, <2>3
<1>. QED BY <1>1, <1>2

LEMMA FitsIs ==
  ASSUME NEW m, NEW k, m.blocks[k].at \in Nat, m.blocks[k].size \in Nat, granularity \in Nat \ {0},
         NEW size \in Nat \ {0}, NEW align \in Nat \ {0}, NEW type,
         NEW to \in Fits(m, k, size, align, type)
  PROVE  LET b == m.blocks[k]
             at == AlignUp(b.at, align)
         IN  /\ at \in Nat /\ b.at <= at /\ at + size <= b.at + b.size
             /\ to \in Settled(m.pages, at, size, b, type, granularity)
             /\ to \in Nat /\ b.at <= to /\ to + size <= EndsAt(b) /\ (b.at = 0 => to = 0)
<1>. DEFINE b == m.blocks[k]
            at == AlignUp(b.at, align)
<1>1. at \in Nat /\ b.at <= at /\ (b.at = 0 => at = 0)
  BY UpTo
<1>2. ~ (b.size < size + at - b.at) /\ to \in Settled(m.pages, at, size, b, type, granularity)
  BY DEF Fits
<1>. HIDE DEF at
<1>3. at + size <= b.at + b.size
  BY <1>1, <1>2
<1>4. to \in Nat /\ at <= to /\ to + size <= b.at + b.size /\ (at = 0 => to = 0)
  BY <1>1, <1>2, <1>3, SettledIs
<1>5. b.at <= to
  BY <1>1, <1>4
<1>. QED BY <1>1, <1>2, <1>3, <1>4, <1>5 DEF at, EndsAt

-----------------------------------------------------------------------------
(* Pages                                                                     *)

PageMaps(g) == [DOMAIN NoPages(Total, g) -> [type : SuballocationTypes, count : Nat]]

On(used, p, g) == {b \in used : p \in Touched(b.at, b.size, g)}

PagesExact(pages, used, g) ==
  /\ pages \in PageMaps(g)
  /\ \A p \in DOMAIN pages :
       /\ pages[p].count = Cardinality(On(used, p, g))
       /\ pages[p].count = 0 <=> pages[p].type = "free"

LEMMA TakenExact ==
  ASSUME NEW pages, NEW used, NEW g, PagesExact(pages, used, g), IsFiniteSet(used),
         NEW type \in SuballocationTypes \ {"free"}, NEW at, NEW size, NEW r,
         r = [at |-> at, size |-> size, type |-> type], r \notin used
  PROVE  PagesExact(PagesTaken(pages, type, at, size, g), used \union {r}, g)
<1>. DEFINE after == PagesTaken(pages, type, at, size, g)
            I == DOMAIN NoPages(Total, g)
            R == [type : SuballocationTypes, count : Nat]
<1>1. pages \in [I -> R] /\ DOMAIN pages = I
  BY DEF PagesExact, PageMaps
<1>2. DOMAIN after = I /\ \A p \in I : after[p] = IF p \in Touched(at, size, g) THEN PageTaken(pages[p], type)
                                                  ELSE pages[p]
  BY <1>1 DEF PagesTaken
<1>3. r.at = at /\ r.size = size
  OBVIOUS
<1>. HIDE DEF after, I, R
<1>4. ASSUME NEW p \in I
      PROVE  /\ after[p] \in R
             /\ after[p].count = Cardinality(On(used \union {r}, p, g))
             /\ after[p].count = 0 <=> after[p].type = "free"
  <2>1. pages[p] \in R /\ pages[p].count = Cardinality(On(used, p, g))
        /\ (pages[p].count = 0 <=> pages[p].type = "free")
    BY <1>1 DEF PagesExact
  <2>2. CASE p \in Touched(at, size, g)
    <3>1. On(used \union {r}, p, g) = On(used, p, g) \union {r} /\ r \notin On(used, p, g)
      BY <1>3, <2>2 DEF On
    <3>2. IsFiniteSet(On(used, p, g))
      BY FS_Subset DEF On
    <3>3. Cardinality(On(used \union {r}, p, g)) = Cardinality(On(used, p, g)) + 1
      BY <3>1, <3>2, FS_AddElement
    <3>4. /\ after[p].count = pages[p].count + 1
          /\ after[p].type \in {type, pages[p].type}
          /\ after[p].type = "free" => type = "free"
          /\ after[p] = [type |-> after[p].type, count |-> pages[p].count + 1]
      BY <1>2, <2>1, <2>2 DEF PageTaken, R
    <3>5. pages[p].count \in Nat /\ pages[p].type \in SuballocationTypes
      BY <2>1 DEF R
    <3>6. after[p] \in R
      BY <3>4, <3>5 DEF R
    <3>. QED BY <2>1, <3>3, <3>4, <3>5, <3>6
  <2>3. CASE p \notin Touched(at, size, g)
    <3>1. On(used \union {r}, p, g) = On(used, p, g)
      BY <1>3, <2>3 DEF On
    <3>. QED BY <1>2, <2>1, <2>3, <3>1
  <2>. QED BY <2>2, <2>3
<1>5. after \in PageMaps(g)
  <2>1. after = [p \in I |-> after[p]]
    BY <1>1 DEF after, PagesTaken
  <2>2. after \in [I -> R]
    BY <1>4, <2>1
  <2>. QED BY <2>2 DEF I, R, PageMaps
<1>. QED BY <1>2, <1>4, <1>5 DEF PagesExact, after

LEMMA LeftExact ==
  ASSUME NEW pages, NEW used, NEW g, PagesExact(pages, used, g), IsFiniteSet(used), NEW r \in used
  PROVE  PagesExact(PagesLeft(pages, r.at, r.size, g), used \ {r}, g)
<1>. DEFINE after == PagesLeft(pages, r.at, r.size, g)
            I == DOMAIN NoPages(Total, g)
            R == [type : SuballocationTypes, count : Nat]
<1>1. pages \in [I -> R] /\ DOMAIN pages = I
  BY DEF PagesExact, PageMaps
<1>2. DOMAIN after = I /\ \A p \in I : after[p] = IF p \in Touched(r.at, r.size, g) THEN PageLeft(pages[p])
                                                  ELSE pages[p]
  BY <1>1 DEF PagesLeft
<1>. HIDE DEF after, I, R
<1>4. ASSUME NEW p \in I
      PROVE  /\ after[p] \in R
             /\ after[p].count = Cardinality(On(used \ {r}, p, g))
             /\ after[p].count = 0 <=> after[p].type = "free"
  <2>1. pages[p] \in R /\ pages[p].count = Cardinality(On(used, p, g))
        /\ (pages[p].count = 0 <=> pages[p].type = "free")
    BY <1>1 DEF PagesExact
  <2>2. CASE p \in Touched(r.at, r.size, g)
    <3>1. On(used \ {r}, p, g) = On(used, p, g) \ {r} /\ r \in On(used, p, g)
      BY <2>2 DEF On
    <3>2. IsFiniteSet(On(used, p, g))
      BY FS_Subset DEF On
    <3>3. /\ Cardinality(On(used \ {r}, p, g)) = Cardinality(On(used, p, g)) - 1
          /\ Cardinality(On(used \ {r}, p, g)) \in Nat
      BY <3>1, <3>2, FS_RemoveElement, FS_CardinalityType
    <3>4. /\ after[p].count = pages[p].count - 1
          /\ after[p].type = (IF pages[p].count = 1 THEN "free" ELSE pages[p].type)
          /\ after[p] = [type |-> after[p].type, count |-> pages[p].count - 1]
      BY <1>2, <2>1, <2>2 DEF PageLeft, R
    <3>5. pages[p].count \in Nat /\ pages[p].type \in SuballocationTypes /\ "free" \in SuballocationTypes
      BY <2>1 DEF R, SuballocationTypes
    <3>6. after[p] \in R
      BY <2>1, <3>3, <3>4, <3>5 DEF R
    <3>. QED BY <2>1, <3>3, <3>4, <3>5, <3>6
  <2>3. CASE p \notin Touched(r.at, r.size, g)
    <3>1. On(used \ {r}, p, g) = On(used, p, g)
      BY <2>3 DEF On
    <3>. QED BY <1>2, <2>1, <2>3, <3>1
  <2>. QED BY <2>2, <2>3
<1>5. after \in PageMaps(g)
  <2>1. after = [p \in I |-> after[p]]
    BY <1>1 DEF after, PagesLeft
  <2>2. after \in [I -> R]
    BY <1>4, <2>1
  <2>. QED BY <2>2 DEF I, R, PageMaps
<1>. QED BY <1>2, <1>4, <1>5 DEF PagesExact, after

LEMMA NoneExact ==
  ASSUME NEW g
  PROVE  PagesExact(NoPages(Total, g), {}, g)
<1>. DEFINE none == NoPages(Total, g)
            I == DOMAIN none
<1>1. \A p \in I : none[p] = [type |-> "free", count |-> 0]
  BY DEF NoPages
<1>2. none = [p \in I |-> none[p]]
  BY DEF NoPages
<1>3. [type |-> "free", count |-> 0] \in [type : SuballocationTypes, count : Nat]
  BY DEF SuballocationTypes
<1>. HIDE DEF none
<1>4. none \in PageMaps(g)
  BY <1>1, <1>2, <1>3 DEF PageMaps, none
<1>5. \A p \in I : On({}, p, g) = {}
  BY DEF On
<1>6. Cardinality({}) = 0
  BY FS_EmptySet
<1>7. \A p \in I : /\ none[p].count = Cardinality(On({}, p, g))
                   /\ none[p].count = 0 <=> none[p].type = "free"
  BY <1>1, <1>5, <1>6
<1>. QED BY <1>4, <1>7 DEF PagesExact, none

-----------------------------------------------------------------------------
(* Types on one page                                                         *)

Alike(t, u) == t = u \/ (t \in {"buffer", "linear"} /\ u \in {"buffer", "linear"})

Tiled == {"unknown", "image", "optimal"}

LEMMA ConflictIs ==
  ASSUME NEW t \in SuballocationTypes \ {"free"}, NEW u \in SuballocationTypes \ {"free"}
  PROVE  /\ Conflict(t, u) <=> Conflict(u, t)
         /\ Conflict(t, u) => t \in Tiled \/ u \in Tiled
         /\ ~ Conflict(t, u) => Alike(t, u)
<1>1. Conflict(t, u) <=> Conflict(u, t)
  BY DEF Conflict
<1>2. t \in {"buffer", "linear"} /\ u \in {"buffer", "linear"} => ~ Conflict(t, u)
  BY DEF Conflict
<1>3. ~ Conflict(t, u) => Alike(t, u)
  BY DEF Conflict, SuballocationTypes, Alike
<1>. QED BY <1>1, <1>2, <1>3 DEF Tiled, SuballocationTypes

LEMMA AlikeConflict ==
  ASSUME NEW t \in SuballocationTypes \ {"free"}, NEW u \in SuballocationTypes \ {"free"},
         NEW v \in SuballocationTypes \ {"free"}, Alike(t, u), ~ Conflict(t, v)
  PROVE  ~ Conflict(u, v) /\ ~ Conflict(v, u)
<1>1. CASE t = u
  BY <1>1, ConflictIs
<1>2. CASE t # u
  <2>1. t \in {"buffer", "linear"} /\ u \in {"buffer", "linear"}
    BY <1>2 DEF Alike
  <2>2. v \in {"buffer", "linear"}
    BY <2>1, ConflictIs DEF Alike
  <2>3. ~ Conflict(u, v)
    BY <2>1, <2>2 DEF Conflict
  <2>. QED BY <2>3, ConflictIs
<1>. QED BY <1>1, <1>2

-----------------------------------------------------------------------------
(* Ranges on a page                                                          *)

(* The types on a page are alike, and with a small granularity what is tiled  *)
(* has whole pages to itself.                                                *)
WholePages(b, g) == (\E i \in Int : b.at = i * g) /\ (\E j \in Int : b.size = j * g)

KindsKept(pages, used, g) ==
  /\ \A p \in DOMAIN pages : \A b \in On(used, p, g) : Alike(pages[p].type, b.type)
  /\ ~ Enabled(g) /\ 1 < g =>
       \A b \in used : b.type \in Tiled => WholePages(b, g)

LEMMA PagesIs ==
  ASSUME NEW x \in Nat, x < Total, NEW g \in Nat \ {0}, Enabled(g)
  PROVE  x \div g \in DOMAIN NoPages(Total, g)
<1>1. DOMAIN NoPages(Total, g) = 0 .. AlignUp(Total, g) \div g - 1
  BY DEF NoPages
<1>2. PICK k \in Int : AlignUp(Total, g) = k * g
  BY TlsfAssumption, UpTo
<1>3. x < k * g /\ k * g \in Int
  BY <1>2, TlsfAssumption, UpTo
<1>4. x \div g < AlignUp(Total, g) \div g
  BY <1>2, <1>3, PageBefore
<1>5. x \div g \in Int /\ AlignUp(Total, g) \div g \in Int
  BY <1>2, <1>3, Quotient
<1>6. x \div g >= 0
  <2>1. 0 \div g = 0
    OBVIOUS
  <2>2. 0 \div g <= x \div g
    BY DivMonotone
  <2>. QED BY <2>1, <2>2
<1>. QED BY <1>1, <1>4, <1>5, <1>6

Ranged(r) == r.at \in Nat /\ r.size \in Nat \ {0} /\ r.type \in SuballocationTypes \ {"free"}

(* Of two ranges on a page, the page is the last of the one and the first of   *)
(* the other.                                                                *)
LEMMA PageOfBoth ==
  ASSUME NEW g \in Nat \ {0}, NEW a, Ranged(a), NEW b, Ranged(b), EndsAt(a) <= b.at,
         b.at \div g <= (a.at + a.size - 1) \div g
  PROVE  /\ EndPage(a.at, a.size, g) = StartPage(b.at, g)
         /\ Enabled(g) => /\ EndPage(a.at, a.size, g) \in Touched(a.at, a.size, g)
                          /\ StartPage(b.at, g) \in Touched(b.at, b.size, g)
<1>1. a.at + a.size - 1 \in Int /\ a.at + a.size - 1 <= b.at /\ b.at \in Int
  BY DEF Ranged, EndsAt
<1>2. /\ (a.at + a.size - 1) \div g <= b.at \div g
      /\ (a.at + a.size - 1) \div g \in Int /\ b.at \div g \in Int
  BY <1>1, DivMonotone, Quotient
<1>. QED BY <1>2 DEF StartPage, EndPage, Touched

(* Pages too small to count                                                  *)
LEMMA SmallPages ==
  ASSUME NEW g \in Nat \ {0}, NEW a, Ranged(a), NEW b, Ranged(b), EndsAt(a) <= b.at,
         Conflict(a.type, b.type),
         1 < g /\ a.type \in Tiled => WholePages(a, g), 1 < g /\ b.type \in Tiled => WholePages(b, g)
  PROVE  (a.at + a.size - 1) \div g < b.at \div g
<1>0. /\ a.at \in Nat /\ a.size \in Nat /\ b.at \in Nat /\ a.at + a.size - 1 \in Int
      /\ a.at + a.size \in Int /\ a.at + a.size <= b.at
      /\ a.at + a.size - 1 < a.at + a.size /\ a.at + a.size - 1 < b.at
  BY DEF Ranged, EndsAt
<1>1. SUFFICES ASSUME TRUE
               PROVE  \E k \in Int : a.at + a.size - 1 < k * g /\ k * g <= b.at
  BY <1>0, PageBefore
<1>2. CASE g = 1
  <2>1. PICK k \in Int : b.at = k * g
    BY <1>0, <1>2, MultipleOfOne
  <2>2. a.at + a.size - 1 < k * g /\ k * g <= b.at
    BY <1>0, <2>1
  <2>. QED BY <2>2
<1>3. CASE 1 < g
  <2>1. a.type \in Tiled \/ b.type \in Tiled
    BY ConflictIs DEF Ranged
  <2>2. CASE a.type \in Tiled
    <3>1. PICK i \in Int : a.at = i * g
      BY <1>3, <2>2 DEF WholePages
    <3>2. PICK j \in Int : a.size = j * g
      BY <1>3, <2>2 DEF WholePages
    <3>3. (i + j) * g = i * g + j * g
      OBVIOUS
    <3>4. i + j \in Int /\ (i + j) * g = a.at + a.size
      BY <3>1, <3>2, <3>3
    <3>. QED BY <1>0, <3>4
  <2>3. CASE b.type \in Tiled
    <3>1. PICK i \in Int : b.at = i * g
      BY <1>3, <2>3 DEF WholePages
    <3>2. a.at + a.size - 1 < i * g /\ i * g <= b.at
      BY <1>0, <3>1
    <3>. QED BY <3>2
  <2>. QED BY <2>1, <2>2, <2>3
<1>. QED BY <1>2, <1>3

(* What RoundupAllocRequest makes of a request                               *)
LEMMA RoundupIs ==
  ASSUME NEW r \in Requests, NEW g \in Granularities, NEW up, up = Roundup(r.type, r.size, r.align, g)
  PROVE  /\ up.size \in Nat \ {0} /\ up.align \in Nat \ {0}
         /\ Enabled(g) => up.size = r.size
         /\ ~ Enabled(g) /\ 1 < g /\ r.type \in Tiled =>
              (\E i \in Int : up.align = i * g) /\ (\E j \in Int : up.size = j * g)
<1>0. /\ r.size \in Nat \ {0} /\ r.align \in Nat \ {0} /\ g \in Nat \ {0} /\ MaxLow \in Nat
      /\ g <= r.align => r.align % g = 0
  BY TlsfAssumption
<1>1. CASE 1 < g /\ g <= MaxLow /\ r.type \in Tiled
  <2>1. up.size = AlignUp(r.size, g) /\ up.align = IF r.align < g THEN g ELSE r.align
    BY <1>1 DEF Roundup, Tiled
  <2>2. up.size \in Nat \ {0} /\ \E j \in Int : up.size = j * g
    <3>1. /\ AlignUp(r.size, g) \in Nat /\ r.size <= AlignUp(r.size, g)
          /\ \E k \in Int : AlignUp(r.size, g) = k * g
      BY <1>0, UpTo
    <3>2. up.size = AlignUp(r.size, g)
      BY <2>1
    <3>3. up.size \in Nat \ {0}
      BY <1>0, <3>1, <3>2
    <3>. QED BY <3>1, <3>2, <3>3
  <2>3. \E i \in Int : up.align = i * g
    <3>1. CASE r.align < g
      <4>1. g = 1 * g
        BY <1>0
      <4>. QED BY <2>1, <3>1, <4>1
    <3>2. CASE g <= r.align
      <4>1. r.align % g = 0
        BY <1>0, <3>2
      <4>2. r.align = (r.align \div g) * g
        BY <1>0, <4>1
      <4>3. r.align \div g \in Int
        BY <1>0, Quotient
      <4>. QED BY <1>0, <2>1, <3>2, <4>2, <4>3
    <3>. QED BY <1>0, <3>1, <3>2
  <2>4. up.align \in Nat \ {0} /\ ~ Enabled(g)
    BY <1>0, <1>1, <2>1 DEF Enabled
  <2>. QED BY <2>2, <2>3, <2>4
<1>2. CASE ~ (1 < g /\ g <= MaxLow /\ r.type \in Tiled)
  <2>1. up.size = r.size /\ up.align = r.align
    BY <1>2 DEF Roundup, Tiled
  <2>. QED BY <1>0, <1>2, <2>1 DEF Enabled
<1>. QED BY <1>1, <1>2

LEMMA PageAtLeast ==
  ASSUME NEW x \in Int, NEW k \in Int, NEW a \in Nat \ {0}, k * a <= x
  PROVE  k <= x \div a /\ x \div a \in Int
<1>. DEFINE d == x \div a
<1>1. d \in Int /\ x < d * a + a
  BY Quotient
<1>. HIDE DEF d
<1>2. d + 1 <= k => (d + 1) * a <= k * a
  BY <1>1, Times
<1>3. (d + 1) * a = d * a + a /\ k * a \in Int /\ d * a \in Int
  BY <1>1
<1>. QED BY <1>1, <1>2, <1>3 DEF d

(* A page that lies in a free block has nothing on it.                       *)
LEMMA PageInside ==
  ASSUME NEW bs, Laid(bs), NEW k \in DOMAIN bs, IsFree(bs[k]), NEW g \in Nat \ {0}, NEW p \in Int,
         bs[k].at <= p * g, p * g + g <= EndsAt(bs[k])
  PROVE  On(UsedOf(bs), p, g) = {}
<1>1. ASSUME NEW s \in UsedOf(bs) PROVE p \notin Touched(s.at, s.size, g)
  <2>. DEFINE b == bs[k]
  <2>1. b \in PhysicalOf(bs) \union {NullOf(bs)} /\ s \in PhysicalOf(bs) /\ s # b
    BY IndexOf DEF NullOf, UsedOf
  <2>2. EndsAt(s) <= b.at \/ EndsAt(b) <= s.at
    BY <2>1, PhysicalOnce
  <2>3. s.at \in Nat /\ s.size \in 1 .. Total /\ EndsAt(s) = s.at + s.size
    BY <2>1, PhysicalIs DEF EndsAt
  <2>4. b.at \in Nat /\ EndsAt(b) \in Nat
    BY LaidIs
  <2>. DEFINE last == s.at + s.size - 1
  <2>5. s.size \in Nat /\ s.size >= 1 /\ s.at <= last /\ last \in Int /\ last < EndsAt(s)
    BY <2>3, TlsfAssumption
  <2>. HIDE DEF b, last
  <2>6. p * g \in Int /\ (p + 1) * g = p * g + g
    OBVIOUS
  <2>7. /\ s.at \div g \in Int /\ last \div g \in Int
        /\ s.at \div g <= last \div g
    BY <2>3, <2>5, Quotient, DivMonotone
  <2>8. CASE EndsAt(s) <= b.at
    <3>1. last < p * g /\ p * g <= p * g
      BY <2>3, <2>4, <2>5, <2>6, <2>8 DEF b
    <3>2. last \div g < (p * g) \div g
      BY <2>5, <2>6, <3>1, PageBefore
    <3>3. (p * g) \div g = p
      BY Z3
    <3>. QED BY <2>7, <3>2, <3>3 DEF Touched, StartPage, EndPage, last
  <2>9. CASE EndsAt(b) <= s.at
    <3>1. (p + 1) * g <= s.at
      BY <2>3, <2>4, <2>6, <2>9 DEF b
    <3>2. p + 1 \in Int /\ s.at \in Int
      BY <2>3
    <3>3. p + 1 <= s.at \div g
      BY <3>1, <3>2, PageAtLeast
    <3>. QED BY <2>7, <3>3 DEF Touched, StartPage, EndPage, last
  <2>. QED BY <2>2, <2>8, <2>9
<1>. QED BY <1>1 DEF On

(* A place that was found is on no page that is taken by what it conflicts    *)
(* with, if requests are larger than a page.                                 *)
LEMMA NotTaken ==
  ASSUME NEW bs, Laid(bs), NEW k \in DOMAIN bs, IsFree(bs[k]), NEW g \in Nat \ {0}, Enabled(g),
         NEW pages, PagesExact(pages, UsedOf(bs), g),
         NEW size \in Nat \ {0}, g < size, NEW at \in Nat, bs[k].at <= at, at + size <= bs[k].at + bs[k].size,
         NEW type, NEW to \in Settled(pages, at, size, bs[k], type, g),
         NEW p \in Touched(to, size, g)
  PROVE  p \in DOMAIN pages /\ ~ Taken(pages, p, type)
<1>. DEFINE b == bs[k]
            end == EndPage(to, size, g)
            last == to + size - 1
<1>1. b.at \in Nat /\ b.size \in Nat /\ EndsAt(b) = b.at + b.size /\ EndsAt(b) <= Total
  <2>1. b.at \in Nat /\ b.size \in Nat /\ EndsAt(b) = b.at + b.size
    BY LaidIs DEF EndsAt
  <2>2. CASE k = Len(bs)
    BY <2>1, <2>2, TlsfAssumption DEF Laid
  <2>3. CASE k # Len(bs)
    <3>1. b \in PhysicalOf(bs)
      BY <2>3, FreeIn
    <3>. QED BY <2>1, <3>1, TlsfAssumption, PhysicalIs
  <2>. QED BY <2>1, <2>2, <2>3
<1>2. /\ to \in Nat /\ at <= to /\ to + size <= b.at + b.size
      /\ \/ /\ to = at /\ ~ Taken(pages, StartPage(to, g), type)
            /\ end = StartPage(to, g) \/ ~ Taken(pages, end, type)
         \/ /\ to = AlignUp(at, g) /\ Taken(pages, StartPage(at, g), type)
            /\ end = StartPage(at, g) + 1 \/ ~ Taken(pages, end, type)
  BY <1>1, SettledIs
<1>3. last \in Nat /\ to <= last /\ to < Total /\ last < Total
  BY <1>1, <1>2, TlsfAssumption
<1>4. p \in {StartPage(to, g), end}
  BY DEF Touched
<1>5. StartPage(to, g) = to \div g /\ StartPage(at, g) = at \div g /\ end = last \div g
  BY DEF StartPage, EndPage
<1>6. p \in DOMAIN pages
  <2>1. DOMAIN pages = DOMAIN NoPages(Total, g)
    BY DEF PagesExact, PageMaps
  <2>2. to \div g \in DOMAIN NoPages(Total, g) /\ last \div g \in DOMAIN NoPages(Total, g)
    BY <1>2, <1>3, PagesIs
  <2>. QED BY <1>4, <1>5, <2>1, <2>2
<1>. HIDE DEF end, last
<1>7. ASSUME to = AlignUp(at, g), Taken(pages, StartPage(at, g), type),
             end = StartPage(at, g) + 1 \/ ~ Taken(pages, end, type)
      PROVE  ~ Taken(pages, p, type)
  <2>1. PICK q \in Int : to = q * g
    BY <1>7, UpTo
  <2>2. to \div g = q /\ (q + 1) * g = q * g + g
    BY <2>1, Z3
  <2>3. b.at <= q * g /\ q * g + g <= EndsAt(b)
    BY <1>1, <1>2, <2>1
  <2>4. On(UsedOf(bs), q, g) = {}
    BY <2>3, PageInside
  <2>5. q \in DOMAIN pages => pages[q].count = 0
    BY <2>4, FS_EmptySet DEF PagesExact
  <2>6. q \in DOMAIN pages
    <3>1. DOMAIN pages = DOMAIN NoPages(Total, g)
      BY DEF PagesExact, PageMaps
    <3>. QED BY <1>2, <1>3, <2>2, <3>1, PagesIs
  <2>7. ~ Taken(pages, q, type)
    BY <2>5, <2>6 DEF Taken
  <2>8. ASSUME end = StartPage(at, g) + 1 PROVE FALSE
    <3>1. (q + 1) * g <= last
      BY <1>2, <2>1, <2>2 DEF last
    <3>2. last \in Int /\ q + 1 \in Int
      BY <1>3
    <3>3. q + 1 <= end
      BY <1>5, <3>1, <3>2, PageAtLeast
    <3>4. at \div g <= to \div g /\ at \div g \in Int
      BY <1>2, DivMonotone, Quotient
    <3>5. at \div g = q
      BY <1>5, <2>2, <2>8, <3>3, <3>4
    <3>. QED BY <1>5, <1>7, <2>7, <3>5
  <2>. QED BY <1>4, <1>5, <1>7, <2>2, <2>7, <2>8
<1>. QED BY <1>2, <1>4, <1>6, <1>7

-----------------------------------------------------------------------------
(* A place for a request                                                     *)

PlaceFor(m, k, q, up, r) ==
  /\ k \in DOMAIN m.blocks /\ IsFree(m.blocks[k])
  /\ q \in Requests /\ up = Roundup(q.type, q.size, q.align, granularity)
  /\ r.at \in Fits(m, k, up.size, up.align, q.type)
  /\ r = [at |-> r.at, size |-> up.size, type |-> q.type]

LEMMA PlaceIs ==
  ASSUME NEW m, Laid(m.blocks), granularity \in Granularities,
         NEW k, NEW q, NEW up, NEW r, PlaceFor(m, k, q, up, r)
  PROVE  /\ granularity \in Nat \ {0} /\ up.size \in Nat \ {0} /\ up.align \in Nat \ {0}
         /\ Ranged(r) /\ r.size = up.size /\ r.type = q.type
         /\ m.blocks[k].at <= r.at /\ EndsAt(r) <= EndsAt(m.blocks[k])
         /\ m.blocks[k].at = 0 => r.at = 0
<1>1. granularity \in Nat \ {0} /\ q.type \in SuballocationTypes \ {"free"}
  BY TlsfAssumption DEF PlaceFor
<1>2. up.size \in Nat \ {0} /\ up.align \in Nat \ {0}
  BY RoundupIs DEF PlaceFor
<1>3. m.blocks[k].at \in Nat /\ m.blocks[k].size \in Nat
  BY LaidIs DEF PlaceFor
<1>4. r.at \in Fits(m, k, up.size, up.align, q.type) /\ r.size = up.size /\ r.type = q.type
  BY DEF PlaceFor
<1>5. /\ r.at \in Nat /\ m.blocks[k].at <= r.at /\ r.at + up.size <= EndsAt(m.blocks[k])
      /\ m.blocks[k].at = 0 => r.at = 0
  BY <1>1, <1>2, <1>3, <1>4, FitsIs
<1>. QED BY <1>1, <1>2, <1>4, <1>5 DEF Ranged, EndsAt

LEMMA PlaceNotTaken ==
  ASSUME ~ WithinPage, NEW m, Laid(m.blocks), granularity \in Granularities, Enabled(granularity),
         PagesExact(m.pages, UsedOf(m.blocks), granularity),
         NEW k, NEW q, NEW up, NEW r, PlaceFor(m, k, q, up, r),
         q.size > granularity,
         NEW p \in Touched(r.at, r.size, granularity)
  PROVE  p \in DOMAIN m.pages /\ ~ Taken(m.pages, p, r.type)
<1>. DEFINE b == m.blocks[k]
            at == AlignUp(b.at, up.align)
<1>1. /\ granularity \in Nat \ {0} /\ up.size \in Nat \ {0} /\ up.align \in Nat \ {0}
      /\ r.size = up.size /\ r.type = q.type
  BY PlaceIs
<1>2. b.at \in Nat /\ b.size \in Nat /\ k \in DOMAIN m.blocks /\ IsFree(b)
  BY LaidIs DEF PlaceFor
<1>3. r.at \in Fits(m, k, up.size, up.align, q.type)
  BY DEF PlaceFor
<1>4. /\ at \in Nat /\ b.at <= at /\ at + up.size <= b.at + b.size
      /\ r.at \in Settled(m.pages, at, up.size, b, q.type, granularity)
  BY <1>1, <1>2, <1>3, FitsIs
<1>5. granularity < up.size
  <2>1. up.size = q.size /\ q.size \in Nat
    BY RoundupIs, TlsfAssumption DEF PlaceFor
  <2>. QED BY <1>1, <2>1
<1>. HIDE DEF at
<1>. QED BY <1>1, <1>2, <1>4, <1>5, NotTaken

(* It is apart from what is in use, and shares no page with what it conflicts *)
(* with.                                                                     *)
LEMMA PlaceApart ==
  ASSUME NEW m, Laid(m.blocks), granularity \in Granularities,
         NEW k, NEW q, NEW up, NEW r, PlaceFor(m, k, q, up, r), NEW s \in UsedOf(m.blocks)
  PROVE  Ranged(s) /\ (EndsAt(s) <= r.at \/ EndsAt(r) <= s.at)
<1>. DEFINE b == m.blocks[k]
<1>1. k \in DOMAIN m.blocks /\ IsFree(b)
  BY DEF PlaceFor
<1>2. b \in PhysicalOf(m.blocks) \union {NullOf(m.blocks)} /\ s \in PhysicalOf(m.blocks) /\ s # b
  BY <1>1, IndexOf DEF NullOf, UsedOf
<1>3. EndsAt(s) <= b.at \/ EndsAt(b) <= s.at
  BY <1>2, PhysicalOnce
<1>4. s.at \in Nat /\ s.size \in 1 .. Total /\ s \in Blocks /\ EndsAt(s) \in Nat /\ ~ IsFree(s)
  BY <1>2, PhysicalIs DEF UsedOf
<1>5. s.size \in Nat \ {0} /\ s.type \in SuballocationTypes \ {"free"}
  BY <1>4, TlsfAssumption DEF Blocks, IsFree
<1>6. b.at \in Nat /\ EndsAt(b) \in Nat
  BY <1>1, LaidIs
<1>7. b.at <= r.at /\ EndsAt(r) <= EndsAt(b) /\ Ranged(r)
  BY PlaceIs
<1>8. r.at \in Nat /\ EndsAt(r) \in Nat
  BY <1>7 DEF Ranged, EndsAt
<1>. QED BY <1>3, <1>4, <1>5, <1>6, <1>7, <1>8 DEF Ranged

LEMMA PlaceTiled ==
  ASSUME NEW m, Laid(m.blocks), granularity \in Granularities,
         NEW k, NEW q, NEW up, NEW r, PlaceFor(m, k, q, up, r),
         ~ Enabled(granularity), 1 < granularity, r.type \in Tiled
  PROVE  WholePages(r, granularity)
<1>. DEFINE g == granularity
            b == m.blocks[k]
            at == AlignUp(b.at, up.align)
<1>1. /\ granularity \in Nat \ {0} /\ up.size \in Nat \ {0} /\ up.align \in Nat \ {0}
      /\ r.size = up.size /\ r.type = q.type
  BY PlaceIs
<1>2. b.at \in Nat /\ b.size \in Nat /\ k \in DOMAIN m.blocks
  BY LaidIs DEF PlaceFor
<1>3. r.at \in Fits(m, k, up.size, up.align, q.type)
  BY DEF PlaceFor
<1>4. r.at \in Settled(m.pages, at, up.size, b, q.type, g)
  BY <1>1, <1>2, <1>3, FitsIs
<1>5. r.at = at
  BY <1>4 DEF Settled
<1>6. PICK n \in Int : at = n * up.align
  BY <1>1, <1>2, UpTo
<1>7. /\ \E i \in Int : up.align = i * g
      /\ \E j \in Int : up.size = j * g
  BY <1>1, RoundupIs DEF PlaceFor
<1>8. PICK i \in Int : up.align = i * g
  BY <1>7
<1>9. n * (i * g) = (n * i) * g /\ n * i \in Int
  BY <1>1, Z3
<1>10. r.at = (n * i) * g
  BY <1>5, <1>6, <1>8, <1>9, Zenon
<1>. QED BY <1>1, <1>7, <1>9, <1>10 DEF WholePages

LEMMA PlaceCompatible ==
  ASSUME ~ WithinPage, NEW m, Laid(m.blocks), granularity \in Granularities,
         PagesExact(m.pages, UsedOf(m.blocks), granularity),
         KindsKept(m.pages, UsedOf(m.blocks), granularity), IsFiniteSet(UsedOf(m.blocks)),
         NEW k, NEW q, NEW up, NEW r, PlaceFor(m, k, q, up, r),
         ~ Enabled(granularity) \/ q.size > granularity,
         NEW s \in UsedOf(m.blocks),
         NEW x, NEW y, (x = r /\ y = s) \/ (x = s /\ y = r), EndsAt(x) <= y.at,
         y.at \div granularity <= (x.at + x.size - 1) \div granularity
  PROVE  ~ Conflict(r.type, s.type) /\ ~ Conflict(s.type, r.type)
<1>. DEFINE g == granularity
            used == UsedOf(m.blocks)
            p == StartPage(y.at, g)
<1>1. Ranged(r) /\ Ranged(s) /\ g \in Nat \ {0}
  BY PlaceIs, PlaceApart
<1>2. Ranged(x) /\ Ranged(y)
  BY <1>1
<1>3. /\ EndPage(x.at, x.size, g) = p
      /\ Enabled(g) => p \in Touched(x.at, x.size, g) /\ p \in Touched(y.at, y.size, g)
  BY <1>1, <1>2, PageOfBoth
<1>. HIDE DEF p
<1>4. CASE Enabled(g)
  <2>1. p \in Touched(r.at, r.size, g) /\ p \in Touched(s.at, s.size, g)
    BY <1>2, <1>3, <1>4
  <2>2. p \in DOMAIN m.pages /\ ~ Taken(m.pages, p, r.type)
    BY <1>4, <2>1, PlaceNotTaken
  <2>3. s \in On(used, p, g)
    BY <2>1 DEF On
  <2>4. IsFiniteSet(On(used, p, g))
    BY FS_Subset DEF On
  <2>5. Cardinality(On(used, p, g)) # 0 /\ Cardinality(On(used, p, g)) \in Nat
    BY <2>3, <2>4, FS_EmptySet, FS_CardinalityType
  <2>6. m.pages[p].count > 0 /\ m.pages[p].type # "free" /\ m.pages[p].type \in SuballocationTypes
    BY <2>2, <2>5 DEF PagesExact, PageMaps
  <2>7. ~ Conflict(m.pages[p].type, r.type) /\ Alike(m.pages[p].type, s.type)
    BY <2>2, <2>3, <2>6 DEF Taken, KindsKept
  <2>. QED BY <1>1, <2>6, <2>7, AlikeConflict DEF Ranged
<1>5. CASE ~ Enabled(g)
  <2>1. 1 < g /\ r.type \in Tiled => WholePages(r, g)
    BY <1>5, PlaceTiled
  <2>2. 1 < g /\ s.type \in Tiled => WholePages(s, g)
    BY <1>5 DEF KindsKept
  <2>3. (x.at + x.size - 1) \div g \in Int /\ y.at \div g \in Int
    BY <1>1, <1>2, Quotient DEF Ranged
  <2>4. ~ Conflict(x.type, y.type)
    BY <1>1, <1>2, <2>1, <2>2, <2>3, SmallPages
  <2>5. ~ Conflict(y.type, x.type)
    BY <1>2, <2>4, ConflictIs DEF Ranged
  <2>. QED BY <2>4, <2>5
<1>. QED BY <1>4, <1>5

-----------------------------------------------------------------------------
(* The invariant                                                             *)

(* What is so of a block after every operation                               *)
BooksRight(m, g) ==
  LET used == UsedOf(m.blocks)
  IN  /\ Arranged(m, PageMaps(g), used)
      /\ m.allocCount = Cardinality(used)
      /\ PagesExact(m.pages, used, g)

TlsfInv == granularity \in Granularities /\ BooksRight(meta, granularity)

TlsfKinds == KindsKept(meta.pages, UsedOf(meta.blocks), granularity)

(* A block as it begins                                                      *)
NeverUsed(m, g) ==
  m = [blocks |-> <<[at |-> 0, size |-> Total, type |-> "free"]>>,
       lists |-> [l \in 0 .. ListsCount - 1 |-> <<>>],
       inner |-> [c \in Classes |-> {}],
       classes |-> {},
       freeCount |-> 0, freeSize |-> 0, allocCount |-> 0,
       pages |-> NoPages(Total, g)]

LEMMA NeverUsedIs ==
  ASSUME NEW m, NEW g, NeverUsed(m, g)
  PROVE  /\ Laid(m.blocks) /\ PhysicalOf(m.blocks) = {} /\ FreeOf(m.blocks) = {} /\ UsedOf(m.blocks) = {}
         /\ Len(m.blocks) = 1 /\ NullOf(m.blocks) = [at |-> 0, size |-> Total, type |-> "free"]
<1>. DEFINE b == [at |-> 0, size |-> Total, type |-> "free"]
<1>1. Total \in Nat /\ b \in Blocks /\ IsFree(b) /\ EndsAt(b) = Total
  BY TlsfAssumption DEF Blocks, IsFree, EndsAt, SuballocationTypes
<1>2. m.blocks = <<b>>
  BY DEF NeverUsed
<1>. HIDE DEF b
<1>3. m.blocks \in Seq(Blocks) /\ Len(m.blocks) = 1 /\ m.blocks[1] = b
  BY <1>1, <1>2
<1>4. b.at = 0
  BY DEF b
<1>5. 1 .. Len(m.blocks) - 1 = {}
  BY <1>3
<1>6. Laid(m.blocks)
  BY <1>1, <1>3, <1>4, <1>5 DEF Laid
<1>7. PhysicalOf(m.blocks) = {}
  BY <1>5 DEF PhysicalOf
<1>. QED BY <1>3, <1>6, <1>7 DEF FreeOf, UsedOf, NullOf, b

LEMMA NeverUsedRight ==
  ASSUME NEW m, NEW g, NeverUsed(m, g)
  PROVE  BooksRight(m, g) /\ KindsKept(m.pages, UsedOf(m.blocks), g)
<1>. DEFINE T == PageMaps(g)
<1>1. /\ Laid(m.blocks) /\ PhysicalOf(m.blocks) = {} /\ FreeOf(m.blocks) = {} /\ UsedOf(m.blocks) = {}
  BY NeverUsedIs
<1>2. /\ m.lists = [l \in 0 .. ListsCount - 1 |-> <<>>] /\ m.inner = [c \in Classes |-> {}]
      /\ m.classes = {} /\ m.freeCount = 0 /\ m.freeSize = 0 /\ m.allocCount = 0
      /\ m.pages = NoPages(Total, g)
      /\ m = [blocks |-> m.blocks, lists |-> m.lists, inner |-> m.inner, classes |-> m.classes,
              freeCount |-> m.freeCount, freeSize |-> m.freeSize,
              allocCount |-> m.allocCount, pages |-> m.pages]
  BY DEF NeverUsed
<1>3. \A l : OnList({}, l) = {}
  BY DEF OnList
<1>4. \A c : OfClass({}, c) = {}
  BY DEF OfClass
<1>5. ListsRight(m.lists, {})
  <2>1. \A l \in 0 .. ListsCount - 1 : m.lists[l] = <<>>
    BY <1>2
  <2>2. IsInjective(<<>>) /\ ToSet(<<>>) = {}
    BY DEF IsInjective, ToSet
  <2>3. m.lists \in [0 .. ListsCount - 1 -> Seq(Nat)]
    BY <1>2
  <2>4. {b.at : b \in {}} = {}
    OBVIOUS
  <2>. QED BY <1>3, <2>1, <2>2, <2>3, <2>4 DEF ListsRight
<1>6. BitsRight(m.inner, m.classes, {})
  <2>1. \A c \in Classes : m.inner[c] = {}
    BY <1>2
  <2>2. {Second(b.size) : b \in {}} = {}
    OBVIOUS
  <2>3. m.inner \in [Classes -> SUBSET Nat]
    BY <1>2
  <2>. QED BY <1>2, <1>4, <2>1, <2>2, <2>3 DEF BitsRight
<1>7. CountsRight(m.freeCount, m.freeSize, {})
  <2>1. SumFunction([b \in {} |-> b.size]) = 0
    BY SumOfNone
  <2>. QED BY <1>2, <2>1, FS_EmptySet DEF CountsRight
<1>8. m.pages \in T /\ PagesExact(m.pages, {}, g)
  BY <1>2, NoneExact DEF PagesExact
<1>9. m \in Meta(T)
  <2>1. /\ m.blocks \in Seq(Blocks) /\ m.lists \in [0 .. ListsCount - 1 -> Seq(Nat)]
        /\ m.inner \in [Classes -> SUBSET Nat]
    BY <1>1, <1>5, <1>6 DEF ListsRight, BitsRight, Laid
  <2>2. m.classes \in SUBSET Classes /\ m.freeCount \in Int /\ m.freeSize \in Int /\ m.allocCount \in Int
    BY <1>2
  <2>. HIDE DEF T
  <2>. QED BY <1>2, <1>8, <2>1, <2>2, Zenon DEF Meta
<1>10. Arranged(m, T, {})
  BY <1>1, <1>5, <1>6, <1>7, <1>9 DEF Arranged, Placed, Books, NoNeighbours
<1>11. KindsKept(m.pages, {}, g)
  BY DEF KindsKept, On
<1>. QED BY <1>1, <1>2, <1>8, <1>10, <1>11, FS_EmptySet DEF BooksRight

LEMMA ClearedNeverUsed ==
  ASSUME TlsfInv, ClearTlsf
  PROVE  granularity' = granularity /\ NeverUsed(meta', granularity)
<1>1. meta \in Meta(PageMaps(granularity))
  BY DEF TlsfInv, BooksRight, Arranged, Placed
<1>2. DOMAIN meta.lists = 0 .. ListsCount - 1 /\ DOMAIN meta.inner = Classes
  BY <1>1 DEF Meta
<1>3. meta' = [meta EXCEPT
       !.blocks = <<[at |-> 0, size |-> Total, type |-> "free"]>>,
       !.lists = [l \in 0 .. ListsCount - 1 |-> <<>>],
       !.inner = [c \in Classes |-> {}],
       !.classes = {},
       !.freeCount = 0, !.freeSize = 0, !.allocCount = 0,
       !.pages = NoPages(Total, granularity)]
  BY <1>1, <1>2 DEF ClearTlsf, Meta
<1>. QED BY <1>1, <1>3 DEF ClearTlsf, NeverUsed, Meta

(* What Allocate and FreeAt do to a block whose books are right              *)
Gives(m, r, n) ==
  /\ r \notin UsedOf(m.blocks) /\ UsedOf(n.blocks) = UsedOf(m.blocks) \union {r}
  /\ n.pages = PagesTaken(m.pages, r.type, r.at, r.size, granularity)

Returns(m, r, n) ==
  /\ r \in UsedOf(m.blocks) /\ UsedOf(n.blocks) = UsedOf(m.blocks) \ {r}
  /\ n.pages = PagesLeft(m.pages, r.at, r.size, granularity)

LEMMA RightIs ==
  ASSUME NEW m, NEW g, BooksRight(m, g)
  PROVE  /\ Arranged(m, PageMaps(g), UsedOf(m.blocks)) /\ Placed(m, PageMaps(g)) /\ Laid(m.blocks)
         /\ m.allocCount = Cardinality(UsedOf(m.blocks)) /\ PagesExact(m.pages, UsedOf(m.blocks), g)
         /\ IsFiniteSet(UsedOf(m.blocks)) /\ Cardinality(UsedOf(m.blocks)) \in Nat
         /\ IsFiniteSet(PhysicalOf(m.blocks))
<1>1. /\ Arranged(m, PageMaps(g), UsedOf(m.blocks)) /\ Placed(m, PageMaps(g)) /\ Laid(m.blocks)
      /\ m.allocCount = Cardinality(UsedOf(m.blocks)) /\ PagesExact(m.pages, UsedOf(m.blocks), g)
  BY DEF BooksRight, Arranged, Placed
<1>2. IsFiniteSet(PhysicalOf(m.blocks))
  BY <1>1, FreeKeyed
<1>3. IsFiniteSet(UsedOf(m.blocks))
  BY <1>2, FS_Subset DEF UsedOf
<1>. QED BY <1>1, <1>2, <1>3, FS_CardinalityType

LEMMA RightOnce ==
  ASSUME NEW n, NEW g, NEW T, T = PageMaps(g), NEW used, Arranged(n, T, used),
         n.allocCount = Cardinality(used), PagesExact(n.pages, used, g)
  PROVE  BooksRight(n, g) /\ UsedOf(n.blocks) = used
BY DEF BooksRight, Arranged

LEMMA AllocateRight ==
  ASSUME TlsfInv, NEW q \in Requests, Allocate(q)
  PROVE  /\ granularity' = granularity /\ (WithinPage \/ ~ Enabled(granularity) \/ q.size > granularity)
         /\ \E r, k, up : PlaceFor(meta, k, q, up, r) /\ BooksRight(meta', granularity) /\ Gives(meta, r, meta')
<1>. DEFINE g == granularity
            T == PageMaps(g)
            used == UsedOf(meta.blocks)
            up == Roundup(q.type, q.size, q.align, g)
<1>1. granularity' = granularity /\ (WithinPage \/ ~ Enabled(granularity) \/ q.size > granularity)
  BY DEF Allocate
<1>2. PICK c \in Chosen(meta, up.size, up.align, q.type, q.strategy) :
        meta' = AllocAt(InFront(meta, c), c, up.size, q.type)
  BY DEF Allocate
<1>3. /\ g \in Nat \ {0} /\ g \in Granularities /\ q.strategy \in Strategies
      /\ q.type \in SuballocationTypes \ {"free"}
  BY TlsfAssumption DEF TlsfInv
<1>4. up.size \in Nat \ {0} /\ up.align \in Nat \ {0}
  BY <1>3, RoundupIs
<1>5. BooksRight(meta, g)
  BY DEF TlsfInv
<1>6. Arranged(meta, T, used) /\ Placed(meta, T) /\ Laid(meta.blocks) /\ PagesExact(meta.pages, used, g)
      /\ meta.allocCount = Cardinality(used) /\ IsFiniteSet(used) /\ Cardinality(used) \in Nat
  BY <1>5, RightIs
<1>7. /\ \E k \in DOMAIN meta.blocks : /\ IsFree(meta.blocks[k]) /\ c.block = meta.blocks[k].at
                                       /\ c.to \in Fits(meta, k, up.size, up.align, q.type)
      /\ \/ c.list = ListsCount
         \/ c.list \in 0 .. ListsCount - 1 /\ c.block \in ToSet(meta.lists[c.list])
  BY <1>3, <1>6, ChosenIs
<1>8. PICK k \in DOMAIN meta.blocks : /\ IsFree(meta.blocks[k]) /\ c.block = meta.blocks[k].at
                                      /\ c.to \in Fits(meta, k, up.size, up.align, q.type)
  BY <1>7
<1>. DEFINE r == [at |-> c.to, size |-> up.size, type |-> q.type]
            u == up
            m == InFront(meta, c)
            pages == PagesTaken(meta.pages, q.type, c.to, up.size, g)
<1>9. PlaceFor(meta, k, q, u, r)
  BY <1>8 DEF PlaceFor
<1>10. u.size \in Nat \ {0} /\ c.to \in Fits(meta, k, u.size, u.align, q.type)
  BY <1>4, <1>8
<1>11. meta' = AllocAt(m, c, u.size, q.type) /\ r.at = c.to /\ r.size = u.size /\ r.type = q.type
       /\ r = [at |-> c.to, size |-> u.size, type |-> q.type]
       /\ pages = PagesTaken(meta.pages, q.type, c.to, u.size, g)
       /\ pages = PagesTaken(meta.pages, r.type, r.at, r.size, granularity)
  BY <1>2
<1>. HIDE DEF u, up, m, T, r, pages
<1>12. /\ c.block = meta.blocks[k].at /\ c.to \in Nat /\ c.block <= c.to
       /\ c.to + u.size <= EndsAt(meta.blocks[k]) /\ (c.block = 0 => c.to = 0)
  <2>1. /\ meta.blocks[k].at <= r.at /\ EndsAt(r) <= EndsAt(meta.blocks[k]) /\ Ranged(r)
        /\ meta.blocks[k].at = 0 => r.at = 0
    BY <1>3, <1>6, <1>9, PlaceIs
  <2>. QED BY <1>8, <1>11, <2>1 DEF Ranged, EndsAt
<1>13. Arranged(m, T, used) /\ m.blocks = meta.blocks /\ m.pages = meta.pages /\ m.allocCount = meta.allocCount
  BY <1>6, <1>7, InFrontArranged DEF m
<1>14. r \notin used => PagesExact(pages, used \union {r}, g)
  BY <1>3, <1>6, <1>11, TakenExact
<1>15. pages \in T
  <2>1. meta.pages \in PageMaps(g)
    BY <1>6 DEF PagesExact
  <2>. DEFINE I == DOMAIN NoPages(Total, g)
              R == [type : SuballocationTypes, count : Nat]
  <2>2. meta.pages \in [I -> R] /\ DOMAIN meta.pages = I
    BY <2>1 DEF PageMaps
  <2>3. \A p \in I : PageTaken(meta.pages[p], q.type) \in R
    <3>1. \A p \in I : meta.pages[p].type \in SuballocationTypes /\ meta.pages[p].count \in Nat
      BY <2>2
    <3>. QED BY <1>3, <3>1 DEF PageTaken
  <2>. HIDE DEF I, R
  <2>4. pages \in [I -> R]
    BY <1>11, <2>2, <2>3 DEF PagesTaken
  <2>. QED BY <2>4 DEF T, PageMaps, I, R
<1>16. /\ r \notin used /\ Arranged(meta', T, used \union {r})
       /\ meta'.pages = pages /\ meta'.allocCount = meta.allocCount + 1
  <2>1. k \in DOMAIN m.blocks /\ IsFree(m.blocks[k]) /\ c.block = m.blocks[k].at
        /\ c.to + u.size <= EndsAt(m.blocks[k])
        /\ pages = PagesTaken(m.pages, q.type, c.to, u.size, granularity)
    BY <1>8, <1>11, <1>12, <1>13
  <2>2. /\ r \notin used /\ Arranged(meta', T, used \union {r})
        /\ meta'.pages = pages /\ meta'.allocCount = m.allocCount + 1
    BY <1>3, <1>10, <1>11, <1>12, <1>13, <1>15, <2>1, AllocArranged
  <2>. QED BY <1>13, <2>2
<1>17. meta'.allocCount = Cardinality(used \union {r})
  BY <1>6, <1>16, FS_AddElement
<1>18. BooksRight(meta', g) /\ UsedOf(meta'.blocks) = used \union {r}
  BY <1>14, <1>16, <1>17, RightOnce DEF T
<1>19. Gives(meta, r, meta')
  BY <1>11, <1>16, <1>18 DEF Gives
<1>. QED BY <1>1, <1>9, <1>18, <1>19

LEMMA FreedRight ==
  ASSUME NEW m, BooksRight(m, granularity), NEW k \in DOMAIN m.blocks, NEW b, b = m.blocks[k], ~ IsFree(b),
         NEW n, n = Freed(m, k)
  PROVE  BooksRight(n, granularity) /\ Returns(m, b, n)
<1>. DEFINE g == granularity
            T == PageMaps(g)
            used == UsedOf(m.blocks)
            pages == PagesLeft(m.pages, b.at, b.size, g)
<1>3. Arranged(m, T, used) /\ Placed(m, T) /\ Laid(m.blocks) /\ PagesExact(m.pages, used, g)
      /\ m.allocCount = Cardinality(used) /\ IsFiniteSet(used) /\ Cardinality(used) \in Nat
  BY RightIs
<1>4. b \in used
  BY <1>3, FreeIn DEF Laid
<1>5. PagesExact(pages, used \ {b}, g)
  BY <1>3, <1>4, LeftExact
<1>6. pages \in T
  BY <1>5 DEF PagesExact
<1>. HIDE DEF T, used
<1>7. Arranged(n, T, used \ {b}) /\ n.pages = pages /\ n.allocCount = m.allocCount - 1
  <2>1. pages = PagesLeft(m.pages, m.blocks[k].at, m.blocks[k].size, granularity)
    OBVIOUS
  <2>. HIDE DEF pages
  <2>2. /\ m.blocks[k] \in used /\ Arranged(n, T, used \ {m.blocks[k]})
        /\ n.pages = pages /\ n.allocCount = m.allocCount - 1
    BY <1>3, <1>6, <2>1, FreedArranged
  <2>. QED BY <2>2
<1>8. n.allocCount = Cardinality(used \ {b})
  BY <1>3, <1>4, <1>7, FS_RemoveElement
<1>. HIDE DEF pages
<1>9. BooksRight(n, g) /\ UsedOf(n.blocks) = used \ {b}
  BY <1>5, <1>7, <1>8, RightOnce DEF T
<1>. QED BY <1>4, <1>7, <1>9 DEF Returns, pages, used

LEMMA FreeAtRight ==
  ASSUME TlsfInv, NEW k \in DOMAIN meta.blocks, FreeAt(k)
  PROVE  granularity' = granularity /\ BooksRight(meta', granularity) /\ Returns(meta, meta.blocks[k], meta')
BY FreedRight DEF FreeAt, TlsfInv

-----------------------------------------------------------------------------
(* The types on pages                                                        *)

LEMMA PageKinds ==
  ASSUME NEW page, NEW type
  PROVE  /\ PageTaken(page, type).type = IF page.count = 0 \/ page.type = "free" THEN type ELSE page.type
         /\ PageLeft(page).type = IF page.count = 1 THEN "free" ELSE page.type
BY DEF PageTaken, PageLeft

LEMMA KindsTaken ==
  ASSUME ~ WithinPage, granularity \in Granularities, NEW m, BooksRight(m, granularity),
         KindsKept(m.pages, UsedOf(m.blocks), granularity),
         NEW k, NEW q, NEW up, NEW r, PlaceFor(m, k, q, up, r),
         ~ Enabled(granularity) \/ q.size > granularity,
         NEW n, Gives(m, r, n)
  PROVE  KindsKept(n.pages, UsedOf(n.blocks), granularity)
<1>. DEFINE g == granularity
            used == UsedOf(m.blocks)
<1>1. /\ Laid(m.blocks) /\ PagesExact(m.pages, used, g) /\ IsFiniteSet(used)
  BY RightIs
<1>2. /\ UsedOf(n.blocks) = used \union {r} /\ n.pages = PagesTaken(m.pages, r.type, r.at, r.size, g)
  BY DEF Gives
<1>3. /\ DOMAIN n.pages = DOMAIN m.pages
      /\ \A p \in DOMAIN m.pages :
           n.pages[p] = IF p \in Touched(r.at, r.size, g) THEN PageTaken(m.pages[p], r.type) ELSE m.pages[p]
  BY <1>2 DEF PagesTaken
<1>4. \A p \in DOMAIN m.pages : /\ m.pages[p].count = Cardinality(On(used, p, g))
                                /\ m.pages[p].count = 0 <=> m.pages[p].type = "free"
                                /\ m.pages[p].type \in SuballocationTypes /\ m.pages[p].count \in Nat
  BY <1>1 DEF PagesExact, PageMaps
<1>5. \A p \in DOMAIN m.pages : \A b \in On(used, p, g) : Alike(m.pages[p].type, b.type)
  BY DEF KindsKept
<1>6. r.type \in SuballocationTypes \ {"free"}
  BY <1>1, PlaceIs DEF Ranged
<1>. HIDE DEF used
<1>7. ASSUME NEW p \in DOMAIN m.pages, NEW b \in On(used \union {r}, p, g)
      PROVE  Alike(n.pages[p].type, b.type)
  <2>1. b \in On(used, p, g) \/ (b = r /\ p \in Touched(r.at, r.size, g))
    BY DEF On
  <2>2. CASE p \notin Touched(r.at, r.size, g)
    BY <1>3, <1>5, <2>1, <2>2
  <2>3. CASE p \in Touched(r.at, r.size, g)
    <3>1. Enabled(g)
      BY <2>3 DEF Touched
    <3>2. ~ Taken(m.pages, p, r.type)
      BY <1>1, <2>3, <3>1, PlaceNotTaken DEF used
    <3>3. CASE m.pages[p].count = 0
      <4>1. n.pages[p].type = r.type
        BY <1>3, <2>3, <3>3, PageKinds
      <4>2. IsFiniteSet(On(used, p, g))
        BY <1>1, FS_Subset DEF On
      <4>3. On(used, p, g) = {}
        BY <1>4, <3>3, <4>2, FS_EmptySet
      <4>. QED BY <2>1, <4>1, <4>3 DEF Alike
    <3>4. CASE m.pages[p].count # 0
      <4>1. n.pages[p].type = m.pages[p].type
        BY <1>3, <1>4, <2>3, <3>4, PageKinds
      <4>2. ~ Conflict(m.pages[p].type, r.type)
        BY <1>4, <3>2, <3>4 DEF Taken
      <4>3. m.pages[p].type \in SuballocationTypes \ {"free"}
        BY <1>4, <3>4
      <4>4. Alike(m.pages[p].type, r.type)
        BY <1>6, <4>2, <4>3, ConflictIs
      <4>. QED BY <1>5, <2>1, <4>1, <4>4
    <3>. QED BY <3>3, <3>4
  <2>. QED BY <2>2, <2>3
<1>8. ASSUME ~ Enabled(g), 1 < g, NEW b \in used \union {r}, b.type \in Tiled
      PROVE  WholePages(b, g)
  <2>1. CASE b \in used
    BY <1>8, <2>1 DEF KindsKept, used
  <2>2. CASE b = r
    BY <1>1, <1>8, <2>2, PlaceTiled
  <2>. QED BY <2>1, <2>2
<1>. QED BY <1>2, <1>3, <1>7, <1>8 DEF KindsKept

LEMMA KindsLeft ==
  ASSUME NEW m, NEW n, BooksRight(m, granularity), BooksRight(n, granularity),
         KindsKept(m.pages, UsedOf(m.blocks), granularity), NEW r, Returns(m, r, n)
  PROVE  KindsKept(n.pages, UsedOf(n.blocks), granularity)
<1>. DEFINE g == granularity
            used == UsedOf(m.blocks)
            left == UsedOf(n.blocks)
<1>1. /\ PagesExact(m.pages, used, g) /\ PagesExact(n.pages, left, g) /\ IsFiniteSet(left)
  BY RightIs
<1>2. /\ left = used \ {r} /\ n.pages = PagesLeft(m.pages, r.at, r.size, g)
  BY DEF Returns
<1>3. /\ DOMAIN n.pages = DOMAIN m.pages
      /\ \A p \in DOMAIN m.pages :
           n.pages[p] = IF p \in Touched(r.at, r.size, g) THEN PageLeft(m.pages[p]) ELSE m.pages[p]
  BY <1>2 DEF PagesLeft
<1>4. \A p \in DOMAIN n.pages : /\ n.pages[p].count = Cardinality(On(left, p, g))
                                /\ n.pages[p].count = 0 <=> n.pages[p].type = "free"
  BY <1>1 DEF PagesExact
<1>5. \A p \in DOMAIN m.pages : \A b \in On(used, p, g) : Alike(m.pages[p].type, b.type)
  BY DEF KindsKept
<1>6. ~ Enabled(g) /\ 1 < g => \A b \in used : b.type \in Tiled => WholePages(b, g)
  BY DEF KindsKept
<1>. HIDE DEF used, left
<1>7. ASSUME NEW p \in DOMAIN m.pages, NEW b \in On(left, p, g)
      PROVE  Alike(n.pages[p].type, b.type)
  <2>1. b \in On(used, p, g)
    BY <1>2 DEF On
  <2>2. n.pages[p].type \in {"free", m.pages[p].type}
    BY <1>3, PageKinds
  <2>3. n.pages[p].type # "free"
    <3>1. IsFiniteSet(On(left, p, g))
      BY <1>1, FS_Subset DEF On
    <3>2. Cardinality(On(left, p, g)) # 0
      BY <3>1, FS_EmptySet
    <3>. QED BY <1>3, <1>4, <3>2
  <2>. QED BY <1>5, <2>1, <2>2, <2>3
<1>8. ~ Enabled(g) /\ 1 < g => \A b \in left : b.type \in Tiled => WholePages(b, g)
  BY <1>2, <1>6
<1>. QED BY <1>3, <1>7, <1>8 DEF KindsKept, left

-----------------------------------------------------------------------------
LEMMA TlsfStarts == TlsfInit => TlsfInv /\ TlsfKinds
<1>. SUFFICES ASSUME TlsfInit PROVE TlsfInv /\ TlsfKinds
  OBVIOUS
<1>1. NeverUsed(meta, granularity) /\ granularity \in Granularities
  BY DEF TlsfInit, NeverUsed
<1>. QED BY <1>1, NeverUsedRight DEF TlsfInv, TlsfKinds

LEMMA TlsfKeeps == TlsfInv /\ [TlsfNext]_tlsfVars => TlsfInv'
<1>. SUFFICES ASSUME TlsfInv, [TlsfNext]_tlsfVars PROVE TlsfInv'
  OBVIOUS
<1>. USE DEF TlsfInv
<1>1. CASE \E q \in Requests : Allocate(q)
  BY <1>1, AllocateRight
<1>2. CASE \E k \in DOMAIN meta.blocks : FreeAt(k)
  BY <1>2, FreeAtRight
<1>3. CASE ClearTlsf
  BY <1>3, ClearedNeverUsed, NeverUsedRight
<1>4. CASE UNCHANGED tlsfVars
  BY <1>4 DEF tlsfVars
<1>. QED BY <1>1, <1>2, <1>3, <1>4 DEF TlsfNext

LEMMA TlsfKindsKept ==
  ASSUME ~ WithinPage, TlsfInv, TlsfKinds, [TlsfNext]_tlsfVars
  PROVE  TlsfKinds'
<1>1. CASE \E q \in Requests : Allocate(q)
  <2>1. PICK q \in Requests : Allocate(q)
    BY <1>1
  <2>2. /\ granularity' = granularity /\ (~ Enabled(granularity) \/ q.size > granularity)
        /\ \E r, k, up : PlaceFor(meta, k, q, up, r) /\ BooksRight(meta', granularity) /\ Gives(meta, r, meta')
    BY <2>1, AllocateRight
  <2>. QED BY <2>2, KindsTaken DEF TlsfKinds, TlsfInv
<1>2. CASE \E k \in DOMAIN meta.blocks : FreeAt(k)
  <2>1. PICK k \in DOMAIN meta.blocks : FreeAt(k)
    BY <1>2
  <2>. DEFINE b == meta.blocks[k]
  <2>2. granularity' = granularity /\ BooksRight(meta', granularity) /\ Returns(meta, b, meta')
    BY <2>1, FreeAtRight
  <2>. HIDE DEF b
  <2>. QED BY <2>2, KindsLeft DEF TlsfKinds, TlsfInv
<1>3. CASE ClearTlsf
  BY <1>3, ClearedNeverUsed, NeverUsedRight DEF TlsfKinds
<1>4. CASE UNCHANGED tlsfVars
  BY <1>4 DEF tlsfVars, TlsfKinds
<1>. QED BY <1>1, <1>2, <1>3, <1>4 DEF TlsfNext

LEMMA TlsfAlways == TlsfSpec => []TlsfInv
<1>. QED BY TlsfStarts, TlsfKeeps, PTL DEF TlsfSpec

-----------------------------------------------------------------------------
(* What is in use                                                            *)
TlsfLive == {meta.blocks[k] : k \in {j \in DOMAIN meta.blocks : ~ IsFree(meta.blocks[j])}}

LEMMA LiveIsUsed ==
  ASSUME NEW bs, Laid(bs)
  PROVE  {bs[k] : k \in {j \in DOMAIN bs : ~ IsFree(bs[j])}} = UsedOf(bs)
<1>1. \A k \in DOMAIN bs : ~ IsFree(bs[k]) => bs[k] \in UsedOf(bs)
  BY FreeIn DEF Laid
<1>2. \A b \in UsedOf(bs) : \E k \in DOMAIN bs : b = bs[k] /\ ~ IsFree(bs[k])
  BY IndexOf DEF UsedOf
<1>. QED BY <1>1, <1>2

-----------------------------------------------------------------------------
(* Heap.tla                                                                  *)

LEMMA PlaceInRange ==
  ASSUME granularity \in Granularities, NEW m, Laid(m.blocks),
         NEW k, NEW q, NEW up, NEW r, PlaceFor(m, k, q, up, r)
  PROVE  r \in H!Range /\ H!Within(r)
<1>1. Ranged(r) /\ EndsAt(r) <= EndsAt(m.blocks[k]) /\ k \in DOMAIN m.blocks
  BY PlaceIs DEF PlaceFor
<1>2. EndsAt(m.blocks[k]) <= Total /\ EndsAt(m.blocks[k]) \in Nat
  <2>1. CASE k = Len(m.blocks)
    BY <2>1, TlsfAssumption DEF Laid
  <2>2. CASE k # Len(m.blocks)
    <3>1. m.blocks[k] \in PhysicalOf(m.blocks)
      BY <1>1, <2>2, FreeIn
    <3>2. /\ EndsAt(m.blocks[k]) \in Nat /\ NullOf(m.blocks).at \in Nat
          /\ EndsAt(m.blocks[k]) <= NullOf(m.blocks).at /\ NullOf(m.blocks).at <= Total
      BY <3>1, PhysicalIs
    <3>. QED BY <3>2, TlsfAssumption
  <2>. QED BY <2>1, <2>2
<1>3. r.at \in Nat /\ r.size \in Nat \ {0} /\ r.type \in SuballocationTypes /\ r.at + r.size <= Total
  BY <1>1, <1>2, TlsfAssumption DEF Ranged, EndsAt
<1>4. r.at \in 0 .. Total /\ r.size \in 1 .. Total
  BY <1>3, TlsfAssumption
<1>5. r = [at |-> r.at, size |-> r.size, type |-> r.type]
  <2>1. r = [at |-> r.at, size |-> up.size, type |-> q.type]
    BY DEF PlaceFor
  <2>2. r.size = up.size /\ r.type = q.type
    BY <2>1
  <2>. QED BY <2>1, <2>2
<1>. QED BY <1>3, <1>4, <1>5 DEF H!Range, H!Within

LEMMA PlaceInHeap ==
  ASSUME ~ WithinPage, granularity \in Granularities, NEW m, BooksRight(m, granularity),
         KindsKept(m.pages, UsedOf(m.blocks), granularity),
         NEW k, NEW q, NEW up, NEW r, PlaceFor(m, k, q, up, r),
         ~ Enabled(granularity) \/ q.size > granularity, NEW s \in UsedOf(m.blocks)
  PROVE  H!Apart(r, s) /\ H!Compatible(r, s) /\ H!Compatible(s, r)
<1>1. Laid(m.blocks) /\ PagesExact(m.pages, UsedOf(m.blocks), granularity) /\ IsFiniteSet(UsedOf(m.blocks))
  BY RightIs
<1>2. EndsAt(s) <= r.at \/ EndsAt(r) <= s.at
  BY <1>1, PlaceApart
<1>3. ASSUME r.at \div granularity <= (s.at + s.size - 1) \div granularity,
             s.at \div granularity <= (r.at + r.size - 1) \div granularity
      PROVE  ~ Conflict(r.type, s.type) /\ ~ Conflict(s.type, r.type)
  <2>1. CASE EndsAt(s) <= r.at
    BY <1>1, <1>3, <2>1, PlaceCompatible
  <2>2. CASE EndsAt(r) <= s.at
    BY <1>1, <1>3, <2>2, PlaceCompatible
  <2>. QED BY <1>2, <2>1, <2>2
<1>. QED BY <1>2, <1>3 DEF H!Apart, H!Compatible, H!SharePage, EndsAt

(* An allocation, a free and a clear of TLSF are those of the heap.          *)
LEMMA HeapSteps ==
  ASSUME ~ WithinPage, TlsfInv, TlsfKinds, TlsfInv', [TlsfNext]_tlsfVars
  PROVE  [H!HeapNext]_<<TlsfLive, granularity>>
<1>. DEFINE used == UsedOf(meta.blocks)
            after == UsedOf(meta'.blocks)
<1>1. granularity \in Granularities /\ BooksRight(meta, granularity) /\ BooksRight(meta', granularity')
  BY DEF TlsfInv
<1>2. TlsfLive = used /\ TlsfLive' = after
  BY <1>1, RightIs, LiveIsUsed DEF TlsfLive
<1>3. ASSUME NEW q \in Requests, Allocate(q) PROVE H!Allocate
  <2>1. /\ granularity' = granularity /\ (~ Enabled(granularity) \/ q.size > granularity)
        /\ \E r, k, up : PlaceFor(meta, k, q, up, r) /\ BooksRight(meta', granularity) /\ Gives(meta, r, meta')
    BY <1>3, AllocateRight
  <2>2. PICK r, k, up : PlaceFor(meta, k, q, up, r) /\ Gives(meta, r, meta')
    BY <2>1
  <2>3. r \in H!Range /\ H!Within(r)
    BY <1>1, <2>2, RightIs, PlaceInRange
  <2>4. \A s \in used : H!Apart(r, s) /\ H!Compatible(r, s) /\ H!Compatible(s, r)
    BY <1>1, <2>1, <2>2, PlaceInHeap DEF TlsfKinds
  <2>5. r \in after \ used /\ after = used \union {r}
    BY <2>2 DEF Gives
  <2>. HIDE DEF used, after
  <2>. QED BY <1>2, <2>1, <2>3, <2>4, <2>5 DEF H!Allocate, TlsfLive
<1>4. ASSUME NEW k \in DOMAIN meta.blocks, FreeAt(k) PROVE H!Free
  <2>1. granularity' = granularity /\ Returns(meta, meta.blocks[k], meta')
    BY <1>4, FreeAtRight
  <2>2. meta.blocks[k] \in used /\ after = used \ {meta.blocks[k]}
    BY <2>1 DEF Returns
  <2>. HIDE DEF used, after
  <2>. QED BY <1>2, <2>1, <2>2 DEF H!Free, TlsfLive
<1>5. ASSUME ClearTlsf PROVE H!Clear
  <2>1. granularity' = granularity /\ after = {}
    BY <1>5, ClearedNeverUsed, NeverUsedIs
  <2>. HIDE DEF used, after
  <2>. QED BY <1>2, <2>1 DEF H!Clear, TlsfLive
<1>6. CASE UNCHANGED tlsfVars
  BY <1>6 DEF tlsfVars, TlsfLive
<1>. QED BY <1>3, <1>4, <1>5, <1>6 DEF TlsfNext, H!HeapNext

LEMMA HeapStarts == TlsfInit => H!HeapInit
<1>. SUFFICES ASSUME TlsfInit PROVE H!HeapInit
  OBVIOUS
<1>1. NeverUsed(meta, granularity) /\ granularity \in Nat \ {0}
  BY TlsfAssumption DEF TlsfInit, NeverUsed
<1>2. Laid(meta.blocks) /\ UsedOf(meta.blocks) = {}
  BY <1>1, NeverUsedIs
<1>. QED BY <1>1, <1>2, LiveIsUsed DEF H!HeapInit

(* TLSF keeps the promises of Heap.tla when requests are larger than a page   *)
(* where pages are counted: what Alloc hands out lies within the block, apart *)
(* from all other allocations and on no page with one it conflicts with, and  *)
(* Free and Clear take away only what they are asked to.                      *)
(* (Alloc, Free, CheckBlock, CheckConflictAndAlignUp)                         *)
THEOREM TlsfImplementsHeap ==
  ASSUME ~ WithinPage
  PROVE  TlsfSpec => TlsfIsHeap
<1>1. ASSUME TlsfInv, TlsfKinds, TlsfInv', [TlsfNext]_tlsfVars
      PROVE  TlsfKinds'
  BY <1>1, TlsfKindsKept
<1>2. ASSUME TlsfInv, TlsfKinds, TlsfInv', [TlsfNext]_tlsfVars
      PROVE  [H!HeapNext]_<<TlsfLive, granularity>>
  BY <1>2, HeapSteps
<1>. HIDE DEF TlsfInv, TlsfKinds
<1>. QED BY <1>1, <1>2, TlsfStarts, TlsfKeeps, HeapStarts, PTL
     DEF TlsfSpec, TlsfIsHeap, H!HeapSpec, TlsfLive

-----------------------------------------------------------------------------
(* What the invariant says                                                   *)

LEMMA BelowLast ==
  ASSUME NEW n \in Nat, NEW k \in 1 .. n - 1
  PROVE  k \in 1 .. n /\ k # n
OBVIOUS

(* Counting and adding up blocks is counting and adding up their places.      *)
SameSums(bs, S, B) ==
  LET f == [k \in S |-> bs[k].size]
      g == [b \in B |-> b.size]
  IN  /\ IsFiniteSet(S) /\ IsFiniteSet(B) /\ Cardinality(S) = Cardinality(B)
      /\ Sizing(f) /\ Sizing(g) /\ SumFunction(f) = SumFunction(g)

LEMMA Placings ==
  ASSUME NEW bs, Laid(bs), NEW S \in SUBSET (1 .. Len(bs) - 1)
  PROVE  SameSums(bs, S, {bs[k] : k \in S})
<1>. DEFINE B == {bs[k] : k \in S}
            f == [k \in S |-> bs[k].size]
            g == [b \in B |-> b.size]
            name == [k \in S |-> bs[k]]
<1>0. S \in SUBSET (DOMAIN bs) /\ \A k \in S : k # Len(bs)
  <2>1. Len(bs) \in Nat \ {0} /\ DOMAIN bs = 1 .. Len(bs)
    BY DEF Laid
  <2>2. \A k \in S : k \in 1 .. Len(bs) - 1
    OBVIOUS
  <2>3. \A k \in 1 .. Len(bs) - 1 : k \in 1 .. Len(bs) /\ k # Len(bs)
    BY <2>1, BelowLast
  <2>. QED BY <2>1, <2>2, <2>3
<1>1. B \in SUBSET PhysicalOf(bs)
  BY <1>0, FreeIn
<1>2. IsFiniteSet(PhysicalOf(bs))
  BY FreeKeyed
<1>3. IsFiniteSet(B)
  BY <1>1, <1>2, FS_Subset
<1>4. name \in [S -> B] /\ \A k \in S : name[k] = bs[k]
  OBVIOUS
<1>5. \A i, j \in S : name[i] = name[j] => i = j
  BY <1>0, <1>4, LaidOnce
<1>6. \A b \in B : \E k \in S : name[k] = b
  BY <1>4
<1>16. /\ DOMAIN f = S /\ DOMAIN g = B /\ \A k \in S : f[k] = bs[k].size
       /\ \A b \in B : g[b] = b.size
  OBVIOUS
<1>. HIDE DEF name, f, g, B
<1>7. IsFiniteSet(S) /\ Cardinality(S) = Cardinality(B)
  BY <1>3, <1>4, <1>5, <1>6, Counting
<1>8. \A b \in B : b.size \in Nat
  BY <1>1, PhysicalIs, TlsfAssumption
<1>9. Sizing(g)
  BY <1>3, <1>16, <1>8 DEF Sizing
<1>10. /\ name \in [DOMAIN f -> DOMAIN g]
       /\ \A x, y \in DOMAIN f : name[x] = name[y] => x = y
       /\ \A y \in DOMAIN g : \E x \in DOMAIN f : name[x] = y
       /\ \A x \in DOMAIN f : f[x] = g[name[x]]
  <2>1. \A x \in S : f[x] = bs[x].size /\ name[x] = bs[x] /\ name[x] \in B
    BY <1>4, <1>16
  <2>2. \A x \in S : f[x] = g[name[x]]
    BY <1>16, <2>1
  <2>. QED BY <1>4, <1>5, <1>6, <1>16, <2>2
<1>11. Sizing(f) /\ SumFunction(f) = SumFunction(g)
  BY <1>9, <1>10, SumRenamed
<1>. QED BY <1>3, <1>7, <1>9, <1>11 DEF f, g, B, SameSums

(* The blocks before one reach up to it.                                     *)
LEMMA SizesBefore ==
  ASSUME NEW bs, Laid(bs), NEW n \in 0 .. Len(bs) - 1
  PROVE  SumFunction([k \in 1 .. n |-> bs[k].size]) = bs[n + 1].at
<1>. DEFINE Before(i) == [k \in 1 .. i |-> bs[k].size]
            wrong == {i \in 0 .. Len(bs) - 1 : SumFunction(Before(i)) # bs[i + 1].at}
<1>0. Len(bs) \in Nat \ {0} /\ DOMAIN bs = 1 .. Len(bs)
  BY DEF Laid
<1>1. SUFFICES ASSUME wrong # {} PROVE FALSE
  BY <1>0
<1>2. wrong \in SUBSET Nat
  BY <1>0
<1>. HIDE DEF wrong
<1>3. PICK i \in wrong : \A j \in wrong : i <= j
  BY <1>1, <1>2, LeastOf
<1>4. i \in 0 .. Len(bs) - 1 /\ SumFunction(Before(i)) # bs[i + 1].at
  BY <1>3 DEF wrong
<1>5. i # 0
  <2>1. ASSUME i = 0 PROVE FALSE
    <3>1. DOMAIN Before(i) = {}
      BY <2>1
    <3>2. SumFunction(Before(i)) = 0
      BY <3>1, SumOfNone
    <3>. QED BY <1>4, <2>1, <3>2 DEF Laid
  <2>. QED BY <2>1
<1>6. i - 1 \in 0 .. Len(bs) - 1 /\ i \in 1 .. Len(bs) - 1 /\ i \in Nat /\ i - 1 < i /\ (i - 1) + 1 = i
  BY <1>0, <1>4, <1>5
<1>7. SumFunction(Before(i - 1)) = bs[i].at
  BY <1>2, <1>3, <1>6 DEF wrong
<1>8. bs[i + 1].at = bs[i].at + bs[i].size
  BY <1>6 DEF Laid, EndsAt
<1>9. SumFunction(Before(i)) = SumFunction(Before(i - 1)) + bs[i].size
  <2>. DEFINE f == Before(i)
              g == Before(i - 1)
  <2>1. Sizing(f)
    <3>1. IsFiniteSet(1 .. i)
      BY <1>6, FS_Interval
    <3>2. \A k \in 1 .. i : bs[k].size \in Nat
      BY <1>0, <1>6, LaidIs
    <3>. QED BY <3>1, <3>2 DEF Sizing
  <2>2. i \in DOMAIN f /\ DOMAIN g = DOMAIN f \ {i} /\ f[i] = bs[i].size
    BY <1>6
  <2>3. \A y \in DOMAIN g : g[y] = f[y]
    BY <1>6
  <2>. HIDE DEF f, g
  <2>4. SumFunction(f) = SumFunction(g) + f[i]
    BY <2>1, <2>2, <2>3, SumMore
  <2>. QED BY <2>2, <2>4 DEF f, g
<1>. QED BY <1>4, <1>7, <1>8, <1>9

LEMMA TypesFollow == TlsfInv => TlsfTypeOK
<1>. SUFFICES ASSUME TlsfInv PROVE TlsfTypeOK
  OBVIOUS
<1>. DEFINE bs == meta.blocks
<1>1. granularity \in Granularities /\ Laid(bs) /\ PagesExact(meta.pages, UsedOf(bs), granularity)
  BY RightIs DEF TlsfInv
<1>2. \A k \in DOMAIN bs : bs[k].type \in SuballocationTypes
  BY <1>1, LaidIs
<1>3. \A k \in DOMAIN bs : k < Len(bs) => k \in 1 .. Len(bs) - 1
  BY <1>1 DEF Laid
<1>4. \A k \in 1 .. Len(bs) - 1 : bs[k].size > 0 /\ bs[k + 1].at = bs[k].at + bs[k].size
  BY <1>1 DEF Laid, EndsAt
<1>5. bs[1].at = 0 /\ bs[Len(bs)].at + bs[Len(bs)].size = Total
  BY <1>1 DEF Laid, EndsAt
<1>6. \A p \in DOMAIN meta.pages : meta.pages[p] \in [type : SuballocationTypes, count : Nat]
  BY <1>1 DEF PagesExact, PageMaps
<1>. HIDE DEF bs
<1>. QED BY <1>1, <1>2, <1>3, <1>4, <1>5, <1>6 DEF TlsfTypeOK, NullIndex, bs

(* The blocks by place                                                       *)
LEMMA PartsAre ==
  ASSUME NEW bs, Laid(bs), NEW I, I = 1 .. Len(bs) - 1,
         NEW free, free = {k \in I : IsFree(bs[k])}
  PROVE  /\ {bs[k] : k \in I} = PhysicalOf(bs)
         /\ {bs[k] : k \in free} = FreeOf(bs)
         /\ {bs[k] : k \in I \ free} = UsedOf(bs)
BY DEF PhysicalOf, FreeOf, UsedOf

LEMMA HowMany ==
  ASSUME NEW bs, Laid(bs)
  PROVE  /\ Len(bs) - 1 = Cardinality(FreeOf(bs)) + Cardinality(UsedOf(bs))
         /\ IsFiniteSet(FreeOf(bs)) /\ IsFiniteSet(UsedOf(bs))
<1>. DEFINE n == Len(bs) - 1
            f == [k \in 1 .. n |-> bs[k]]
<1>1. n \in Nat /\ \A k \in 1 .. n : k \in DOMAIN bs
  BY DEF Laid
<1>2. f \in [1 .. n -> PhysicalOf(bs)] /\ \A y \in PhysicalOf(bs) : \E i \in 1 .. n : f[i] = y
  BY DEF PhysicalOf
<1>3. \A i, j \in 1 .. n : f[i] = f[j] => i = j
  BY <1>1, LaidOnce
<1>4. IsFiniteSet(PhysicalOf(bs))
  BY FreeKeyed
<1>5. n = Cardinality(PhysicalOf(bs))
  <2>. HIDE DEF n, f
  <2>. QED BY <1>1, <1>2, <1>3, <1>4, Enumerated
<1>6. /\ PhysicalOf(bs) = FreeOf(bs) \union UsedOf(bs) /\ FreeOf(bs) \intersect UsedOf(bs) = {}
      /\ FreeOf(bs) \in SUBSET PhysicalOf(bs) /\ UsedOf(bs) \in SUBSET PhysicalOf(bs)
  BY DEF FreeOf, UsedOf
<1>7. IsFiniteSet(FreeOf(bs)) /\ IsFiniteSet(UsedOf(bs))
  BY <1>4, <1>6, FS_Subset
<1>. QED BY <1>5, <1>6, <1>7, Together

LEMMA ListsFollow == TlsfInv => ListsExact
<1>. SUFFICES ASSUME TlsfInv PROVE ListsExact
  OBVIOUS
<1>. DEFINE bs == meta.blocks
            F == FreeOf(bs)
<1>1. Placed(meta, PageMaps(granularity)) /\ Laid(bs) /\ meta.allocCount = Cardinality(UsedOf(bs))
  BY RightIs DEF TlsfInv
<1>2. ListsRight(meta.lists, F) /\ BitsRight(meta.inner, meta.classes, F)
      /\ CountsRight(meta.freeCount, meta.freeSize, F)
  BY <1>1 DEF Placed, Books
<1>3. FreeBlocks = F
  BY <1>1, PartsAre DEF FreeBlocks, NullIndex
<1>4. Len(bs) - 1 = Cardinality(F) + Cardinality(UsedOf(bs))
      /\ Cardinality(F) \in Nat /\ Cardinality(UsedOf(bs)) \in Nat /\ Len(bs) \in Nat
  BY <1>1, HowMany, FS_CardinalityType DEF Laid
<1>. HIDE DEF F, bs
<1>5. \A l \in DOMAIN meta.lists :
         /\ IsInjective(meta.lists[l])
         /\ ToSet(meta.lists[l]) = {b.at : b \in {f \in F : ListOf(f.size) = l}}
  BY <1>2 DEF ListsRight, OnList
<1>6. \A c \in Classes :
         /\ meta.inner[c] = {Second(b.size) : b \in {f \in F : Class(f.size) = c}}
         /\ c \in meta.classes <=> meta.inner[c] # {}
  BY <1>2 DEF BitsRight, OfClass
<1>7. meta.freeCount = Cardinality(F) /\ meta.freeSize = SumFunction([b \in F |-> b.size])
  BY <1>2 DEF CountsRight
<1>8. meta.allocCount = NullIndex(meta) - 1 - meta.freeCount
  BY <1>1, <1>4, <1>7 DEF NullIndex, bs
<1>. QED BY <1>3, <1>5, <1>6, <1>7, <1>8 DEF ListsExact

LEMMA LastButOne ==
  ASSUME NEW n \in Nat \ {0}, n # 1, NEW k, k = n - 1
  PROVE  k \in 1 .. n - 1 /\ k + 1 = n /\ k \in 1 .. n /\ k # n
OBVIOUS

LEMMA CoalescedFollows == TlsfInv => Coalesced
<1>. SUFFICES ASSUME TlsfInv PROVE Coalesced
  OBVIOUS
<1>. DEFINE bs == meta.blocks
            used == UsedOf(bs)
<1>1. /\ Laid(bs) /\ meta.allocCount = Cardinality(used) /\ IsFiniteSet(used)
      /\ NoNeighbours(FreeOf(bs), NullOf(bs))
  BY RightIs DEF TlsfInv, Arranged
<1>2. Len(bs) \in Nat \ {0} /\ DOMAIN bs = 1 .. Len(bs)
  BY <1>1 DEF Laid
<1>3. ASSUME NEW k \in 1 .. Len(bs) - 1, IsFree(bs[k]), IsFree(bs[k + 1])
      PROVE  FALSE
  <2>1. k \in DOMAIN bs /\ k # Len(bs) /\ k + 1 \in DOMAIN bs
    BY <1>2
  <2>2. bs[k] \in FreeOf(bs)
    BY <1>1, <1>3, <2>1, FreeIn
  <2>3. bs[k + 1] \in FreeOf(bs) \union {NullOf(bs)}
    BY <1>1, <1>3, <2>1, FreeIn DEF NullOf
  <2>4. EndsAt(bs[k]) = bs[k + 1].at
    BY <1>1, <1>3 DEF Laid
  <2>. QED BY <1>1, <2>2, <2>3, <2>4 DEF NoNeighbours
<1>4. meta.allocCount = 0 <=> used = {}
  BY <1>1, FS_EmptySet
<1>5. ASSUME NullOf(bs).at = 0 PROVE used = {}
  <2>1. \A b \in PhysicalOf(bs) : b.at \in Nat /\ EndsAt(b) \in Nat /\ b.at < EndsAt(b) /\ EndsAt(b) <= NullOf(bs).at
    BY <1>1, PhysicalIs
  <2>2. PhysicalOf(bs) = {}
    BY <1>5, <2>1
  <2>. QED BY <2>2 DEF UsedOf
<1>6. ASSUME used = {}, NullOf(bs).at # 0 PROVE FALSE
  <2>1. Len(bs) # 1
    BY <1>1, <1>6 DEF Laid, NullOf
  <2>. DEFINE k == Len(bs) - 1
  <2>2. k \in 1 .. Len(bs) - 1 /\ k + 1 = Len(bs) /\ k \in DOMAIN bs /\ k # Len(bs)
    BY <1>2, <2>1, LastButOne
  <2>3. IsFree(bs[k])
    BY <1>1, <1>6, <2>2, FreeIn
  <2>4. IsFree(bs[k + 1])
    BY <1>1, <2>2 DEF Laid
  <2>. QED BY <1>3, <2>2, <2>3, <2>4
<1>. QED BY <1>3, <1>4, <1>5, <1>6 DEF Coalesced, NullIndex, NullOf

LEMMA ListedAre ==
  ASSUME NEW bs, Laid(bs), NEW lists, ListsRight(lists, FreeOf(bs))
  PROVE  /\ \A l \in DOMAIN lists : \A i \in DOMAIN lists[l] :
              \E k \in DOMAIN bs : lists[l][i] = bs[k].at /\ IsFree(bs[k])
         /\ \A k \in 1 .. Len(bs) - 1 :
              IsFree(bs[k]) <=> bs[k].at \in ToSet(lists[ListOf(bs[k].size)])
<1>. DEFINE F == FreeOf(bs)
<1>1. /\ DOMAIN lists = 0 .. ListsCount - 1
      /\ \A l \in DOMAIN lists : ToSet(lists[l]) = {b.at : b \in OnList(F, l)}
  BY DEF ListsRight
<1>2. \A l \in DOMAIN lists : \A i \in DOMAIN lists[l] : lists[l][i] \in ToSet(lists[l])
  BY DEF ToSet
<1>3. \A l : OnList(F, l) \in SUBSET F
  BY DEF OnList
<1>4. \A b \in F : \E k \in DOMAIN bs : b = bs[k] /\ IsFree(bs[k])
  BY IndexOf DEF FreeOf
<1>5. ASSUME NEW k \in 1 .. Len(bs) - 1
      PROVE  IsFree(bs[k]) <=> bs[k].at \in ToSet(lists[ListOf(bs[k].size)])
  <2>. DEFINE b == bs[k]
              l == ListOf(b.size)
  <2>1. b \in PhysicalOf(bs)
    BY DEF PhysicalOf
  <2>2. b.size \in 1 .. Total
    BY <2>1, PhysicalIs
  <2>3. l \in DOMAIN lists
    BY <1>1, <2>2, ListInRange
  <2>4. IsFree(b) => b \in OnList(F, l)
    BY <2>1 DEF OnList, FreeOf
  <2>5. ASSUME NEW c \in OnList(F, l), c.at = b.at PROVE IsFree(b)
    <3>1. c \in PhysicalOf(bs) /\ IsFree(c)
      BY DEF OnList, FreeOf
    <3>2. c = b
      BY <2>1, <2>5, <3>1, PhysicalOnce
    <3>. QED BY <3>1, <3>2
  <2>. HIDE DEF b, l, F
  <2>6. IsFree(b) <=> b.at \in ToSet(lists[l])
    BY <1>1, <2>3, <2>4, <2>5
  <2>. QED BY <2>6 DEF b, l
<1>6. ASSUME NEW l \in DOMAIN lists, NEW i \in DOMAIN lists[l]
      PROVE  \E k \in DOMAIN bs : lists[l][i] = bs[k].at /\ IsFree(bs[k])
  <2>1. PICK b \in OnList(F, l) : lists[l][i] = b.at
    BY <1>1, <1>2
  <2>. QED BY <1>3, <1>4, <2>1
<1>. QED BY <1>5, <1>6

LEMMA SizesAre ==
  ASSUME NEW bs, Laid(bs), NEW I, I = 1 .. Len(bs) - 1,
         NEW free, free = {k \in I : IsFree(bs[k])},
         NEW size, CountsRight(Cardinality(FreeOf(bs)), size, FreeOf(bs))
  PROVE  /\ SumFunction([k \in I |-> bs[k].size]) + bs[Len(bs)].size = Total
         /\ SumFunction([k \in free |-> bs[k].size]) = size
         /\ size + bs[Len(bs)].size <= Total
         /\ Cardinality(I \ free) = Cardinality(UsedOf(bs))
         /\ Cardinality(free) = Cardinality(FreeOf(bs))
<1>. DEFINE used == I \ free
            f == [k \in I |-> bs[k].size]
            g == [k \in free |-> bs[k].size]
            h == [k \in used |-> bs[k].size]
<1>0. Len(bs) \in Nat \ {0} /\ DOMAIN bs = 1 .. Len(bs)
  BY DEF Laid
<1>1. /\ I \in SUBSET (1 .. Len(bs) - 1) /\ free \in SUBSET (1 .. Len(bs) - 1)
      /\ used \in SUBSET (1 .. Len(bs) - 1)
  OBVIOUS
<1>2. {bs[k] : k \in free} = FreeOf(bs) /\ {bs[k] : k \in used} = UsedOf(bs)
  BY PartsAre
<1>3. /\ Sizing(f) /\ Sizing(g) /\ Sizing(h)
      /\ SumFunction(g) = SumFunction([b \in FreeOf(bs) |-> b.size])
      /\ Cardinality(free) = Cardinality(FreeOf(bs)) /\ Cardinality(used) = Cardinality(UsedOf(bs))
  <2>1. SameSums(bs, I, {bs[k] : k \in I})
    BY <1>1, Placings
  <2>2. SameSums(bs, free, FreeOf(bs))
    BY <1>1, <1>2, Placings
  <2>3. SameSums(bs, used, UsedOf(bs))
    BY <1>1, <1>2, Placings
  <2>. HIDE DEF used
  <2>4. Sizing(f)
    BY <2>1 DEF SameSums
  <2>5. Sizing(g) /\ SumFunction(g) = SumFunction([b \in FreeOf(bs) |-> b.size])
        /\ Cardinality(free) = Cardinality(FreeOf(bs))
    BY <2>2 DEF SameSums
  <2>6. Sizing(h) /\ Cardinality(used) = Cardinality(UsedOf(bs))
    BY <2>3 DEF SameSums
  <2>. QED BY <2>4, <2>5, <2>6
<1>4. /\ DOMAIN f = DOMAIN g \union DOMAIN h /\ DOMAIN g \intersect DOMAIN h = {}
      /\ \A x \in DOMAIN g : g[x] = f[x]
      /\ \A x \in DOMAIN h : h[x] = f[x]
  OBVIOUS
<1>5. SumFunction(f) = bs[Len(bs)].at
  <2>. DEFINE n == Len(bs) - 1
  <2>1. n \in 0 .. Len(bs) - 1 /\ n + 1 = Len(bs)
    BY <1>0
  <2>2. SumFunction([k \in 1 .. n |-> bs[k].size]) = bs[n + 1].at
    BY <2>1, SizesBefore
  <2>. QED BY <2>1, <2>2
<1>6. bs[Len(bs)].at + bs[Len(bs)].size = Total
  BY DEF Laid, EndsAt
<1>. HIDE DEF f, g, h, used
<1>7. SumFunction(f) = SumFunction(g) + SumFunction(h)
  BY <1>3, <1>4, SumApart
<1>8. SumFunction(g) \in Nat /\ SumFunction(h) \in Nat /\ SumFunction(f) \in Nat
  BY <1>3, SumIsCount
<1>9. bs[Len(bs)].at \in Nat /\ bs[Len(bs)].size \in Nat /\ Total \in Nat
  BY <1>0, LaidIs, TlsfAssumption
<1>10. SumFunction(g) = size
  BY <1>3 DEF CountsRight
<1>. QED BY <1>3, <1>5, <1>6, <1>7, <1>8, <1>9, <1>10 DEF f, g, used

LEMMA ValidFollows == TlsfInv => TlsfValid
<1>. SUFFICES ASSUME TlsfInv PROVE TlsfValid
  OBVIOUS
<1>. DEFINE bs == meta.blocks
            I == 1 .. Len(bs) - 1
            free == {k \in I : IsFree(bs[k])}
            used == I \ free
            size == bs[Len(bs)].size
            g == granularity
<1>1. /\ Placed(meta, PageMaps(g)) /\ Laid(bs) /\ meta.allocCount = Cardinality(UsedOf(bs))
      /\ PagesExact(meta.pages, UsedOf(bs), g)
  BY RightIs DEF TlsfInv
<1>2. ListsRight(meta.lists, FreeOf(bs)) /\ CountsRight(meta.freeCount, meta.freeSize, FreeOf(bs))
  BY <1>1 DEF Placed, Books
<1>3. \A l \in DOMAIN meta.lists : \A i \in DOMAIN meta.lists[l] :
        IsFree(bs[IndexAt(meta, meta.lists[l][i])])
  <2>1. \A l \in DOMAIN meta.lists : \A i \in DOMAIN meta.lists[l] :
          \E k \in DOMAIN bs : meta.lists[l][i] = bs[k].at /\ IsFree(bs[k])
    BY <1>1, <1>2, ListedAre
  <2>2. \A k \in DOMAIN bs : IndexAt(meta, bs[k].at) = k
    BY <1>1, IndexAtIs
  <2>. QED BY <2>1, <2>2
<1>4. \A k \in I : /\ bs[k].at + bs[k].size = bs[k + 1].at
                   /\ IsFree(bs[k]) <=> bs[k].at \in ToSet(meta.lists[ListOf(bs[k].size)])
  <2>1. \A k \in I : bs[k].at + bs[k].size = bs[k + 1].at
    BY <1>1 DEF Laid, EndsAt
  <2>2. \A k \in I : IsFree(bs[k]) <=> bs[k].at \in ToSet(meta.lists[ListOf(bs[k].size)])
    BY <1>1, <1>2, ListedAre
  <2>. QED BY <2>1, <2>2
<1>5. /\ SumFunction([k \in I |-> bs[k].size]) + size = Total
      /\ SumFunction([k \in free |-> bs[k].size]) = meta.freeSize
      /\ meta.freeSize + size <= Total
      /\ Cardinality(used) = meta.allocCount
      /\ Cardinality(free) = meta.freeCount
  <2>1. meta.freeCount = Cardinality(FreeOf(bs))
    BY <1>2 DEF CountsRight
  <2>2. CountsRight(Cardinality(FreeOf(bs)), meta.freeSize, FreeOf(bs))
    BY <1>2, <2>1
  <2>3. I = 1 .. Len(bs) - 1 /\ free = {k \in I : IsFree(bs[k])}
    OBVIOUS
  <2>. HIDE DEF I, free, bs
  <2>4. /\ SumFunction([k \in I |-> bs[k].size]) + bs[Len(bs)].size = Total
        /\ SumFunction([k \in free |-> bs[k].size]) = meta.freeSize
        /\ meta.freeSize + bs[Len(bs)].size <= Total
        /\ Cardinality(I \ free) = Cardinality(UsedOf(bs))
        /\ Cardinality(free) = Cardinality(FreeOf(bs))
    BY <1>1, <2>2, <2>3, SizesAre
  <2>. QED BY <1>1, <2>1, <2>4 DEF bs
<1>6. bs[1].at = 0
  BY <1>1 DEF Laid
<1>7. ASSUME NEW p \in DOMAIN meta.pages
      PROVE  meta.pages[p].count = Cardinality({k \in used : p \in Touched(bs[k].at, bs[k].size, g)})
  <2>. DEFINE S == {k \in used : p \in Touched(bs[k].at, bs[k].size, g)}
  <2>1. {bs[k] : k \in used} = UsedOf(bs)
    BY <1>1, PartsAre
  <2>2. {bs[k] : k \in S} = On(UsedOf(bs), p, g)
    BY <2>1 DEF On
  <2>3. S \in SUBSET (1 .. Len(bs) - 1)
    OBVIOUS
  <2>. HIDE DEF S
  <2>4. SameSums(bs, S, On(UsedOf(bs), p, g))
    BY <1>1, <2>2, <2>3, Placings
  <2>. QED BY <1>1, <2>4 DEF PagesExact, SameSums, S
<1>. QED BY <1>3, <1>4, <1>5, <1>6, <1>7 DEF TlsfValid, ValidTlsf, NullIndex, NullSize

-----------------------------------------------------------------------------
(* Where a size is looked up                                                 *)

(* A class and a second level there can be                                   *)
IsPlace(c, s) == c \in Nat /\ s \in Nat /\ IF c = 0 THEN s <= 3 ELSE s < Bit[SecondLevel]

(* The lists are in the order of the classes, then of the second levels.      *)
LEMMA ListsOrdered ==
  ASSUME NEW c, NEW s, NEW d, NEW t, IsPlace(c, s), IsPlace(d, t)
  PROVE  /\ List(c, s) \in Nat /\ List(d, t) \in Nat
         /\ c < d => List(c, s) < List(d, t)
         /\ c = d => (List(c, s) <= List(d, t) <=> s <= t)
<1>. DEFINE n == Bit[SecondLevel]
<1>1. /\ c \in Nat /\ s \in Nat /\ IF c = 0 THEN s <= 3 ELSE s < n
      /\ d \in Nat /\ t \in Nat /\ IF d = 0 THEN t <= 3 ELSE t < n
      /\ n \in Nat \ {0}
  BY SmallIs DEF IsPlace
<1>2. /\ List(c, s) = IF c = 0 THEN s ELSE (c - 1) * n + s + 4
      /\ List(d, t) = IF d = 0 THEN t ELSE (d - 1) * n + t + 4
  BY DEF List
<1>. HIDE DEF n
<1>3. (c # 0 => (c - 1) * n \in Nat) /\ (d # 0 => (d - 1) * n \in Nat)
  BY <1>1
<1>4. List(c, s) \in Nat /\ List(d, t) \in Nat
  BY <1>1, <1>2, <1>3
<1>5. ASSUME c < d PROVE List(c, s) < List(d, t)
  <2>1. CASE c = 0
    BY <1>1, <1>2, <1>3, <1>5, <2>1
  <2>2. CASE c # 0
    <3>1. (c - 1) * n + n <= (d - 1) * n
      BY <1>1, <1>5, Products
    <3>. QED BY <1>1, <1>2, <1>3, <1>5, <2>2, <3>1
  <2>. QED BY <2>1, <2>2
<1>6. ASSUME c = d PROVE List(c, s) <= List(d, t) <=> s <= t
  BY <1>1, <1>2, <1>3, <1>6
<1>. QED BY <1>4, <1>5, <1>6

LEMMA PlaceOf ==
  ASSUME NEW size \in Nat \ {0}
  PROVE  IsPlace(Class(size), Second(size)) /\ ListOf(size) = List(Class(size), Second(size)) /\ ListOf(size) \in Nat
<1>1. IsPlace(Class(size), Second(size))
  BY ClassIs DEF IsPlace
<1>. QED BY <1>1, ListsOrdered DEF ListOf

(* Larger sizes are not on lists before.                                     *)
LEMMA ListMonotone ==
  ASSUME NEW a \in Nat \ {0}, NEW b \in Nat \ {0}, a <= b
  PROVE  ListOf(a) <= ListOf(b)
<1>1. /\ Class(a) <= Class(b) /\ Class(a) \in Nat /\ Class(b) \in Nat
      /\ Class(a) = Class(b) /\ Class(a) # 0 => Second(a) <= Second(b)
  BY ClassMonotone, ClassIs
<1>2. ASSUME Class(a) = 0, Class(b) = 0 PROVE Second(a) <= Second(b)
  <2>1. Second(a) = (a - 1) \div (SmallSize \div 4) /\ Second(b) = (b - 1) \div (SmallSize \div 4)
    BY <1>2 DEF Second
  <2>2. a - 1 \in Int /\ b - 1 \in Int /\ a - 1 <= b - 1 /\ SmallSize \div 4 \in Nat \ {0}
    BY SmallIs
  <2>. QED BY <2>1, <2>2, DivMonotone
<1>3. Class(a) = Class(b) => Second(a) <= Second(b)
  BY <1>1, <1>2
<1>4. /\ IsPlace(Class(a), Second(a)) /\ ListOf(a) = List(Class(a), Second(a))
      /\ IsPlace(Class(b), Second(b)) /\ ListOf(b) = List(Class(b), Second(b))
  BY PlaceOf
<1>5. /\ Class(a) < Class(b) => ListOf(a) < ListOf(b)
      /\ Class(a) = Class(b) => (ListOf(a) <= ListOf(b) <=> Second(a) <= Second(b))
      /\ ListOf(a) \in Nat /\ ListOf(b) \in Nat
  BY <1>4, ListsOrdered
<1>. QED BY <1>1, <1>3, <1>5

(* A quotient grows by one with each divisor added.                          *)
LEMMA QuotientNext ==
  ASSUME NEW x \in Int, NEW a \in Nat \ {0}
  PROVE  (x + a) \div a = x \div a + 1
<1>. DEFINE q == x \div a
            r == (x + a) \div a
<1>1. /\ q \in Int /\ q * a <= x /\ x < q * a + a
      /\ r \in Int /\ r * a <= x + a /\ x + a < r * a + a
  BY Quotient
<1>. HIDE DEF q, r
<1>2. /\ q * a \in Int /\ r * a \in Int
      /\ (q + 1) * a = q * a + a /\ (r + 1) * a = r * a + a /\ (q + 2) * a = (q + 1) * a + a
  BY <1>1
<1>3. r <= q + 1
  <2>1. SUFFICES ASSUME q + 2 <= r PROVE FALSE
    BY <1>1
  <2>2. (q + 2) * a <= r * a
    BY <1>1, <2>1, Times
  <2>. QED BY <1>1, <1>2, <2>2
<1>4. q + 1 <= r
  <2>1. SUFFICES ASSUME r + 1 <= q + 1 PROVE FALSE
    BY <1>1
  <2>2. (r + 1) * a <= (q + 1) * a
    BY <1>1, <2>1, Times
  <2>. QED BY <1>1, <1>2, <2>2
<1>5. r = q + 1
  BY <1>1, <1>3, <1>4
<1>. QED BY <1>5 DEF q, r

(* The quotient of what lies between two multiples                           *)
LEMMA QuotientBetween ==
  ASSUME NEW x \in Int, NEW a \in Nat \ {0}, NEW k \in Int, k * a <= x, x < k * a + a
  PROVE  x \div a = k
<1>. DEFINE q == x \div a
<1>1. q \in Int /\ q * a <= x /\ x < q * a + a
  BY Quotient
<1>. HIDE DEF q
<1>2. /\ q * a \in Int /\ k * a \in Int
      /\ (q + 1) * a = q * a + a /\ (k + 1) * a = k * a + a
  BY <1>1
<1>3. ~ (q + 1 <= k)
  <2>1. SUFFICES ASSUME q + 1 <= k PROVE FALSE
    OBVIOUS
  <2>2. (q + 1) * a <= k * a
    BY <1>1, <2>1, Times
  <2>. QED BY <1>1, <1>2, <2>2
<1>4. ~ (k + 1 <= q)
  <2>1. SUFFICES ASSUME k + 1 <= q PROVE FALSE
    OBVIOUS
  <2>2. (k + 1) * a <= q * a
    BY <1>1, <2>1, Times
  <2>. QED BY <1>1, <1>2, <2>2
<1>5. q = k
  BY <1>1, <1>3, <1>4
<1>. QED BY <1>5 DEF q

LEMMA MsbUnique ==
  ASSUME NEW n \in Nat \ {0}, NEW k \in Nat, Bit[k] <= n, n < Bit[k + 1]
  PROVE  Msb(n) = k
<1>. DEFINE j == Msb(n)
<1>1. j \in Nat /\ Bit[j] <= n /\ n < Bit[j + 1]
  BY MsbIs
<1>. HIDE DEF j
<1>2. j + 1 \in Nat /\ k + 1 \in Nat
  BY <1>1
<1>3. Bit[j] \in Nat /\ Bit[k] \in Nat /\ Bit[j + 1] \in Nat /\ Bit[k + 1] \in Nat
  BY <1>1, <1>2, BitNext
<1>4. ~ (j + 1 <= k)
  <2>1. SUFFICES ASSUME j + 1 <= k PROVE FALSE
    OBVIOUS
  <2>2. Bit[j + 1] <= Bit[k]
    BY <1>2, <2>1, BitMonotone
  <2>. QED BY <1>1, <1>3, <2>2
<1>5. ~ (k + 1 <= j)
  <2>1. SUFFICES ASSUME k + 1 <= j PROVE FALSE
    OBVIOUS
  <2>2. Bit[k + 1] <= Bit[j]
    BY <1>1, <1>2, <2>1, BitMonotone
  <2>. QED BY <1>1, <1>3, <2>2
<1>6. j = k
  BY <1>1, <1>4, <1>5
<1>. QED BY <1>6 DEF j

(* A size of a class of its own, with the next step up to its next list       *)
LEMMA LargeParts ==
  ASSUME NEW size \in Nat \ {0}, size > SmallSize,
         NEW b, b = Bit[SecondLevel], NEW k, k = Msb(size) - SecondLevel, NEW step, step = Bit[k],
         NEW q, q = size \div step
  PROVE  /\ b \in Nat \ {0} /\ k \in Nat /\ Msb(size) \in Nat /\ step \in Nat \ {0} /\ q \in Int
         /\ Class(size) = Msb(size) - Shift /\ Class(size) \in Nat \ {0} /\ Second(size) = q - b
         /\ b <= q /\ q < 2 * b
         /\ Bit[Msb(size)] = b * step /\ Bit[Msb(size) + 1] = (2 * b) * step
         /\ Bit[Msb(size) + 2] = (4 * b) * step /\ Bit[k + 1] = 2 * step
         /\ Bit[Msb(size)] <= size /\ size < Bit[Msb(size) + 1] /\ b * step \in Nat
         /\ q * step <= size /\ size < q * step + step
<1>. DEFINE m == Msb(size)
<1>1. /\ k \in Nat /\ Class(size) = m - Shift /\ Class(size) \in Nat \ {0}
      /\ Second(size) = q - b /\ q - b \in 0 .. b - 1
  BY LargeClass
<1>2. b \in Nat \ {0} /\ SecondLevel \in Nat
  BY SmallIs, TlsfAssumption
<1>3. m \in Nat /\ Bit[m] <= size /\ size < Bit[m + 1]
  BY MsbIs
<1>4. step \in Nat \ {0} /\ Bit[k + 1] = 2 * step
  BY <1>1, BitNext
<1>5. q \in Int /\ q * step <= size /\ size < q * step + step
  <2>1. size \in Int
    OBVIOUS
  <2>2. /\ size \div step \in Int /\ (size \div step) * step <= size
        /\ size < (size \div step) * step + step
    BY <1>4, <2>1, Quotient
  <2>. QED BY <2>2
<1>6. Bit[m] = b * step
  <2>1. m = SecondLevel + k
    BY <1>1, <1>2, <1>3
  <2>2. Bit[SecondLevel + k] = b * step
    BY <1>1, <1>2, BitTimes
  <2>. QED BY <2>1, <2>2
<1>. HIDE DEF m
<1>7. Bit[m + 1] = 2 * Bit[m] /\ Bit[m + 2] = 2 * Bit[m + 1]
  <2>1. m + 1 \in Nat /\ (m + 1) + 1 = m + 2
    BY <1>3
  <2>2. Bit[(m + 1) + 1] = 2 * Bit[m + 1]
    BY <2>1, BitNext
  <2>. QED BY <1>3, <2>1, <2>2, BitNext
<1>8. b * step \in Nat /\ (2 * b) * step = 2 * (b * step) /\ (4 * b) * step = 4 * (b * step)
  BY <1>2, <1>4
<1>9. Bit[m + 1] = (2 * b) * step /\ Bit[m + 2] = (4 * b) * step
  BY <1>6, <1>7, <1>8
<1>10. b <= q /\ q < 2 * b
  BY <1>1, <1>2, <1>5
<1>. QED BY <1>1, <1>2, <1>3, <1>4, <1>5, <1>6, <1>8, <1>9, <1>10 DEF m

LEMMA LargeNext ==
  ASSUME NEW size \in Nat \ {0}, size > SmallSize, NEW next, next = size + Bit[Msb(size) - SecondLevel]
  PROVE  next \in Nat \ {0} /\ size <= next /\ next <= 2 * size /\ ListOf(next) = ListOf(size) + 1
<1>. DEFINE b == Bit[SecondLevel]
            m == Msb(size)
            k == m - SecondLevel
            step == Bit[k]
            q == size \div step
            c == Class(size)
<1>1. /\ b \in Nat \ {0} /\ k \in Nat /\ m \in Nat /\ step \in Nat \ {0} /\ q \in Int
      /\ c = m - Shift /\ c \in Nat \ {0} /\ Second(size) = q - b
      /\ b <= q /\ q < 2 * b
      /\ Bit[m] = b * step /\ Bit[m + 1] = (2 * b) * step
      /\ Bit[m + 2] = (4 * b) * step /\ Bit[k + 1] = 2 * step
      /\ Bit[m] <= size /\ size < Bit[m + 1] /\ b * step \in Nat
      /\ q * step <= size /\ size < q * step + step
  BY LargeParts
<1>2. next = size + step
  OBVIOUS
<1>. HIDE DEF b, m, k, step, q, c
<1>3. step <= b * step
  <2>1. 1 * step <= b * step
    BY <1>1, Times
  <2>. QED BY <1>1, <2>1
<1>4. next \in Nat \ {0} /\ size < next /\ next <= 2 * size /\ next > SmallSize
  BY <1>1, <1>2, <1>3, SmallIs
<1>5. /\ q * step \in Int /\ (q + 1) * step = q * step + step /\ (q + 2) * step = q * step + step + step
      /\ (2 * b) * step = 2 * (b * step) /\ (4 * b) * step = 4 * (b * step) /\ b * (2 * step) = 2 * (b * step)
  BY <1>1
<1>6. (q + 1) * step <= next /\ next < (q + 2) * step
  BY <1>1, <1>2, <1>5
<1>7. ListOf(size) = (c - 1) * b + (q - b) + 4
  BY <1>1 DEF ListOf, List, b, c
<1>8. c * b = (c - 1) * b + b /\ (c - 1) * b \in Int
  BY <1>1
<1>9. Shift \in Nat
  BY TlsfAssumption
<1>10. CASE q + 1 < 2 * b
  <2>1. next < Bit[m + 1]
    <3>1. (q + 2) * step <= (2 * b) * step
      BY <1>1, <1>10, Times
    <3>. QED BY <1>1, <1>4, <1>5, <1>6, <3>1
  <2>2. Msb(next) = m
    <3>1. Bit[m] <= next
      BY <1>1, <1>4
    <3>. QED BY <1>1, <1>4, <2>1, <3>1, MsbUnique
  <2>3. next \div step = q + 1
    <3>1. size \in Int
      OBVIOUS
    <3>2. (size + step) \div step = size \div step + 1
      BY <1>1, <3>1, QuotientNext
    <3>. QED BY <1>2, <3>2 DEF q
  <2>4. Class(next) = c /\ Second(next) = q + 1 - b
    <3>1. Class(next) = Msb(next) - Shift /\ Second(next) = next \div Bit[Msb(next) - SecondLevel] - b
      BY <1>4, LargeClass DEF b
    <3>. QED BY <1>1, <2>2, <2>3, <3>1 DEF k, step
  <2>5. ListOf(next) = (c - 1) * b + (q + 1 - b) + 4
    BY <1>1, <2>4 DEF ListOf, List, b
  <2>. QED BY <1>1, <1>4, <1>7, <1>8, <2>5
<1>11. CASE q + 1 = 2 * b
  <2>1. Bit[m + 1] <= next /\ next < Bit[m + 1] + step
    BY <1>1, <1>5, <1>6, <1>11
  <2>2. next < Bit[m + 2]
    BY <1>1, <1>3, <1>4, <1>5, <2>1
  <2>3. Msb(next) = m + 1
    <3>1. m + 1 \in Nat /\ (m + 1) + 1 = m + 2
      BY <1>1
    <3>2. Bit[m + 1] <= next /\ next < Bit[(m + 1) + 1]
      BY <2>1, <2>2, <3>1
    <3>. QED BY <1>4, <3>1, <3>2, MsbUnique
  <2>4. (m + 1) - SecondLevel = k + 1
    <3>1. SecondLevel \in Nat
      BY TlsfAssumption
    <3>. QED BY <1>1, <3>1 DEF k
  <2>5. next \div (2 * step) = b
    <3>1. 2 * step \in Nat \ {0}
      BY <1>1
    <3>2. b * (2 * step) <= next /\ next < b * (2 * step) + 2 * step
      BY <1>1, <1>4, <1>5, <2>1
    <3>3. next \in Int /\ b \in Int
      BY <1>1, <1>4
    <3>. DEFINE d == 2 * step
    <3>. HIDE DEF d
    <3>4. d \in Nat \ {0} /\ b * d <= next /\ next < b * d + d
      BY <3>1, <3>2 DEF d
    <3>5. next \div d = b
      BY <3>3, <3>4, QuotientBetween
    <3>. QED BY <3>5 DEF d
  <2>6. Class(next) = c + 1 /\ Second(next) = 0
    <3>1. Class(next) = Msb(next) - Shift /\ Second(next) = next \div Bit[Msb(next) - SecondLevel] - b
      BY <1>4, LargeClass DEF b
    <3>2. Second(next) = b - b
      BY <1>1, <2>3, <2>4, <2>5, <3>1
    <3>. QED BY <1>1, <1>9, <2>3, <3>1, <3>2
  <2>7. ListOf(next) = ((c + 1) - 1) * b + 0 + 4
    BY <1>1, <2>6 DEF ListOf, List, b
  <2>8. (c + 1) - 1 = c
    BY <1>1
  <2>. QED BY <1>1, <1>4, <1>7, <1>8, <1>11, <2>7, <2>8
<1>. QED BY <1>1, <1>10, <1>11

(* The next list's sizes are all large enough, and it is the list after: no   *)
(* list is skipped.                                                          *)
LEMMA NextIs ==
  ASSUME NEW size \in 1 .. Total
  PROVE  /\ NextSize(size) \in Nat \ {0} /\ Class(NextSize(size)) \in Classes
         /\ ListOf(NextSize(size)) = ListOf(size) + 1
<1>. DEFINE next == NextSize(size)
            step == SmallSize \div 4
<1>0. Total \in Nat \ {0} /\ size \in Nat \ {0} /\ 2 * Total \in Nat \ {0} /\ size <= Total
  BY TlsfAssumption
<1>1. SmallSize \in Nat /\ step \in Nat \ {0} /\ SmallSize = 4 * step
  BY SmallIs
<1>2. Class(2 * Total) \in Nat /\ Classes = 0 .. Class(2 * Total)
  BY <1>0, ClassIs DEF Classes
<1>3. ASSUME next \in Nat \ {0}, next <= 2 * Total PROVE Class(next) \in Classes
  BY <1>0, <1>2, <1>3, ClassIs, ClassMonotone
<1>4. CASE size > SmallSize
  <2>1. next = size + Bit[Msb(size) - SecondLevel]
    BY <1>4 DEF NextSize
  <2>2. next \in Nat \ {0} /\ next <= 2 * size /\ ListOf(next) = ListOf(size) + 1
    BY <1>0, <1>4, <2>1, LargeNext
  <2>. QED BY <1>0, <1>3, <2>2
<1>5. CASE size <= SmallSize - step
  <2>1. next = size + step
    BY <1>0, <1>1, <1>5 DEF NextSize
  <2>2. next \in Nat \ {0} /\ next <= SmallSize
    BY <1>0, <1>1, <1>5, <2>1
  <2>3. Class(next) = 0 /\ Class(size) = 0
    BY <1>0, <1>1, <1>5, <2>2, SmallClass
  <2>4. ListOf(next) = (next - 1) \div step /\ ListOf(size) = (size - 1) \div step
    BY <2>3 DEF ListOf, List, Second
  <2>5. next - 1 = (size - 1) + step /\ size - 1 \in Int
    BY <1>0, <1>1, <2>1
  <2>6. Class(next) \in Classes
    BY <1>2, <2>3
  <2>. HIDE DEF next, step
  <2>. QED BY <1>1, <2>2, <2>4, <2>5, <2>6, QuotientNext DEF next
<1>6. CASE size > SmallSize - step /\ size <= SmallSize
  <2>1. next = SmallSize + 1
    BY <1>0, <1>1, <1>6 DEF NextSize
  <2>2. next \in Nat \ {0} /\ next <= 2 * Total /\ next > SmallSize
    BY <1>0, <1>1, <1>6, <2>1
  <2>3. ListOf(size) = 3
    <3>1. Class(size) = 0
      BY <1>0, <1>6, SmallClass
    <3>2. ListOf(size) = (size - 1) \div step
      BY <3>1 DEF ListOf, List, Second
    <3>3. size - 1 \in Int /\ 3 * step <= size - 1 /\ size - 1 < 3 * step + step
      BY <1>0, <1>1, <1>6
    <3>. HIDE DEF step
    <3>. QED BY <1>1, <3>2, <3>3, QuotientBetween
  <2>4. Class(next) = 1 /\ Second(next) = 0
    <3>. DEFINE k == Shift + 1
                d == Bit[k - SecondLevel]
                b == Bit[SecondLevel]
    <3>1. Shift \in Nat /\ k \in Nat /\ SecondLevel \in Nat /\ k - SecondLevel \in Nat \ {0} /\ k - Shift = 1
      BY TlsfAssumption
    <3>2. Bit[k] = SmallSize /\ Bit[k + 1] = 2 * SmallSize
      BY <3>1, BitNext DEF SmallSize
    <3>3. Msb(next) = k
      <4>1. Bit[k] <= next /\ next < Bit[k + 1]
        BY <1>1, <2>1, <3>2
      <4>. HIDE DEF k, next
      <4>. QED BY <2>2, <3>1, <4>1, MsbUnique
    <3>4. d \in Nat \ {0} /\ 1 < d /\ b \in Nat \ {0}
      <4>1. k - SecondLevel < d /\ d \in Nat \ {0}
        BY <3>1, BitNext
      <4>. QED BY <3>1, <4>1, SmallIs
    <3>5. SmallSize = b * d
      <4>1. SecondLevel + (k - SecondLevel) = k
        BY <3>1
      <4>2. Bit[SecondLevel + (k - SecondLevel)] = b * d
        BY <3>1, BitTimes
      <4>. QED BY <3>2, <4>1, <4>2
    <3>6. /\ Class(next) = Msb(next) - Shift
          /\ Second(next) = next \div Bit[Msb(next) - SecondLevel] - b
      BY <2>2, LargeClass
    <3>. HIDE DEF k, next, b
    <3>7. Second(next) = next \div d - b
      BY <3>3, <3>6
    <3>. HIDE DEF d
    <3>8. next \div d = b
      <4>1. b * d <= next /\ next < b * d + d /\ b \in Int
        BY <1>1, <2>1, <3>4, <3>5
      <4>. QED BY <2>2, <3>4, <4>1, QuotientBetween
    <3>. QED BY <3>1, <3>3, <3>4, <3>6, <3>7, <3>8
  <2>5. ListOf(next) = (1 - 1) * Bit[SecondLevel] + 0 + 4
    BY <2>4 DEF ListOf, List
  <2>6. (1 - 1) * Bit[SecondLevel] = 0
    BY SmallIs
  <2>. QED BY <1>3, <2>2, <2>3, <2>5, <2>6
<1>. QED BY <1>0, <1>1, <1>4, <1>5, <1>6

(* What FindFreeBlock answers: the first list from this one on with a block   *)
Found(F, from, answer) ==
  \/ answer = {} /\ \A b \in F : ListOf(b.size) < from
  \/ \E l \in Nat : /\ answer = {l} /\ from <= l
                    /\ \A b \in F : from <= ListOf(b.size) => l <= ListOf(b.size)

LEMMA LeastIs ==
  ASSUME NEW S \in SUBSET Nat, S # {}, NEW l, l = CHOOSE x \in S : \A y \in S : x <= y
  PROVE  l \in S /\ \A y \in S : l <= y
<1>1. \E x \in S : \A y \in S : x <= y
  BY LeastOf
<1>. QED BY <1>1

LEMMA FoundIs ==
  ASSUME NEW T, NEW m, Placed(m, T), NEW size \in Nat \ {0}, Class(size) \in Classes
  PROVE  Found(FreeOf(m.blocks), ListOf(size), FindFree(m, size))
<1>. DEFINE F == FreeOf(m.blocks)
            c == Class(size)
            s == Second(size)
            here == {t \in m.inner[c] : t >= s}
            above == {d \in m.classes : d > c}
            Least(S) == CHOOSE x \in S : \A y \in S : x <= y
            d == CHOOSE x \in above : \A y \in above : x <= y
            answer == FindFree(m, size)
<1>1. /\ BitsRight(m.inner, m.classes, F) /\ Keyed(F) /\ m.classes \in SUBSET Classes
  BY FreeKeyed DEF Placed, Books, Meta
<1>2. /\ \A k \in Classes : m.inner[k] \in SUBSET Nat /\ m.inner[k] = {Second(b.size) : b \in OfClass(F, k)}
      /\ \A k \in Classes : k \in m.classes <=> m.inner[k] # {}
      /\ Classes \in SUBSET Nat
  <2>1. Classes \in SUBSET Nat
    BY DEF Classes
  <2>. QED BY <1>1, <2>1 DEF BitsRight
<1>3. \A b \in F : /\ b.size \in Nat \ {0} /\ Class(b.size) \in Classes
                   /\ Second(b.size) \in m.inner[Class(b.size)] /\ Class(b.size) \in m.classes
  <2>. TAKE b \in F
  <2>1. b.size \in Nat \ {0} /\ Class(b.size) \in Classes
    BY <1>1, KeyedIs
  <2>2. b \in OfClass(F, Class(b.size))
    BY DEF OfClass
  <2>. DEFINE k == Class(b.size)
  <2>3. Second(b.size) \in {Second(f.size) : f \in OfClass(F, k)}
    BY <2>2
  <2>. HIDE DEF k, F
  <2>4. Second(b.size) \in m.inner[k] /\ k \in m.classes
    BY <1>2, <2>1, <2>3 DEF k
  <2>. QED BY <2>1, <2>4 DEF k
<1>4. IsPlace(c, s) /\ ListOf(size) = List(c, s) /\ ListOf(size) \in Nat
  BY PlaceOf
<1>5. \A k \in Classes : \A t \in m.inner[k] : IsPlace(k, t)
  <2>. TAKE k \in Classes
  <2>. TAKE t \in m.inner[k]
  <2>1. PICK b \in OfClass(F, k) : t = Second(b.size)
    BY <1>2
  <2>2. b \in F /\ Class(b.size) = k
    BY DEF OfClass
  <2>. QED BY <1>3, <2>1, <2>2, PlaceOf
<1>6. \A b \in F : IsPlace(Class(b.size), Second(b.size)) /\ ListOf(b.size) = List(Class(b.size), Second(b.size))
                   /\ ListOf(b.size) \in Nat
  BY <1>3, PlaceOf
<1>7. answer = IF here # {} THEN {List(c, Least(here))}
               ELSE IF above = {} THEN {} ELSE {List(d, Least(m.inner[d]))}
  BY DEF FindFree
<1>8. here \in SUBSET Nat /\ above \in SUBSET Nat /\ c \in Nat /\ s \in Nat
  BY <1>1, <1>2, ClassIs
<1>9. \A b \in F : /\ Class(b.size) = c /\ s <= Second(b.size) => Second(b.size) \in here
                   /\ c < Class(b.size) => Class(b.size) \in above
  BY <1>3, <1>8, <1>2
<1>10. \A h \in here : h \in m.inner[c] /\ s <= h /\ h \in Nat
  BY <1>8
<1>11. \A k \in above : k \in Classes /\ k \in Nat /\ c < k /\ m.inner[k] # {} /\ m.inner[k] \in SUBSET Nat
  BY <1>1, <1>2, <1>8
<1>12. \A b \in F : Class(b.size) \in Nat /\ Second(b.size) \in Nat
  BY <1>6 DEF IsPlace
<1>. DEFINE a == Least(here)
            e == Least(m.inner[d])
<1>13. here # {} => a \in here /\ \A y \in here : a <= y
  BY <1>8, LeastIs
<1>14. above # {} => /\ d \in above /\ \A y \in above : d <= y
                     /\ e \in m.inner[d] /\ \A y \in m.inner[d] : e <= y
  <2>1. above # {} => d \in above /\ \A y \in above : d <= y
    BY <1>8, LeastIs
  <2>. HIDE DEF d, above
  <2>2. above # {} => e \in m.inner[d] /\ \A y \in m.inner[d] : e <= y
    BY <1>11, <2>1, LeastIs
  <2>. QED BY <2>1, <2>2
<1>15. answer = IF here # {} THEN {List(c, a)} ELSE IF above = {} THEN {} ELSE {List(d, e)}
  BY <1>7
<1>. HIDE DEF a, e, d, Least, here, above, answer, c, s, F
<1>16. CASE here # {}
  <2>1. IsPlace(c, a) /\ a \in Nat /\ s <= a
    BY <1>5, <1>10, <1>13, <1>16 DEF c
  <2>2. ListOf(size) <= List(c, a) /\ List(c, a) \in Nat
    BY <1>4, <2>1, ListsOrdered
  <2>3. ASSUME NEW b \in F, ListOf(size) <= ListOf(b.size) PROVE List(c, a) <= ListOf(b.size)
    <3>. DEFINE k == Class(b.size)
                t == Second(b.size)
    <3>1. IsPlace(k, t) /\ ListOf(b.size) = List(k, t) /\ ListOf(b.size) \in Nat /\ k \in Nat /\ t \in Nat
      BY <1>6, <1>12
    <3>2. /\ k = c /\ s <= t => t \in here
          /\ c < k => k \in above
      BY <1>9
    <3>. HIDE DEF k, t
    <3>3. k < c => List(k, t) < List(c, s)
      BY <1>4, <3>1, ListsOrdered
    <3>4. /\ List(c, s) \in Nat
          /\ c = k => (List(c, s) <= List(k, t) <=> s <= t)
      BY <1>4, <3>1, ListsOrdered
    <3>5. /\ c < k => List(c, a) < List(k, t)
          /\ c = k => (List(c, a) <= List(k, t) <=> a <= t)
      BY <2>1, <3>1, ListsOrdered
    <3>. QED BY <1>4, <1>8, <1>13, <1>16, <2>2, <2>3, <3>1, <3>2, <3>3, <3>4, <3>5
  <2>4. answer = {List(c, a)}
    BY <1>15, <1>16
  <2>. QED BY <2>2, <2>3, <2>4 DEF Found, answer, F
<1>17. CASE here = {} /\ above = {}
  <2>1. ASSUME NEW b \in F PROVE ListOf(b.size) < ListOf(size)
    <3>. DEFINE k == Class(b.size)
                t == Second(b.size)
    <3>1. IsPlace(k, t) /\ ListOf(b.size) = List(k, t) /\ ListOf(b.size) \in Nat /\ k \in Nat /\ t \in Nat
      BY <1>6, <1>12
    <3>2. ~ (k = c /\ s <= t) /\ ~ (c < k)
      BY <1>9, <1>17
    <3>. HIDE DEF k, t
    <3>3. k < c => List(k, t) < List(c, s)
      BY <1>4, <3>1, ListsOrdered
    <3>4. /\ List(c, s) \in Nat
          /\ c = k => (List(c, s) <= List(k, t) <=> s <= t)
      BY <1>4, <3>1, ListsOrdered
    <3>. QED BY <1>4, <1>8, <3>1, <3>2, <3>3, <3>4
  <2>2. answer = {}
    BY <1>15, <1>17
  <2>. QED BY <2>1, <2>2 DEF Found, answer, F
<1>18. CASE here = {} /\ above # {}
  <2>1. d \in above /\ e \in m.inner[d]
    BY <1>14, <1>18
  <2>2. IsPlace(d, e) /\ c < d /\ d \in Nat /\ e \in Nat /\ d \in Classes
    BY <1>5, <1>11, <2>1
  <2>3. ListOf(size) <= List(d, e) /\ List(d, e) \in Nat
    BY <1>4, <2>2, ListsOrdered
  <2>4. ASSUME NEW b \in F, ListOf(size) <= ListOf(b.size) PROVE List(d, e) <= ListOf(b.size)
    <3>. DEFINE k == Class(b.size)
                t == Second(b.size)
    <3>1. /\ IsPlace(k, t) /\ ListOf(b.size) = List(k, t) /\ ListOf(b.size) \in Nat /\ k \in Nat /\ t \in Nat
          /\ t \in m.inner[k]
      BY <1>3, <1>6, <1>12
    <3>2. ~ (k = c /\ s <= t) /\ (c < k => k \in above)
      BY <1>9, <1>18
    <3>. HIDE DEF k, t
    <3>3. k < c => List(k, t) < List(c, s)
      BY <1>4, <3>1, ListsOrdered
    <3>4. /\ List(c, s) \in Nat
          /\ c = k => (List(c, s) <= List(k, t) <=> s <= t)
      BY <1>4, <3>1, ListsOrdered
    <3>5. /\ d < k => List(d, e) < List(k, t)
          /\ d = k => (List(d, e) <= List(k, t) <=> e <= t)
      BY <2>2, <3>1, ListsOrdered
    <3>6. c < k
      BY <1>4, <1>8, <2>4, <3>1, <3>2, <3>3, <3>4
    <3>7. d <= k /\ (d = k => e <= t)
      BY <1>14, <1>18, <3>1, <3>2, <3>6
    <3>. QED BY <2>2, <2>3, <3>1, <3>5, <3>7
  <2>5. answer = {List(d, e)}
    BY <1>15, <1>18
  <2>. QED BY <2>3, <2>4, <2>5 DEF Found, answer, F
<1>. QED BY <1>16, <1>17, <1>18

-----------------------------------------------------------------------------
(* What is looked at                                                         *)

(* The block at that offset is among those tried.                            *)
Looked(tried, at) == \E i \in DOMAIN tried : tried[i].at = at

LEMMA LookedInBoth ==
  ASSUME NEW S, NEW a \in Seq(S), NEW b \in Seq(S), NEW at
  PROVE  a \o b \in Seq(S) /\ (Looked(a, at) \/ Looked(b, at) => Looked(a \o b, at))
<1>1. /\ \A x \in DOMAIN a : x \in DOMAIN (a \o b) /\ (a \o b)[x] = a[x]
      /\ \A x \in DOMAIN b : Len(a) + x \in DOMAIN (a \o b) /\ (a \o b)[Len(a) + x] = b[x]
      /\ a \o b \in Seq(S)
  OBVIOUS
<1>2. ASSUME Looked(a, at) PROVE Looked(a \o b, at)
  BY <1>1, <1>2 DEF Looked
<1>3. ASSUME Looked(b, at) PROVE Looked(a \o b, at)
  BY <1>1, <1>3 DEF Looked
<1>. QED BY <1>1, <1>2, <1>3

LEMMA OnListsAll ==
  ASSUME NEW T, NEW m, Placed(m, T), NEW ls, NEW b \in FreeOf(m.blocks), ListOf(b.size) \in ls
  PROVE  Looked(OnLists(m, ls), b.at)
<1>. DEFINE Entries(l) == [j \in DOMAIN m.lists[l] |-> [list |-> l, at |-> m.lists[l][j]]]
            ss == [i \in 1 .. ListsCount |-> IF i - 1 \in ls THEN Entries(i - 1) ELSE <<>>]
            F == FreeOf(m.blocks)
            S == [list : Nat, at : Nat]
            l == ListOf(b.size)
<1>1. ListsRight(m.lists, F) /\ Keyed(F) /\ Laid(m.blocks)
  BY FreeKeyed DEF Placed, Books
<1>2. ListsCount \in Nat /\ l \in 0 .. ListsCount - 1 /\ l + 1 \in 1 .. ListsCount /\ (l + 1) - 1 = l
  <2>1. ListsCount \in Nat \ {0} /\ ListOf(b.size) \in 0 .. ListsCount - 1
    BY <1>1, KeyedIs
  <2>. QED BY <2>1
<1>3. \A k \in 0 .. ListsCount - 1 : /\ m.lists[k] \in Seq(Nat)
                                     /\ ToSet(m.lists[k]) = {f.at : f \in OnList(F, k)}
  BY <1>1 DEF ListsRight
<1>4. ASSUME NEW k \in 0 .. ListsCount - 1 PROVE Entries(k) \in Seq(S)
  <2>1. DOMAIN m.lists[k] = 1 .. Len(m.lists[k]) /\ Len(m.lists[k]) \in Nat
        /\ \A j \in DOMAIN m.lists[k] : m.lists[k][j] \in Nat
    BY <1>3
  <2>. QED BY <1>2, <2>1, SeqDef
<1>5. \E j \in DOMAIN m.lists[l] : m.lists[l][j] = b.at
  <2>1. b \in OnList(F, l)
    BY DEF OnList
  <2>2. b.at \in ToSet(m.lists[l])
    BY <1>2, <1>3, <2>1
  <2>. QED BY <2>2 DEF ToSet
<1>6. PICK j \in DOMAIN m.lists[l] : m.lists[l][j] = b.at
  BY <1>5
<1>7. j \in DOMAIN Entries(l) /\ Entries(l)[j].at = b.at
  BY <1>6
<1>8. l \in ls
  OBVIOUS
<1>. HIDE DEF Entries, S, l
<1>9. ASSUME NEW i \in 1 .. ListsCount PROVE ss[i] \in Seq(S)
  <2>1. i - 1 \in 0 .. ListsCount - 1
    BY <1>2
  <2>2. <<>> \in Seq(S)
    OBVIOUS
  <2>. QED BY <1>4, <2>1, <2>2
<1>10. ss \in Seq(Seq(S)) /\ Len(ss) = ListsCount
  BY <1>2, <1>9, SeqDef
<1>11. ss[l + 1] = Entries(l)
  BY <1>2, <1>8
<1>12. OnLists(m, ls) = FlattenSeq(ss)
  BY DEF OnLists, Entries
<1>. HIDE DEF ss
<1>13. l + 1 \in 1 .. Len(ss) /\ j \in DOMAIN ss[l + 1]
  BY <1>2, <1>7, <1>10, <1>11
<1>14. \E x \in DOMAIN FlattenSeq(ss) : FlattenSeq(ss)[x] = ss[l + 1][j]
  BY <1>10, <1>13, FlattenedAll
<1>. QED BY <1>7, <1>11, <1>12, <1>14 DEF Looked

(* r has all that is in the members of ss, and nothing but members of S.       *)
Joined(ss, n, S, r) ==
  /\ r \in Seq(S)
  /\ \A i \in 1 .. n : \A j \in DOMAIN ss[i] : \E x \in DOMAIN r : r[x] = ss[i][j]

LEMMA FlattenedBoth ==
  ASSUME NEW S, NEW n \in Nat, NEW ss \in [1 .. n -> Seq(S)]
  PROVE  Joined(ss, n, S, FlattenSeq(ss))
<1>1. ss \in Seq(Seq(S))
  BY SeqDef
<1>2. Len(ss) = n
  BY <1>1
<1>. QED BY <1>1, <1>2, FlattenedIn, FlattenedAll DEF Joined

ByOffset(ss, m, size) ==
  ss = [k \in 1 .. NullIndex(m) - 1 |->
          IF IsFree(m.blocks[k]) /\ m.blocks[k].size >= size
          THEN <<[list |-> ListOf(m.blocks[k].size), at |-> m.blocks[k].at]>>
          ELSE <<>>]

(* By offset every free block that is large enough is looked at.              *)
LEMMA ByOffsetAll ==
  ASSUME NEW T, NEW m, Placed(m, T), NEW size,
         NEW ss, ByOffset(ss, m, size)
  PROVE  /\ FlattenSeq(ss) \in Seq(Tried(m))
         /\ \A b \in FreeOf(m.blocks) : b.size >= size => Looked(FlattenSeq(ss), b.at)
<1>. DEFINE N == NullIndex(m) - 1
            Entry(k) == [list |-> ListOf(m.blocks[k].size), at |-> m.blocks[k].at]
            Large(k) == IsFree(m.blocks[k]) /\ m.blocks[k].size >= size
            S == Tried(m)
<1>1. Laid(m.blocks) /\ NullIndex(m) = Len(m.blocks) /\ N \in Nat
  BY DEF Placed, NullIndex, Laid
<1>2. \A b \in FreeOf(m.blocks) : \E k \in 1 .. N : b = m.blocks[k] /\ IsFree(b)
  BY <1>1, IndexOf DEF FreeOf
<1>3. \A k \in 1 .. N : Large(k) => Entry(k) \in S
  <2>. TAKE k \in 1 .. N
  <2>. HAVE Large(k)
  <2>1. m.blocks[k] \in FreeOf(m.blocks)
    BY <1>1 DEF FreeOf, PhysicalOf
  <2>. QED BY <2>1 DEF Tried
<1>4. ss = [i \in 1 .. N |-> IF Large(i) THEN <<Entry(i)>> ELSE <<>>]
  BY DEF ByOffset
<1>5. \A k : Entry(k).at = m.blocks[k].at
  OBVIOUS
<1>6. \A b \in FreeOf(m.blocks) : b.size >= size => \E k \in 1 .. N : Large(k) /\ Entry(k).at = b.at
  BY <1>2, <1>5
<1>. HIDE DEF Entry, Large, S, N
<1>7. \A i \in 1 .. N : ss[i] = IF Large(i) THEN <<Entry(i)>> ELSE <<>>
  BY <1>4
<1>8. \A i \in 1 .. N : (IF Large(i) THEN <<Entry(i)>> ELSE <<>>) \in Seq(S)
  <2>. TAKE i \in 1 .. N
  <2>1. Large(i) => <<Entry(i)>> \in Seq(S)
    BY <1>3
  <2>2. <<>> \in Seq(S)
    OBVIOUS
  <2>. QED BY <2>1, <2>2
<1>9. ss \in [1 .. N -> Seq(S)]
  BY <1>4, <1>8
<1>10. Joined(ss, N, S, FlattenSeq(ss))
  BY <1>1, <1>9, FlattenedBoth
<1>11. ASSUME NEW b \in FreeOf(m.blocks), b.size >= size PROVE Looked(FlattenSeq(ss), b.at)
  <2>1. PICK k \in 1 .. N : Large(k) /\ Entry(k).at = b.at
    BY <1>6, <1>11
  <2>2. ss[k] = <<Entry(k)>>
    BY <1>7, <2>1
  <2>3. 1 \in DOMAIN <<Entry(k)>> /\ <<Entry(k)>>[1] = Entry(k)
    OBVIOUS
  <2>4. 1 \in DOMAIN ss[k] /\ ss[k][1] = Entry(k)
    BY <2>2, <2>3
  <2>5. PICK x \in DOMAIN FlattenSeq(ss) : FlattenSeq(ss)[x] = ss[k][1]
    BY <1>10, <2>4 DEF Joined
  <2>. QED BY <2>1, <2>4, <2>5 DEF Looked
<1>. QED BY <1>10, <1>11 DEF S, Joined

(* The two lists a size is looked up in and those after the second have every *)
(* free block that is large enough.                                          *)
LEMMA ListsHaveAll ==
  ASSUME NEW T, NEW m, Placed(m, T), NEW size \in 1 .. Total, NEW b \in FreeOf(m.blocks), size <= b.size,
         NEW next, next = FindFree(m, NextSize(size)), NEW prev, prev = FindFree(m, size),
         NEW rest, rest = {l \in 0 .. ListsCount - 1 : \E n \in next : l > n}
  PROVE  ListOf(b.size) \in next \/ ListOf(b.size) \in prev \/ ListOf(b.size) \in rest
<1>. DEFINE F == FreeOf(m.blocks)
            l == ListOf(b.size)
            from == ListOf(size)
<1>1. size \in Nat \ {0} /\ Class(size) \in Classes
  BY ListInRange
<1>2. b.size \in Nat \ {0} /\ l \in 0 .. ListsCount - 1 /\ ListsCount \in Nat
  <2>1. Keyed(F)
    BY FreeKeyed DEF Placed
  <2>. QED BY <2>1, KeyedIs
<1>3. from <= l /\ from \in Nat /\ l \in Nat
  BY <1>1, <1>2, ListMonotone, PlaceOf
<1>4. Found(F, from, prev)
  BY <1>1, FoundIs
<1>5. Found(F, from + 1, next)
  <2>1. /\ NextSize(size) \in Nat \ {0} /\ Class(NextSize(size)) \in Classes
        /\ ListOf(NextSize(size)) = from + 1
    BY NextIs
  <2>2. Found(F, ListOf(NextSize(size)), next)
    BY <2>1, FoundIs
  <2>. QED BY <2>1, <2>2
<1>6. b \in F
  OBVIOUS
<1>. HIDE DEF F, from
<1>7. PICK p \in Nat : prev = {p} /\ from <= p /\ p <= l
  BY <1>3, <1>4, <1>6 DEF Found
<1>8. CASE l = p
  BY <1>7, <1>8
<1>9. CASE l # p
  <2>1. from + 1 <= l
    BY <1>3, <1>7, <1>9
  <2>2. PICK n \in Nat : next = {n} /\ n <= l
    BY <1>3, <1>5, <1>6, <2>1 DEF Found
  <2>3. l # n => l > n
    BY <1>3, <2>2
  <2>. QED BY <1>2, <2>2, <2>3
<1>. QED BY <1>8, <1>9

(* Whatever the strategy, every free block that is large enough is looked at,  *)
(* and the null block.                                                       *)
LEMMA SearchAll ==
  ASSUME NEW T, NEW m, Placed(m, T), NEW size \in 1 .. Total, NEW strategy \in Strategies,
         NEW b \in FreeOf(m.blocks) \union {NullOf(m.blocks)}, b \in FreeOf(m.blocks) => size <= b.size
  PROVE  /\ Search(m, size, strategy) \in Seq(Tried(m))
         /\ Looked(Search(m, size, strategy), b.at)
<1>. DEFINE S == Tried(m)
            next == FindFree(m, NextSize(size))
            prev == FindFree(m, size)
            after == {l \in 0 .. ListsCount - 1 : \E x \in next : l > x}
            null == <<[list |-> ListsCount, at |-> m.blocks[NullIndex(m)].at]>>
            n == OnLists(m, next)
            p == OnLists(m, prev)
            rest == OnLists(m, after)
            ss == [k \in 1 .. NullIndex(m) - 1 |->
                     IF IsFree(m.blocks[k]) /\ m.blocks[k].size >= size
                     THEN <<[list |-> ListOf(m.blocks[k].size), at |-> m.blocks[k].at]>>
                     ELSE <<>>]
            byOffset == FlattenSeq(ss)
            first == SubSeq(n, 1, IF n = <<>> THEN 0 ELSE 1)
            result == Search(m, size, strategy)
            F == FreeOf(m.blocks)
            In(s) == Looked(s, b.at)
<1>0. Laid(m.blocks) /\ NullIndex(m) = Len(m.blocks) /\ Len(m.blocks) \in Nat \ {0} /\ size \in Int
  BY TlsfAssumption DEF Placed, NullIndex, Laid
<1>1. result \in Seq(S)
  BY OrderedTried DEF Search
<1>2. n \in Seq(S) /\ p \in Seq(S) /\ rest \in Seq(S)
  BY OnListsTried
<1>3. null \in Seq(S) /\ (b = NullOf(m.blocks) => In(null))
  <2>1. [list |-> ListsCount, at |-> m.blocks[NullIndex(m)].at] \in S
    BY <1>0 DEF Tried, NullOf
  <2>2. DOMAIN null = {1} /\ null[1].at = NullOf(m.blocks).at
    BY <1>0 DEF NullOf
  <2>. QED BY <2>1, <2>2 DEF Looked
<1>4. ASSUME b \in F PROVE In(n) \/ In(p) \/ In(rest)
  <2>1. ListOf(b.size) \in next \/ ListOf(b.size) \in prev \/ ListOf(b.size) \in after
    BY <1>4, ListsHaveAll
  <2>. HIDE DEF next, prev, after
  <2>. QED BY <1>4, <2>1, OnListsAll
<1>5. byOffset \in Seq(S) /\ (b \in F => In(byOffset))
  <2>1. /\ byOffset \in Seq(Tried(m))
        /\ \A f \in FreeOf(m.blocks) : f.size >= size => Looked(byOffset, f.at)
    <3>1. ByOffset(ss, m, size)
      BY DEF ByOffset
    <3>. HIDE DEF ss
    <3>. QED BY <3>1, ByOffsetAll
  <2>2. ASSUME b \in F PROVE b.size \in Int /\ b.size >= size
    <3>1. Keyed(F)
      BY FreeKeyed DEF Placed
    <3>2. b.size \in Nat \ {0}
      BY <2>2, <3>1, KeyedIs
    <3>. QED BY <1>0, <2>2, <3>2
  <2>. HIDE DEF byOffset
  <2>. QED BY <2>1, <2>2
<1>6. result =
        CASE m.freeCount = 0 -> null
          [] m.freeCount # 0 /\ strategy = "time" -> first \o null \o n \o p \o rest
          [] m.freeCount # 0 /\ strategy = "memory" -> p \o null \o n \o rest
          [] m.freeCount # 0 /\ strategy = "offset" -> byOffset \o null
          [] m.freeCount # 0 /\ strategy = "none" -> n \o null \o p \o rest
  BY Zenon DEF Search, Ordered
<1>7. m.freeCount = 0 => F = {}
  <2>1. CountsRight(m.freeCount, m.freeSize, F) /\ Keyed(F)
    BY FreeKeyed DEF Placed, Books
  <2>. QED BY <2>1, FS_EmptySet DEF CountsRight, Keyed
<1>. HIDE DEF S, null, n, p, rest, byOffset
<1>9. first \in Seq(S)
  <2>1. n # <<>> => Len(n) >= 1
    BY <1>2
  <2>. QED BY <1>2, <2>1
<1>. HIDE DEF first, F, In
<1>10. ASSUME NEW x \in Seq(S), NEW y \in Seq(S)
       PROVE  x \o y \in Seq(S) /\ (In(x) \/ In(y) => In(x \o y))
  BY LookedInBoth DEF In
<1>11. In(n) \/ In(p) \/ In(rest) \/ In(null)
  BY <1>3, <1>4 DEF F
<1>12. CASE m.freeCount = 0
  <2>1. result = null
    BY <1>6, <1>12
  <2>. QED BY <1>1, <1>3, <1>7, <1>12, <2>1 DEF F, In, S
<1>13. CASE m.freeCount # 0 /\ strategy = "time"
  <2>1. result = first \o null \o n \o p \o rest
    BY <1>6, <1>13
  <2>2. first \o null \in Seq(S) /\ (In(null) => In(first \o null))
    BY <1>3, <1>9, <1>10
  <2>. DEFINE x2 == first \o null
              x3 == x2 \o n
              x4 == x3 \o p
  <2>. HIDE DEF x2
  <2>3. x3 \in Seq(S) /\ (In(x2) \/ In(n) => In(x3))
    BY <1>2, <1>10, <2>2 DEF x2
  <2>. HIDE DEF x3
  <2>4. x4 \in Seq(S) /\ (In(x3) \/ In(p) => In(x4))
    BY <1>2, <1>10, <2>3
  <2>. HIDE DEF x4
  <2>5. In(x4) \/ In(rest) => In(x4 \o rest)
    BY <1>2, <1>10, <2>4
  <2>6. In(x4 \o rest)
    BY <1>11, <2>2, <2>3, <2>4, <2>5 DEF x2
  <2>7. result = x4 \o rest
    BY <2>1 DEF x2, x3, x4
  <2>. QED BY <1>1, <2>6, <2>7 DEF In, S
<1>14. CASE m.freeCount # 0 /\ strategy = "memory"
  <2>1. result = p \o null \o n \o rest
    BY <1>6, <1>14
  <2>. DEFINE x2 == p \o null
              x3 == x2 \o n
  <2>2. x2 \in Seq(S) /\ (In(p) \/ In(null) => In(x2))
    BY <1>2, <1>3, <1>10
  <2>. HIDE DEF x2
  <2>3. x3 \in Seq(S) /\ (In(x2) \/ In(n) => In(x3))
    BY <1>2, <1>10, <2>2
  <2>. HIDE DEF x3
  <2>4. In(x3) \/ In(rest) => In(x3 \o rest)
    BY <1>2, <1>10, <2>3
  <2>5. In(x3 \o rest)
    BY <1>11, <2>2, <2>3, <2>4
  <2>6. result = x3 \o rest
    BY <2>1 DEF x2, x3
  <2>. QED BY <1>1, <2>5, <2>6 DEF In, S
<1>15. CASE m.freeCount # 0 /\ strategy = "offset"
  <2>1. result = byOffset \o null
    BY <1>6, <1>15
  <2>2. In(byOffset) \/ In(null) => In(byOffset \o null)
    BY <1>3, <1>5, <1>10
  <2>3. In(byOffset) \/ In(null)
    BY <1>3, <1>5 DEF F
  <2>. QED BY <1>1, <2>1, <2>2, <2>3 DEF In, S
<1>16. CASE m.freeCount # 0 /\ strategy = "none"
  <2>1. result = n \o null \o p \o rest
    BY <1>6, <1>16
  <2>. DEFINE x2 == n \o null
              x3 == x2 \o p
  <2>2. x2 \in Seq(S) /\ (In(n) \/ In(null) => In(x2))
    BY <1>2, <1>3, <1>10
  <2>. HIDE DEF x2
  <2>3. x3 \in Seq(S) /\ (In(x2) \/ In(p) => In(x3))
    BY <1>2, <1>10, <2>2
  <2>. HIDE DEF x3
  <2>4. In(x3) \/ In(rest) => In(x3 \o rest)
    BY <1>2, <1>10, <2>3
  <2>5. In(x3 \o rest)
    BY <1>11, <2>2, <2>3, <2>4
  <2>6. result = x3 \o rest
    BY <2>1 DEF x2, x3
  <2>. QED BY <1>1, <2>5, <2>6 DEF In, S
<1>. QED BY <1>12, <1>13, <1>14, <1>15, <1>16 DEF Strategies

LEMMA FirstOfAny ==
  ASSUME NEW tried, FirstOf(tried) = {}, NEW i \in DOMAIN tried, DOMAIN tried \in SUBSET Nat
  PROVE  tried[i].to = {}
<1>. DEFINE fitting == {j \in DOMAIN tried : tried[j].to # {}}
            j == CHOOSE x \in fitting : \A y \in fitting : x <= y
<1>1. SUFFICES ASSUME fitting # {} PROVE FALSE
  OBVIOUS
<1>2. FirstOf(tried) = {[list |-> tried[j].list, block |-> tried[j].at, to |-> to] : to \in tried[j].to}
  BY <1>1 DEF FirstOf
<1>3. \E x \in fitting : \A y \in fitting : x <= y
  BY <1>1, LeastOf
<1>4. j \in fitting
  BY <1>3
<1>. HIDE DEF j
<1>5. PICK to \in tried[j].to : TRUE
  BY <1>4
<1>. QED BY <1>2, <1>5

(* No free block is larger than what is counted as free.                     *)
LEMMA CountedAtLeast ==
  ASSUME NEW F, Keyed(F), NEW count, NEW size, CountsRight(count, size, F), NEW b \in F
  PROVE  size \in Nat /\ b.size <= size
<1>. DEFINE f == [c \in F |-> c.size]
            g == [c \in F \ {b} |-> c.size]
<1>1. \A c \in F : c.size \in Nat
  BY DEF Keyed, Blocks
<1>2. Sizing(f)
  BY <1>1 DEF Sizing, Keyed
<1>3. b \in DOMAIN f /\ DOMAIN g = DOMAIN f \ {b} /\ (\A c \in DOMAIN g : g[c] = f[c]) /\ f[b] = b.size
  OBVIOUS
<1>4. Sizing(g)
  <2>1. IsFiniteSet(F \ {b})
    BY FS_Subset DEF Keyed
  <2>. QED BY <1>1, <2>1 DEF Sizing
<1>5. size = SumFunction(f)
  BY DEF CountsRight
<1>6. b.size \in Nat
  BY <1>1
<1>. HIDE DEF f, g
<1>7. SumFunction(f) = SumFunction(g) + f[b]
  BY <1>2, <1>3, SumMore
<1>8. SumFunction(f) \in Nat /\ SumFunction(g) \in Nat
  BY <1>2, <1>4, SumIsCount
<1>. QED BY <1>3, <1>5, <1>6, <1>7, <1>8

(* A block a request fits in keeps it from being refused.                    *)
LEMMA FittingIsChosen ==
  ASSUME NEW T, NEW m, Placed(m, T), NEW size \in Nat \ {0}, NEW align \in Nat \ {0}, NEW type,
         NEW strategy \in Strategies, NEW k \in DOMAIN m.blocks, IsFree(m.blocks[k]),
         Fits(m, k, size, align, type) # {}
  PROVE  Chosen(m, size, align, type, strategy) # {}
<1>. DEFINE b == m.blocks[k]
            F == FreeOf(m.blocks)
            null == NullOf(m.blocks)
            tried == Search(m, size, strategy)
            placed == WithPlaces(m, tried, size, align, type)
<1>0. /\ Laid(m.blocks) /\ Keyed(F) /\ CountsRight(m.freeCount, m.freeSize, F)
      /\ Len(m.blocks) \in DOMAIN m.blocks /\ Total \in Nat
  BY FreeKeyed, IndexOf, TlsfAssumption DEF Placed, Books
<1>1. b.at \in Nat /\ b.size \in Nat /\ null.at \in Nat /\ null.size \in Nat /\ EndsAt(null) = Total
  BY <1>0, LaidIs DEF Laid, NullOf
<1>2. size <= b.size
  <2>1. ~ (b.size < size + AlignUp(b.at, align) - b.at)
    BY DEF Fits
  <2>2. AlignUp(b.at, align) \in Nat /\ b.at <= AlignUp(b.at, align)
    BY <1>1, UpTo
  <2>. QED BY <1>1, <2>1, <2>2
<1>3. b \in F \union {null} /\ (b \in F => b.size <= Total) /\ (b = null => b.size <= Total)
  <2>1. k # Len(m.blocks) => b \in F
    BY <1>0, FreeIn
  <2>2. k = Len(m.blocks) => b = null
    BY DEF NullOf
  <2>3. b \in F => b.size \in 1 .. Total
    BY <1>0, KeyedIs
  <2>4. null.size <= Total
    BY <1>0, <1>1 DEF EndsAt
  <2>. QED BY <1>0, <2>1, <2>2, <2>3, <2>4
<1>4. size \in 1 .. Total
  BY <1>0, <1>1, <1>2, <1>3
<1>5. m.freeSize \in Nat /\ size <= m.freeSize + null.size
  <2>1. CASE b \in F
    <3>1. m.freeSize \in Nat /\ b.size <= m.freeSize
      BY <1>0, <2>1, CountedAtLeast
    <3>. QED BY <1>1, <1>2, <3>1
  <2>2. CASE b = null
    <3>1. m.freeSize \in Nat
      <4>1. m.freeSize = SumFunction([c \in F |-> c.size])
        BY <1>0 DEF CountsRight
      <4>2. Sizing([c \in F |-> c.size])
        BY <1>0 DEF Keyed, Blocks, Sizing
      <4>. QED BY <4>1, <4>2, SumIsCount
    <3>. QED BY <1>1, <1>2, <2>2, <3>1
  <2>. QED BY <1>3, <2>1, <2>2
<1>6. tried \in Seq(Tried(m)) /\ Looked(tried, b.at)
  <2>1. b \in F => size <= b.size
    BY <1>2
  <2>. HIDE DEF b
  <2>. QED BY <1>3, <1>4, <2>1, SearchAll
<1>7. Chosen(m, size, align, type, strategy) = FirstOf(placed)
  <2>1. ~ (size > m.freeSize + m.blocks[NullIndex(m)].size)
    BY <1>1, <1>5 DEF NullIndex, NullOf
  <2>. QED BY <2>1 DEF Chosen
<1>8. IndexAt(m, b.at) = k
  BY <1>0, IndexAtIs
<1>. HIDE DEF tried
<1>9. PICK i \in DOMAIN tried : tried[i].at = b.at
  BY <1>6 DEF Looked
<1>10. DOMAIN placed = DOMAIN tried /\ DOMAIN tried \in SUBSET Nat
       /\ placed[i].to = Fits(m, IndexAt(m, tried[i].at), size, align, type)
  BY <1>6, <1>9 DEF WithPlaces
<1>. HIDE DEF placed
<1>11. placed[i].to # {}
  BY <1>8, <1>9, <1>10
<1>. QED BY <1>7, <1>9, <1>10, <1>11, FirstOfAny

LEMMA RefusedFollows == TlsfInv => RefusedOnlyIfFull
<1>. SUFFICES ASSUME TlsfInv PROVE RefusedOnlyIfFull
  OBVIOUS
<1>1. granularity \in Granularities /\ Placed(meta, PageMaps(granularity))
  BY RightIs DEF TlsfInv
<1>2. ASSUME NEW r \in Requests, NEW up, up = Roundup(r.type, r.size, r.align, granularity),
             Chosen(meta, up.size, up.align, r.type, r.strategy) = {},
             NEW k \in DOMAIN meta.blocks, IsFree(meta.blocks[k])
      PROVE  Fits(meta, k, up.size, up.align, r.type) = {}
  <2>1. up.size \in Nat \ {0} /\ up.align \in Nat \ {0} /\ r.strategy \in Strategies
    BY <1>1, <1>2, RoundupIs, TlsfAssumption
  <2>. QED BY <1>1, <1>2, <2>1, FittingIsChosen
<1>. QED BY <1>2 DEF RefusedOnlyIfFull

-----------------------------------------------------------------------------
(* After any sequence of Alloc, Free and Clear the blocks have no gaps and no *)
(* free neighbours, and the lists, both levels of bitmaps, the pages and the  *)
(* counters say what the blocks say, so that Validate always passes; and a    *)
(* request is refused only if it fits in no free block.                       *)
THEOREM TlsfRight == TlsfSpec => []TlsfSound
<1>1. TlsfInv => TlsfSound
  BY TypesFollow, ListsFollow, CoalescedFollows, ValidFollows, RefusedFollows DEF TlsfSound
<1>. QED BY <1>1, TlsfAlways, PTL
=============================================================================
