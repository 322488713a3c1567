---------------------------- MODULE LinearProofs ----------------------------
(***************************************************************************)
(* Proofs about Linear.tla and the validation in Statistics.tla, for every *)
(* size of the block and whatever is asked for. The null items are part of *)
(* the order: LinearInvariant says where they may stand, how they are      *)
(* counted and that none is left at an end, and the rest follows.          *)
(***************************************************************************)
EXTENDS Statistics, CountingProofs

-----------------------------------------------------------------------------
(* The items of a vector                                                     *)

Item == [at : Nat, size : Nat \ {0}, type : SuballocationTypes]

NullsIn(s) == {i \in DOMAIN s : IsNull(s[i])}

LEMMA NullsFinite ==
  ASSUME NEW s \in Seq(Item)
  PROVE  /\ NullsIn(s) \subseteq 1 .. Len(s) /\ Len(s) \in Nat /\ DOMAIN s = 1 .. Len(s)
         /\ IsFiniteSet(NullsIn(s)) /\ Cardinality(NullsIn(s)) \in Nat
         /\ Cardinality(NullsIn(s)) <= Len(s)
         /\ Cardinality(NullsIn(s)) = Len(s) => NullsIn(s) = 1 .. Len(s)
<1>1. Len(s) \in Nat /\ DOMAIN s = 1 .. Len(s)
  OBVIOUS
<1>2. IsFiniteSet(1 .. Len(s)) /\ Cardinality(1 .. Len(s)) = Len(s)
  BY <1>1, FS_Interval
<1>3. NullsIn(s) \in SUBSET (1 .. Len(s))
  BY <1>1 DEF NullsIn
<1>. QED BY <1>1, <1>2, <1>3, FS_Subset, FS_CardinalityType

(* NullsAfter counts up to the first item that is not null.                  *)
LEMMA NullsAfterIs ==
  ASSUME NEW s \in Seq(Item), NEW from \in 0 .. Len(s)
  PROVE  /\ NullsAfter(s, from) \in 0 .. Len(s) - from
         /\ \A i \in from + 1 .. from + NullsAfter(s, from) : IsNull(s[i])
         /\ from + NullsAfter(s, from) < Len(s) => ~ IsNull(s[from + NullsAfter(s, from) + 1])
<1>. DEFINE stops == {i \in from + 1 .. Len(s) : ~ IsNull(s[i])} \union {Len(s) + 1}
<1>1. stops \in SUBSET Nat /\ stops # {}
  OBVIOUS
<1>2. PICK e \in stops : \A j \in stops : e <= j
  <2>. HIDE DEF stops
  <2>. QED BY <1>1, LeastOf
<1>3. e \in from + 1 .. Len(s) + 1 /\ (e <= Len(s) => ~ IsNull(s[e]))
  OBVIOUS
<1>4. \A i \in from + 1 .. e - 1 : IsNull(s[i])
  BY <1>2, <1>3
<1>5. {i \in from + 1 .. Len(s) : \A j \in from + 1 .. i : IsNull(s[j])} = from + 1 .. e - 1
  <2>1. ASSUME NEW i \in from + 1 .. Len(s), \A j \in from + 1 .. i : IsNull(s[j]) PROVE i <= e - 1
    <3>1. e <= i => FALSE
      BY <1>3, <2>1
    <3>. QED BY <1>3, <3>1
  <2>2. ASSUME NEW i \in from + 1 .. e - 1 PROVE i <= Len(s) /\ \A j \in from + 1 .. i : IsNull(s[j])
    BY <1>3, <1>4
  <2>. QED BY <1>3, <2>1, <2>2
<1>6. Cardinality(from + 1 .. e - 1) = e - 1 - from
  BY <1>3, FS_Interval
<1>7. NullsAfter(s, from) = e - 1 - from
  BY <1>5, <1>6 DEF NullsAfter
<1>. HIDE DEF stops
<1>. QED BY <1>3, <1>4, <1>7

LEMMA NullsAtEndIs ==
  ASSUME NEW s \in Seq(Item)
  PROVE  /\ NullsAtEnd(s) \in 0 .. Len(s)
         /\ \A i \in Len(s) - NullsAtEnd(s) + 1 .. Len(s) : IsNull(s[i])
         /\ NullsAtEnd(s) < Len(s) => ~ IsNull(s[Len(s) - NullsAtEnd(s)])
<1>. DEFINE stops == {Len(s) - i : i \in {j \in 1 .. Len(s) : ~ IsNull(s[j])} \union {0}}
<1>1. stops \in SUBSET Nat /\ stops # {}
  OBVIOUS
<1>2. PICK n \in stops : \A j \in stops : n <= j
  <2>. HIDE DEF stops
  <2>. QED BY <1>1, LeastOf
<1>3. n \in 0 .. Len(s) /\ (n < Len(s) => ~ IsNull(s[Len(s) - n]))
  OBVIOUS
<1>4. \A i \in Len(s) - n + 1 .. Len(s) : IsNull(s[i])
  <2>1. ASSUME NEW i \in Len(s) - n + 1 .. Len(s), ~ IsNull(s[i]) PROVE FALSE
    <3>1. i \in 1 .. Len(s) /\ Len(s) - i < n
      BY <1>3
    <3>2. Len(s) - i \in stops /\ n \in Nat
      BY <1>3, <2>1, <3>1
    <3>. HIDE DEF stops
    <3>. QED BY <1>2, <3>1, <3>2
  <2>. QED BY <2>1
<1>5. {i \in DOMAIN s : \A j \in i .. Len(s) : IsNull(s[j])} = Len(s) - n + 1 .. Len(s)
  <2>1. ASSUME NEW i \in 1 .. Len(s), \A j \in i .. Len(s) : IsNull(s[j]) PROVE Len(s) - n + 1 <= i
    <3>1. i <= Len(s) - n => FALSE
      BY <1>3, <2>1
    <3>. QED BY <1>3, <3>1
  <2>2. ASSUME NEW i \in Len(s) - n + 1 .. Len(s) PROVE i \in 1 .. Len(s) /\ \A j \in i .. Len(s) : IsNull(s[j])
    BY <1>3, <1>4
  <2>3. {i \in 1 .. Len(s) : \A j \in i .. Len(s) : IsNull(s[j])} = Len(s) - n + 1 .. Len(s)
    <3>1. \A i \in Len(s) - n + 1 .. Len(s) : i \in 1 .. Len(s)
      BY <1>3
    <3>2. \A i \in 1 .. Len(s) : Len(s) - n + 1 <= i => i \in Len(s) - n + 1 .. Len(s)
      BY <1>3
    <3>. QED BY <2>1, <2>2, <3>1, <3>2
  <2>. QED BY <2>3, LenProperties
<1>6. Cardinality(Len(s) - n + 1 .. Len(s)) = n
  BY <1>3, FS_Interval
<1>7. NullsAtEnd(s) = n
  BY <1>5, <1>6 DEF NullsAtEnd
<1>. HIDE DEF stops
<1>. QED BY <1>3, <1>4, <1>7

LEMMA LastDropped ==
  ASSUME NEW s \in Seq(Item), NEW n \in 0 .. Len(s)
  PROVE  /\ WithoutLast(s, n) \in Seq(Item) /\ Len(WithoutLast(s, n)) = Len(s) - n
         /\ \A i \in 1 .. Len(s) - n : WithoutLast(s, n)[i] = s[i]
<1>1. \A i \in 1 .. Len(s) - n : s[i] \in Item
  OBVIOUS
<1>2. Len(s) - n \in Int /\ 1 \in Int /\ Len(s) - n >= 0
  OBVIOUS
<1>. QED BY <1>1, <1>2, SubSeqProperties DEF WithoutLast

LEMMA FirstDropped ==
  ASSUME NEW s \in Seq(Item), NEW n \in 0 .. Len(s)
  PROVE  /\ WithoutFirst(s, n) \in Seq(Item) /\ Len(WithoutFirst(s, n)) = Len(s) - n
         /\ \A i \in 1 .. Len(s) - n : WithoutFirst(s, n)[i] = s[i + n]
<1>1. \A i \in n + 1 .. Len(s) : s[i] \in Item
  OBVIOUS
<1>2. Len(s) \in Int /\ n + 1 \in Int /\ Len(s) - n >= 0
  OBVIOUS
<1>3. /\ SubSeq(s, n + 1, Len(s)) \in Seq(Item)
      /\ Len(SubSeq(s, n + 1, Len(s))) = IF n + 1 <= Len(s) THEN Len(s) - (n + 1) + 1 ELSE 0
      /\ \A i \in 1 .. Len(s) - (n + 1) + 1 : SubSeq(s, n + 1, Len(s))[i] = s[n + 1 + i - 1]
  BY <1>1, <1>2, SubSeqProperties
<1>. QED BY <1>3 DEF WithoutFirst

LEMMA NullsWithoutLast ==
  ASSUME NEW s \in Seq(Item), NEW n \in 0 .. Len(s), \A i \in Len(s) - n + 1 .. Len(s) : IsNull(s[i])
  PROVE  /\ Cardinality(NullsIn(WithoutLast(s, n))) = Cardinality(NullsIn(s)) - n
         /\ Items(WithoutLast(s, n)) = Items(s)
         /\ n <= Cardinality(NullsIn(s))
<1>. DEFINE r == WithoutLast(s, n)
            out == Len(s) - n + 1 .. Len(s)
<1>1. r \in Seq(Item) /\ Len(r) = Len(s) - n /\ \A i \in 1 .. Len(r) : r[i] = s[i]
  BY LastDropped
<1>. HIDE DEF r
<1>2. NullsIn(r) = NullsIn(s) \ out /\ out \subseteq NullsIn(s) /\ NullsIn(s) \intersect out = out
  <2>1. DOMAIN s = 1 .. Len(s) /\ DOMAIN r = 1 .. Len(s) - n /\ Len(s) \in Nat
    BY <1>1, LenProperties
  <2>2. \A i \in out : i \in DOMAIN s /\ IsNull(s[i]) /\ i \notin DOMAIN r
    BY <2>1
  <2>3. \A i \in DOMAIN s : i \notin out => i \in DOMAIN r
    BY <2>1
  <2>4. \A i \in DOMAIN r : i \in DOMAIN s /\ r[i] = s[i]
    BY <1>1, <2>1
  <2>. HIDE DEF out
  <2>. QED BY ONLY <2>2, <2>3, <2>4 DEF NullsIn
<1>3. Cardinality(out) = n
  BY FS_Interval
<1>4. Items(r) = Items(s)
  <2>1. \A i \in DOMAIN s : ~ IsNull(s[i]) => i \in DOMAIN r /\ r[i] = s[i]
    BY <1>1, <1>2 DEF NullsIn
  <2>2. \A i \in DOMAIN r : i \in DOMAIN s /\ r[i] = s[i]
    BY <1>1
  <2>. QED BY <2>1, <2>2 DEF Items
<1>5. Cardinality(NullsIn(s)) \in Nat /\ IsFiniteSet(NullsIn(s))
  BY NullsFinite
<1>6. Cardinality(NullsIn(r)) = Cardinality(NullsIn(s)) - Cardinality(out)
  <2>. HIDE DEF out
  <2>. QED BY <1>2, <1>5, FS_Difference
<1>7. Cardinality(NullsIn(r)) \in Nat
  BY <1>1, NullsFinite
<1>. QED BY <1>3, <1>4, <1>5, <1>6, <1>7 DEF r

LEMMA NullsWithoutFirst ==
  ASSUME NEW s \in Seq(Item), NEW n \in 0 .. Len(s), \A i \in 1 .. n : IsNull(s[i])
  PROVE  /\ Cardinality(NullsIn(WithoutFirst(s, n))) = Cardinality(NullsIn(s)) - n
         /\ Items(WithoutFirst(s, n)) = Items(s)
         /\ n <= Cardinality(NullsIn(s))
<1>. DEFINE r == WithoutFirst(s, n)
            out == 1 .. n
            rest == NullsIn(s) \ out
            f == [i \in NullsIn(r) |-> i + n]
<1>1. r \in Seq(Item) /\ Len(r) = Len(s) - n /\ \A i \in 1 .. Len(r) : r[i] = s[i + n]
  BY FirstDropped
<1>. HIDE DEF r
<1>2. out \subseteq NullsIn(s) /\ NullsIn(s) \intersect out = out
  BY DEF NullsIn
<1>3. Cardinality(out) = n
  BY FS_Interval
<1>4. Items(r) = Items(s)
  <2>1. \A i \in DOMAIN s : ~ IsNull(s[i]) => i - n \in DOMAIN r /\ r[i - n] = s[i]
    BY <1>1, <1>2 DEF NullsIn
  <2>2. \A i \in DOMAIN r : i + n \in DOMAIN s /\ r[i] = s[i + n]
    BY <1>1
  <2>. QED BY <2>1, <2>2 DEF Items
<1>5. Cardinality(NullsIn(s)) \in Nat /\ IsFiniteSet(NullsIn(s)) /\ NullsIn(r) \subseteq 1 .. Len(r)
  BY <1>1, NullsFinite
<1>6. Cardinality(rest) = Cardinality(NullsIn(s)) - Cardinality(out) /\ IsFiniteSet(rest)
  <2>. HIDE DEF out
  <2>. QED BY <1>2, <1>5, FS_Difference
<1>7. /\ f \in [NullsIn(r) -> rest]
      /\ \A x, y \in NullsIn(r) : f[x] = f[y] => x = y
      /\ \A y \in rest : \E x \in NullsIn(r) : f[x] = y
  <2>1. f \in [NullsIn(r) -> rest] /\ \A x, y \in NullsIn(r) : f[x] = f[y] => x = y
    BY <1>1, <1>5 DEF NullsIn
  <2>2. ASSUME NEW y \in rest PROVE y - n \in NullsIn(r) /\ f[y - n] = y
    BY <1>1 DEF NullsIn
  <2>. QED BY <2>1, <2>2
<1>8. Cardinality(NullsIn(r)) = Cardinality(rest)
  <2>. HIDE DEF f, rest
  <2>. QED BY <1>6, <1>7, Counting
<1>9. Cardinality(NullsIn(r)) \in Nat
  BY <1>1, NullsFinite
<1>. QED BY <1>3, <1>4, <1>5, <1>6, <1>8, <1>9 DEF r

-----------------------------------------------------------------------------
(* Multiples and pages                                                       *)

LEMMA AlignedUp ==
  ASSUME NEW x \in Nat, NEW a \in Nat \ {0}
  PROVE  /\ AlignUp(x, a) \in Nat /\ x <= AlignUp(x, a)
         /\ \E k \in Int : AlignUp(x, a) = k * a
<1>. DEFINE k == (x + a - 1) \div a
<1>1. k \in Int /\ x + a - 1 < k * a + a
  BY Quotient
<1>. HIDE DEF k
<1>2. k * a \in Int /\ x <= k * a
  BY <1>1
<1>. QED BY <1>1, <1>2 DEF k, AlignUp

LEMMA AlignedDown ==
  ASSUME NEW x \in Nat, NEW a \in Nat \ {0}
  PROVE  AlignDown(x, a) \in Nat /\ AlignDown(x, a) <= x
<1>. DEFINE k == x \div a
<1>1. k \in Int /\ k * a <= x /\ x < (k + 1) * a
  BY Quotient
<1>2. k >= 0
  BY DivMonotone
<1>. HIDE DEF k
<1>3. k * a \in Int /\ 0 * a <= k * a
  BY <1>1, <1>2, Times
<1>. QED BY <1>1, <1>3 DEF k, AlignDown

-----------------------------------------------------------------------------
(* The order of the items                                                    *)

Before(a, b) == a.at + a.size <= b.at

Ascending(s) == \A i, j \in DOMAIN s : i < j => Before(s[i], s[j])

Descending(s) == \A i, j \in DOMAIN s : i < j => Before(s[j], s[i])

Inside(s) == \A i \in DOMAIN s : s[i].at + s[i].size <= LinearSize

LEMMA LastIs ==
  ASSUME NEW s \in Seq(Item), s # <<>>
  PROVE  Len(s) \in DOMAIN s /\ Last(s) = s[Len(s)] /\ Last(s) \in Item
BY DEF Last

LEMMA EndIs ==
  ASSUME NEW s \in Seq(Item), Ascending(s)
  PROVE  /\ EndOf(s) \in Nat
         /\ \A i \in DOMAIN s : s[i].at + s[i].size <= EndOf(s)
         /\ Inside(s) => EndOf(s) <= LinearSize \/ s = <<>>
<1>1. CASE s = <<>>
  BY <1>1 DEF EndOf
<1>2. CASE s # <<>>
  <2>1. Len(s) \in DOMAIN s /\ Last(s) = s[Len(s)] /\ Last(s) \in Item /\ DOMAIN s = 1 .. Len(s)
    BY <1>2, LastIs
  <2>2. EndOf(s) = s[Len(s)].at + s[Len(s)].size /\ EndOf(s) \in Nat
    BY <1>2, <2>1 DEF EndOf, Item
  <2>3. ASSUME NEW i \in DOMAIN s PROVE s[i].at + s[i].size <= EndOf(s)
    <3>1. s[i] \in Item /\ s[Len(s)] \in Item
      BY <2>1
    <3>2. CASE i = Len(s)
      BY <2>2, <3>2, <3>1 DEF Item
    <3>3. CASE i < Len(s)
      <4>1. s[i].at + s[i].size <= s[Len(s)].at
        BY <2>1, <3>3 DEF Ascending, Before
      <4>2. s[i].at \in Nat /\ s[i].size \in Nat /\ s[Len(s)].at \in Nat /\ s[Len(s)].size \in Nat
        BY <3>1 DEF Item
      <4>. QED BY <2>2, <4>1, <4>2
    <3>. QED BY <2>1, <3>2, <3>3
  <2>. QED BY <2>1, <2>2, <2>3 DEF Inside
<1>. QED BY <1>1, <1>2

(* Of an item that ends before a multiple of the page size                   *)
LEMMA NotOnPageOf ==
  ASSUME pageSize \in Nat \ {0}, NEW r \in Item, NEW at \in Nat, r.at + r.size <= at,
         NEW k \in Int, NEW m \in Int, m = k * pageSize, r.at + r.size <= m, m <= at
  PROVE  ~ OnSamePage(r.at, r.size, at)
<1>1. r.at + r.size - 1 \in Int /\ r.at + r.size - 1 < k * pageSize /\ k * pageSize <= at
  BY DEF Item
<1>2. (r.at + r.size - 1) \div pageSize < at \div pageSize
  BY <1>1, PageBefore
<1>. QED BY <1>1, <1>2, Quotient DEF OnSamePage

(* The last byte of a range that ends before another does, and before an offset, is not after the other's *)
(* last byte, nor behind that offset. *)
LEMMA LastBytes ==
  ASSUME NEW a \in Nat, NEW b \in Nat, NEW c \in Nat, NEW d \in Nat, NEW e \in Nat,
         a + b <= c + d, c + d <= e
  PROVE  a + b - 1 \in Int /\ c + d - 1 \in Int /\ a + b - 1 <= c + d - 1 /\ c + d - 1 <= e
OBVIOUS

LEMMA BehindIs ==
  ASSUME pageSize \in Nat \ {0}, NEW s \in Seq(Item), Ascending(s),
         NEW align \in Nat \ {0}, NEW type
  PROVE  /\ Behind(s, align, type) \in Nat /\ EndOf(s) <= Behind(s, align, type)
         /\ \A i \in DOMAIN s :
              Conflict(s[i].type, type) => ~ OnSamePage(s[i].at, s[i].size, Behind(s, align, type))
<1>. DEFINE at == AlignUp(EndOf(s), align)
            to == Behind(s, align, type)
<1>1. /\ EndOf(s) \in Nat
      /\ \A i \in DOMAIN s : s[i] \in Item /\ s[i].at + s[i].size <= EndOf(s)
  BY EndIs
<1>2. at \in Nat /\ EndOf(s) <= at /\ \E k \in Int : at = k * align
  BY <1>1, AlignedUp
<1>3. \/ to = at /\ (pageSize = 1 \/ pageSize = align)
      \/ to = at /\ ~ ConflictBefore(s, at, type)
      \/ to = AlignUp(at, pageSize)
  <2>. HIDE DEF at
  <2>1. to = IF pageSize > 1 /\ pageSize # align /\ ConflictBefore(s, at, type)
             THEN AlignUp(at, pageSize) ELSE at
    BY Zenon DEF Behind, at
  <2>. HIDE DEF to
  <2>. QED BY <2>1
<1>. HIDE DEF at, to
<1>4. CASE \E k \in Int : to = k * pageSize /\ at <= to /\ to \in Nat
  <2>1. PICK k \in Int : to = k * pageSize /\ at <= to /\ to \in Nat
    BY <1>4
  <2>2. EndOf(s) <= to /\ \A i \in DOMAIN s : s[i].at + s[i].size <= to
    BY <1>1, <1>2, <2>1 DEF Item
  <2>3. ASSUME NEW i \in DOMAIN s PROVE ~ OnSamePage(s[i].at, s[i].size, to)
    BY <1>1, <2>1, <2>2, NotOnPageOf
  <2>. QED BY <2>1, <2>2, <2>3 DEF to
<1>5. CASE to = at /\ (pageSize = 1 \/ pageSize = align)
  <2>1. CASE pageSize = 1
    <3>1. \E k \in Int : at = k * pageSize
      BY <1>2, <2>1, MultipleOfOne
    <3>2. at <= to /\ to \in Nat /\ to = at
      BY <1>2, <1>5
    <3>. QED BY <1>4, <3>1, <3>2
  <2>2. CASE pageSize = align
    BY <1>2, <1>4, <1>5, <2>2
  <2>. QED BY <1>5, <2>1, <2>2
<1>6. CASE to = AlignUp(at, pageSize)
  BY <1>2, <1>4, <1>6, AlignedUp
<1>7. CASE to = at /\ ~ ConflictBefore(s, at, type)
  <2>1. ASSUME NEW i \in DOMAIN s, Conflict(s[i].type, type), OnSamePage(s[i].at, s[i].size, at)
        PROVE  ConflictBefore(s, at, type)
    <3>1. ASSUME NEW j \in i .. Len(s) PROVE OnSamePage(s[j].at, s[j].size, at)
      <4>. DEFINE x == s[i].at + s[i].size - 1
                  y == s[j].at + s[j].size - 1
      <4>1. j \in DOMAIN s /\ s[j] \in Item /\ s[i] \in Item
        BY <3>1
      <4>2. s[i].at + s[i].size <= s[j].at + s[j].size
        BY <4>1 DEF Ascending, Before, Item
      <4>3. x \in Int /\ y \in Int /\ x <= y /\ y <= at
        <5>1. s[j].at + s[j].size <= at /\ at \in Nat
          BY <1>1, <1>2, <4>1 DEF Item
        <5>2. s[i].at \in Nat /\ s[i].size \in Nat /\ s[j].at \in Nat /\ s[j].size \in Nat
          BY ONLY <4>1 DEF Item
        <5>. QED BY ONLY <4>2, <5>1, <5>2, LastBytes DEF x, y
      <4>4. x \div pageSize = at \div pageSize
        BY <2>1 DEF OnSamePage
      <4>5. y \div pageSize = at \div pageSize
        <5>. HIDE DEF x, y
        <5>1. x \div pageSize <= y \div pageSize /\ y \div pageSize <= at \div pageSize
          BY <1>2, <4>3, DivMonotone
        <5>2. y \div pageSize \in Int /\ at \div pageSize \in Int
          BY <1>2, <4>3, Quotient
        <5>. QED BY <4>4, <5>1, <5>2
      <4>. QED BY <4>5 DEF OnSamePage
    <3>. QED BY <2>1, <3>1 DEF ConflictBefore
  <2>. QED BY <1>2, <1>7, <2>1 DEF to
<1>. QED BY <1>3, <1>5, <1>6, <1>7

(* The same looking forward, of a range [at, at + size)                      *)
LEMMA AheadIs ==
  ASSUME pageSize \in Nat \ {0}, NEW s \in Seq(Item), Ascending(s),
         NEW at \in Nat, NEW size \in Nat \ {0}, NEW type,
         s # <<>> => at + size <= s[1].at,
         size % pageSize # 0 \/ at % pageSize # 0 => ~ ConflictAfter(s, at, size, type)
  PROVE  \A i \in DOMAIN s : /\ at + size <= s[i].at
                             /\ Conflict(type, s[i].type) => ~ OnSamePage(at, size, s[i].at)
<1>. DEFINE x == at + size - 1
<1>0. \A i \in DOMAIN s : s[i] \in Item
  OBVIOUS
<1>1. \A i \in DOMAIN s : s[i] \in Item /\ s[i].at \in Nat /\ s[i].size \in Nat
  BY <1>0 DEF Item
<1>2. ASSUME NEW i \in DOMAIN s PROVE at + size <= s[i].at
  <2>1. 1 \in DOMAIN s /\ at + size <= s[1].at
    OBVIOUS
  <2>2. i = 1 \/ 1 < i
    OBVIOUS
  <2>3. 1 < i => s[1].at + s[1].size <= s[i].at
    BY <2>1 DEF Ascending, Before
  <2>. QED BY <1>1, <2>1, <2>2, <2>3
<1>3. CASE size % pageSize = 0 /\ at % pageSize = 0
  <2>1. \E k \in Int : at + size = k * pageSize
    <3>1. at = (at \div pageSize) * pageSize /\ size = (size \div pageSize) * pageSize
      BY <1>3, Z3
    <3>2. at \div pageSize \in Int /\ size \div pageSize \in Int
      BY Quotient
    <3>3. at + size = (at \div pageSize + size \div pageSize) * pageSize
      BY <3>1, <3>2, Z3
    <3>. QED BY <3>2, <3>3
  <2>2. PICK k \in Int : at + size = k * pageSize
    BY <2>1
  <2>3. ASSUME NEW i \in DOMAIN s PROVE ~ OnSamePage(at, size, s[i].at)
    <3>1. at + size - 1 \in Int /\ at + size - 1 < k * pageSize /\ k * pageSize <= s[i].at /\ s[i].at \in Int
      BY <1>1, <1>2, <2>2
    <3>2. (at + size - 1) \div pageSize < s[i].at \div pageSize
      BY <3>1, PageBefore
    <3>. QED BY <3>1, <3>2, Quotient DEF OnSamePage
  <2>. QED BY <1>2, <2>3
<1>4. CASE ~ ConflictAfter(s, at, size, type)
  <2>1. ASSUME NEW i \in DOMAIN s, Conflict(type, s[i].type), OnSamePage(at, size, s[i].at)
        PROVE  ConflictAfter(s, at, size, type)
    <3>1. ASSUME NEW j \in 1 .. i PROVE OnSamePage(at, size, s[j].at)
      <4>. DEFINE y == s[j].at
                  z == s[i].at
      <4>1. j \in DOMAIN s
        BY <3>1
      <4>2. y <= z
        <5>1. j = i \/ j < i
          BY <3>1
        <5>2. j < i => s[j].at + s[j].size <= s[i].at
          BY <4>1 DEF Ascending, Before
        <5>3. y \in Nat /\ z \in Nat /\ s[j].size \in Nat
          BY <1>1, <4>1
        <5>. QED BY <5>1, <5>2, <5>3
      <4>3. x \in Int /\ y \in Int /\ z \in Int /\ x <= y
        BY <1>1, <1>2, <4>1
      <4>4. x \div pageSize = z \div pageSize
        BY <2>1 DEF OnSamePage
      <4>5. x \div pageSize = y \div pageSize
        <5>. HIDE DEF x, y, z
        <5>1. x \div pageSize <= y \div pageSize /\ y \div pageSize <= z \div pageSize
          BY <4>2, <4>3, DivMonotone
        <5>2. x \div pageSize \in Int /\ y \div pageSize \in Int
          BY <4>3, Quotient
        <5>. QED BY <4>4, <5>1, <5>2
      <4>. QED BY <4>5 DEF OnSamePage
    <3>. QED BY <2>1, <3>1 DEF ConflictAfter
  <2>. QED BY <1>2, <1>4, <2>1
<1>5. size % pageSize \in Int /\ at % pageSize \in Int
  OBVIOUS
<1>. QED BY <1>3, <1>4

-----------------------------------------------------------------------------
(* The invariant                                                             *)

Live(l) == Items(l.first) \union Items(l.second)

SizesOf(S) == [r \in S |-> r.size]

LinearRecord ==
  [first : Seq(Item), second : Seq(Item), mode : {"empty", "ring", "double"},
   nullBegin : Nat, nullMiddle : Nat, nullSecond : Nat, sumFree : Int]

(* The parts follow each other, each with its null items in order: the ring's *)
(* front part, the 1st vector, the upper stack downwards.                    *)
InOrder(l) ==
  /\ Ascending(l.first) /\ Inside(l.first) /\ Inside(l.second)
  /\ l.mode = "empty" => l.second = <<>>
  /\ l.mode = "ring" =>
       /\ Ascending(l.second)
       /\ \A i \in DOMAIN l.second : \A j \in l.nullBegin + 1 .. Len(l.first) :
            Before(l.second[i], l.first[j])
  /\ l.mode = "double" =>
       /\ Descending(l.second)
       /\ \A i \in DOMAIN l.first : \A j \in DOMAIN l.second : Before(l.first[i], l.second[j])

(* The null items are counted.                                               *)
Counted(l) ==
  /\ l.nullBegin <= Len(l.first) /\ \A i \in 1 .. l.nullBegin : IsNull(l.first[i])
  /\ Cardinality(NullsIn(l.first)) = l.nullBegin + l.nullMiddle
  /\ Cardinality(NullsIn(l.second)) = l.nullSecond

SumRight(l) == l.sumFree = LinearSize - SumFunction(SizesOf(Live(l)))

(* As Free leaves it to CleanupAfterFree                                     *)
Loose(l) == l \in LinearRecord /\ InOrder(l) /\ Counted(l)

(* No null item is left where it can be dropped.                             *)
NoneToDrop(l) ==
  /\ l.mode = "empty" <=> l.second = <<>>
  /\ l.mode = "ring" => l.first # <<>>
  /\ l.first # <<>> =>
       /\ l.nullBegin < Len(l.first)
       /\ ~ IsNull(l.first[l.nullBegin + 1]) /\ ~ IsNull(Last(l.first))
  /\ l.second # <<>> => ~ IsNull(Last(l.second))

LinearInvariant == pageSize \in Pages /\ Loose(lin) /\ SumRight(lin) /\ NoneToDrop(lin)

-----------------------------------------------------------------------------
(* What the operators do to one vector                                       *)

LEMMA ItemsFinite ==
  ASSUME NEW s \in Seq(Item)
  PROVE  IsFiniteSet(Items(s)) /\ Items(s) \subseteq Item /\ \A r \in Items(s) : ~ IsNull(r)
<1>. DEFINE kept == {i \in DOMAIN s : ~ IsNull(s[i])}
            f == [i \in kept |-> s[i]]
<1>1. kept \subseteq 1 .. Len(s) /\ \A i \in kept : s[i] \in Item
  OBVIOUS
<1>2. IsFiniteSet(kept)
  BY <1>1, NullsFinite, FS_Interval, FS_Subset, LenProperties
<1>3. f \in Surjection(kept, Items(s))
  BY DEF Surjection, Items
<1>. QED BY <1>1, <1>2, <1>3, FS_Surjection DEF Items

LEMMA Distinct ==
  ASSUME NEW s \in Seq(Item), Ascending(s) \/ Descending(s), NEW i \in DOMAIN s, NEW j \in DOMAIN s, i # j
  PROVE  s[i].at # s[j].at /\ s[i] # s[j]
<1>1. /\ s[i].at \in Nat /\ s[i].size \in Nat \ {0} /\ s[j].at \in Nat /\ s[j].size \in Nat \ {0}
  <2>1. s[i] \in Item /\ s[j] \in Item
    OBVIOUS
  <2>. QED BY <2>1 DEF Item
<1>2. i < j \/ j < i
  OBVIOUS
<1>3. Before(s[i], s[j]) \/ Before(s[j], s[i])
  BY <1>2 DEF Ascending, Descending
<1>4. s[i].at # s[j].at
  BY <1>1, <1>3 DEF Before
<1>. QED BY <1>4

LEMMA Appended ==
  ASSUME NEW s \in Seq(Item), NEW r \in Item, ~ IsNull(r)
  PROVE  /\ Append(s, r) \in Seq(Item) /\ Len(Append(s, r)) = Len(s) + 1
         /\ DOMAIN Append(s, r) = 1 .. Len(s) + 1 /\ DOMAIN s = 1 .. Len(s) /\ Len(s) \in Nat
         /\ \A i \in 1 .. Len(s) : Append(s, r)[i] = s[i]
         /\ Append(s, r)[Len(s) + 1] = r /\ Append(s, r) # <<>> /\ Last(Append(s, r)) = r
         /\ NullsIn(Append(s, r)) = NullsIn(s)
         /\ Items(Append(s, r)) = Items(s) \union {r}
<1>. DEFINE a == Append(s, r)
<1>1. /\ a \in Seq(Item) /\ Len(a) = Len(s) + 1 /\ Len(s) \in Nat /\ DOMAIN a = 1 .. Len(s) + 1
      /\ DOMAIN s = 1 .. Len(s)
      /\ \A i \in 1 .. Len(s) : a[i] = s[i]
      /\ a[Len(s) + 1] = r /\ a # <<>>
  BY AppendProperties, LenProperties
<1>. HIDE DEF a
<1>2. NullsIn(a) = NullsIn(s)
  BY <1>1 DEF NullsIn
<1>3. Items(a) = Items(s) \union {r}
  BY <1>1 DEF Items
<1>4. Last(a) = r
  BY <1>1 DEF Last
<1>. QED BY <1>1, <1>2, <1>3, <1>4 DEF a

LEMMA NulledIs ==
  ASSUME NEW s \in Seq(Item), NEW i \in DOMAIN s, ~ IsNull(s[i]), Ascending(s) \/ Descending(s)
  PROVE  /\ Nulled(s, i) \in Seq(Item) /\ Len(Nulled(s, i)) = Len(s)
         /\ DOMAIN Nulled(s, i) = DOMAIN s
         /\ \A j \in DOMAIN s : Nulled(s, i)[j].at = s[j].at /\ Nulled(s, i)[j].size = s[j].size
         /\ \A j \in DOMAIN s : j # i => Nulled(s, i)[j] = s[j]
         /\ IsNull(Nulled(s, i)[i])
         /\ Cardinality(NullsIn(Nulled(s, i))) = Cardinality(NullsIn(s)) + 1
         /\ Items(Nulled(s, i)) = Items(s) \ {s[i]}
<1>. DEFINE n == Nulled(s, i)
            x == [s[i] EXCEPT !.type = "free"]
<1>1. s[i] \in Item /\ DOMAIN s = 1 .. Len(s) /\ \A j \in DOMAIN s : s[j] \in Item
  OBVIOUS
<1>2. x \in Item /\ x.at = s[i].at /\ x.size = s[i].size /\ x.type = "free"
  BY <1>1 DEF Item, SuballocationTypes
<1>3. n = [s EXCEPT ![i] = x]
  BY DEF Nulled
<1>. HIDE DEF n, x
<1>4. /\ n \in Seq(Item) /\ Len(n) = Len(s) /\ DOMAIN n = DOMAIN s
      /\ n[i] = x /\ \A j \in DOMAIN s : j # i => n[j] = s[j]
  <2>1. n \in Seq(Item) /\ Len(n) = Len(s) /\ \A j \in 1 .. Len(s) : n[j] = IF j = i THEN x ELSE s[j]
    BY <1>1, <1>2, <1>3, ExceptSeq
  <2>2. DOMAIN n = 1 .. Len(n)
    BY <2>1, LenProperties
  <2>. QED BY <1>1, <2>1, <2>2
<1>5. NullsIn(n) = NullsIn(s) \union {i} /\ i \notin NullsIn(s)
  BY <1>2, <1>4 DEF NullsIn, IsNull
<1>6. Cardinality(NullsIn(n)) = Cardinality(NullsIn(s)) + 1
  BY <1>5, NullsFinite, FS_AddElement
<1>7. Items(n) = Items(s) \ {s[i]}
  <2>1. \A j \in DOMAIN s : j # i => s[j] # s[i]
    BY Distinct
  <2>2. Items(s) = {s[j] : j \in {k \in DOMAIN s : ~ IsNull(s[k])}}
    BY DEF Items
  <2>3. Items(n) = {n[j] : j \in {k \in DOMAIN n : ~ IsNull(n[k])}}
    BY DEF Items
  <2>4. IsNull(n[i])
    BY <1>2, <1>4 DEF IsNull
  <2>. QED BY <1>4, <2>1, <2>2, <2>3, <2>4
<1>. QED BY <1>2, <1>4, <1>6, <1>7 DEF n, IsNull

(* The last item goes.                                                       *)
LEMMA PoppedIs ==
  ASSUME NEW s \in Seq(Item), s # <<>>, ~ IsNull(Last(s)), Ascending(s) \/ Descending(s)
  PROVE  /\ WithoutLast(s, 1) \in Seq(Item) /\ Len(WithoutLast(s, 1)) = Len(s) - 1
         /\ \A i \in 1 .. Len(s) - 1 : WithoutLast(s, 1)[i] = s[i]
         /\ NullsIn(WithoutLast(s, 1)) = NullsIn(s)
         /\ Items(WithoutLast(s, 1)) = Items(s) \ {Last(s)}
<1>. DEFINE r == WithoutLast(s, 1)
<1>1. Len(s) \in DOMAIN s /\ Last(s) = s[Len(s)] /\ DOMAIN s = 1 .. Len(s) /\ Len(s) \in Nat
  BY LastIs, LenProperties
<1>2. r \in Seq(Item) /\ Len(r) = Len(s) - 1 /\ \A i \in 1 .. Len(s) - 1 : r[i] = s[i]
  <2>1. 1 \in 0 .. Len(s)
    BY <1>1
  <2>. QED BY <2>1, LastDropped
<1>3. DOMAIN r = 1 .. Len(s) - 1
  BY <1>2, LenProperties
<1>. HIDE DEF r
<1>4. NullsIn(r) = NullsIn(s)
  BY <1>1, <1>2, <1>3 DEF NullsIn
<1>5. Items(r) = Items(s) \ {Last(s)}
  <2>1. \A j \in DOMAIN s : j # Len(s) => s[j] # s[Len(s)]
    BY <1>1, Distinct
  <2>2. Items(s) = {s[j] : j \in {k \in DOMAIN s : ~ IsNull(s[k])}}
    BY DEF Items
  <2>3. Items(r) = {r[j] : j \in {k \in DOMAIN r : ~ IsNull(r[k])}}
    BY DEF Items
  <2>. QED BY <1>1, <1>2, <1>3, <2>1, <2>2, <2>3
<1>. QED BY <1>2, <1>4, <1>5 DEF r

(* The compaction leaves the items that are not null, in their order.        *)
LEMMA PackedIs ==
  ASSUME NEW s \in Seq(Item), Ascending(s)
  PROVE  /\ Packed(s) \in Seq(Item) /\ NullsIn(Packed(s)) = {}
         /\ Items(Packed(s)) = Items(s) /\ Ascending(Packed(s))
         /\ \A d \in DOMAIN Packed(s) : \E i \in DOMAIN s : ~ IsNull(s[i]) /\ Packed(s)[d] = s[i]
<1>. DEFINE kept == {i \in DOMAIN s : ~ IsNull(s[i])}
            rank == [i \in kept |-> Cardinality({j \in kept : j <= i})]
            n == Cardinality(kept)
            Source(d) == CHOOSE i \in kept : Cardinality({j \in kept : j <= i}) = d
            p == Packed(s)
<1>1. kept \in SUBSET Nat /\ IsFiniteSet(kept) /\ kept \subseteq DOMAIN s
  <2>1. Len(s) \in Nat /\ DOMAIN s = 1 .. Len(s) /\ kept \subseteq DOMAIN s
    BY LenProperties
  <2>2. IsFiniteSet(1 .. Len(s))
    BY <2>1, FS_Interval
  <2>. HIDE DEF kept
  <2>3. IsFiniteSet(kept)
    BY <2>1, <2>2, FS_Subset
  <2>. QED BY <2>1, <2>3
<1>2. \A i \in kept : s[i] \in Item /\ ~ IsNull(s[i])
  OBVIOUS
<1>3. p = [d \in 1 .. n |-> s[Source(d)]]
  BY DEF Packed
<1>4. Items(s) = {s[i] : i \in kept}
  BY DEF Items
<1>. HIDE DEF kept, p
<1>5. /\ rank \in [kept -> 1 .. n] /\ n \in Nat
      /\ \A i, k \in kept : i < k => rank[i] < rank[k]
      /\ \A d \in 1 .. n : \E i \in kept : rank[i] = d
  BY <1>1, Ranked
<1>6. ASSUME NEW d \in 1 .. n
      PROVE  Source(d) \in kept /\ rank[Source(d)] = d
  <2>1. \A i \in kept : rank[i] = Cardinality({j \in kept : j <= i})
    OBVIOUS
  <2>2. \E i \in kept : Cardinality({j \in kept : j <= i}) = d
    BY <1>5, <2>1
  <2>. QED BY <2>1, <2>2
<1>. HIDE DEF rank, n, Source
<1>7. \A i, k \in kept : rank[i] = rank[k] => i = k
  <2>1. \A i \in kept : i \in Nat /\ rank[i] \in Nat
    BY <1>1, <1>5
  <2>. QED BY <1>5, <2>1
<1>8. /\ p \in Seq(Item) /\ DOMAIN p = 1 .. n
      /\ \A d \in 1 .. n : p[d] = s[Source(d)] /\ p[d] \in Item /\ ~ IsNull(p[d])
  <2>1. DOMAIN p = 1 .. n /\ \A d \in 1 .. n : p[d] = s[Source(d)] /\ p[d] \in Item /\ ~ IsNull(p[d])
    BY <1>2, <1>3, <1>6
  <2>2. p \in [1 .. n -> Item]
    BY <1>3, <2>1
  <2>. QED BY <1>5, <2>1, <2>2, SeqDef
<1>9. NullsIn(p) = {}
  BY <1>8 DEF NullsIn
<1>10. Items(p) = Items(s)
  <2>1. Items(p) = {p[d] : d \in 1 .. n}
    BY <1>8 DEF Items
  <2>2. \A d \in 1 .. n : p[d] = s[Source(d)] /\ Source(d) \in kept
    BY <1>6, <1>8
  <2>3. \A i \in kept : rank[i] \in 1 .. n /\ p[rank[i]] = s[i]
    BY <1>5, <1>6, <1>7, <1>8
  <2>. QED BY <1>4, <2>1, <2>2, <2>3
<1>11. Ascending(p)
  <2>1. ASSUME NEW d \in 1 .. n, NEW e \in 1 .. n, d < e
        PROVE  Before(p[d], p[e])
    <3>1. Source(d) \in kept /\ Source(e) \in kept /\ rank[Source(d)] = d /\ rank[Source(e)] = e
      BY <1>6
    <3>2. Source(d) \in Nat /\ Source(e) \in Nat /\ Source(d) \in DOMAIN s /\ Source(e) \in DOMAIN s
      BY <1>1, <3>1
    <3>3. Source(e) < Source(d) => e < d
      BY <1>5, <3>1
    <3>4. Source(e) # Source(d)
      BY <2>1, <3>1
    <3>5. Source(d) < Source(e)
      BY <2>1, <3>2, <3>3, <3>4
    <3>. QED BY <1>8, <3>2, <3>5 DEF Ascending
  <2>. QED BY <1>8, <2>1 DEF Ascending
<1>12. \A d \in DOMAIN p : \E i \in DOMAIN s : ~ IsNull(s[i]) /\ p[d] = s[i]
  BY <1>1, <1>2, <1>6, <1>8
<1>. QED BY <1>8, <1>9, <1>10, <1>11, <1>12 DEF p

(* The null items at the ends of the 1st vector                              *)
FirstTrims(s, b0, m0, begin, out, r) ==
  /\ begin \in 0 .. m0 /\ out \in 0 .. m0 - begin /\ out \in 0 .. Len(s)
  /\ r \in Seq(Item) /\ Len(r) = Len(s) - out /\ \A i \in 1 .. Len(r) : r[i] = s[i]
  /\ b0 + begin <= Len(r) /\ \A i \in 1 .. b0 + begin : IsNull(r[i])
  /\ Cardinality(NullsIn(r)) = b0 + begin + (m0 - begin - out)
  /\ Items(r) = Items(s)
  /\ b0 + begin < Len(r) => ~ IsNull(r[b0 + begin + 1]) /\ ~ IsNull(Last(r))

LEMMA FirstTrimmed ==
  ASSUME NEW s \in Seq(Item), NEW b0 \in 0 .. Len(s), NEW m0 \in Nat,
         \A i \in 1 .. b0 : IsNull(s[i]), Cardinality(NullsIn(s)) = b0 + m0,
         NEW begin, begin = NullsAfter(s, b0),
         NEW out, out = AtMost(m0 - begin, NullsAtEnd(s)),
         NEW r, r = WithoutLast(s, out)
  PROVE  FirstTrims(s, b0, m0, begin, out, r)
<1>. DEFINE b == b0 + begin
            t == NullsAtEnd(s)
<1>1. Len(s) \in Nat /\ b0 \in Nat /\ DOMAIN s = 1 .. Len(s)
  BY LenProperties
<1>2. /\ begin \in 0 .. Len(s) - b0 /\ \A i \in b0 + 1 .. b0 + begin : IsNull(s[i])
      /\ b0 + begin < Len(s) => ~ IsNull(s[b0 + begin + 1])
  BY NullsAfterIs
<1>3. b \in 0 .. Len(s) /\ \A i \in 1 .. b : IsNull(s[i])
  BY <1>1, <1>2
<1>4. b <= b0 + m0 /\ begin \in 0 .. m0
  <2>1. b <= Cardinality(NullsIn(s))
    BY <1>3, NullsWithoutFirst
  <2>. QED BY <1>1, <1>2, <2>1
<1>5. /\ t \in 0 .. Len(s) /\ \A i \in Len(s) - t + 1 .. Len(s) : IsNull(s[i])
      /\ t < Len(s) => ~ IsNull(s[Len(s) - t])
  BY NullsAtEndIs
<1>6. out = IF m0 - begin < t THEN m0 - begin ELSE t
  BY DEF AtMost
<1>. HIDE DEF b, t
<1>7. CASE b = Len(s)
  <2>1. Cardinality(NullsIn(s)) <= Len(s)
    BY NullsFinite
  <2>2. m0 - begin = 0 /\ out = 0
    BY <1>1, <1>4, <1>5, <1>6, <1>7, <2>1 DEF b
  <2>3. r \in Seq(Item) /\ Len(r) = Len(s) /\ \A i \in 1 .. Len(r) : r[i] = s[i]
    <3>1. 0 \in 0 .. Len(s) /\ Len(s) - 0 = Len(s) /\ r = WithoutLast(s, 0)
      BY <1>1, <2>2
    <3>. QED BY ONLY <3>1, LastDropped, s \in Seq(Item)
  <2>4. Cardinality(NullsIn(r)) = Cardinality(NullsIn(s)) - 0 /\ Items(r) = Items(s)
    BY <1>1, <2>2, NullsWithoutLast
  <2>5. begin \in 0 .. m0 /\ out \in 0 .. m0 - begin /\ out \in 0 .. Len(s) /\ Len(r) = Len(s) - out
    BY <1>1, <1>4, <2>2, <2>3
  <2>6. b <= Len(r) /\ ~ (b < Len(r)) /\ Cardinality(NullsIn(r)) = b + (m0 - begin - out)
    BY <1>1, <1>3, <1>4, <1>7, <2>2, <2>3, <2>4 DEF b
  <2>7. \A i \in 1 .. b : IsNull(r[i])
    BY <1>3, <1>7, <2>3
  <2>. QED BY <2>3, <2>4, <2>5, <2>6, <2>7 DEF b, FirstTrims
<1>8. CASE b < Len(s)
  <2>1. ~ IsNull(s[b + 1]) /\ b + 1 \in 1 .. Len(s)
    BY <1>2, <1>3, <1>8, <1>1 DEF b
  <2>2. b + 1 <= Len(s) - t
    BY <1>1, <1>3, <1>5, <2>1
  <2>. DEFINE w == WithoutLast(s, t)
  <2>3. w \in Seq(Item) /\ Len(w) = Len(s) - t /\ \A i \in 1 .. Len(s) - t : w[i] = s[i]
    BY <1>5, LastDropped
  <2>4. Cardinality(NullsIn(w)) = Cardinality(NullsIn(s)) - t /\ Items(w) = Items(s)
    BY <1>5, NullsWithoutLast
  <2>. HIDE DEF w
  <2>5. b \in 0 .. Len(w) /\ \A i \in 1 .. b : IsNull(w[i])
    BY <1>3, <1>5, <2>2, <2>3
  <2>6. b <= Cardinality(NullsIn(w))
    BY <2>3, <2>5, NullsWithoutFirst
  <2>7. t <= m0 - begin /\ out = t
    BY <1>1, <1>4, <1>5, <1>6, <2>4, <2>6 DEF b
  <2>8. r = w
    BY <2>7 DEF w
  <2>9. ~ IsNull(Last(r))
    <3>1. Len(s) - t \in 1 .. Len(s) - t /\ t < Len(s)
      BY <1>1, <1>3, <1>5, <2>2
    <3>2. Last(w) = w[Len(s) - t]
      BY <2>3 DEF Last
    <3>. QED BY <1>5, <2>3, <2>8, <3>1, <3>2
  <2>10. ~ IsNull(r[b + 1])
    BY <1>1, <1>3, <1>5, <2>1, <2>2, <2>3, <2>8
  <2>11. begin \in 0 .. m0 /\ out \in 0 .. m0 - begin /\ out \in 0 .. Len(s) /\ Len(r) = Len(s) - out
    BY <1>1, <1>4, <1>5, <2>3, <2>7, <2>8
  <2>12. b <= Len(r) /\ Cardinality(NullsIn(r)) = b + (m0 - begin - out)
    <3>1. b \in Nat /\ b0 \in Nat /\ m0 \in Nat /\ begin \in Nat /\ t \in Nat /\ Len(w) \in Nat /\ b <= Len(w)
      BY <1>1, <1>3, <1>4, <1>5, <2>3, <2>5
    <3>2. Cardinality(NullsIn(r)) = b0 + m0 - t
      <4>1. Cardinality(NullsIn(s)) = b0 + m0 /\ Cardinality(NullsIn(r)) = Cardinality(NullsIn(s)) - t
        BY <2>4, <2>8
      <4>. QED BY ONLY <3>1, <4>1
    <3>3. out = t /\ b = b0 + begin
      BY <2>7 DEF b
    <3>. QED BY ONLY <2>8, <3>1, <3>2, <3>3
  <2>13. r \in Seq(Item) /\ (\A i \in 1 .. Len(r) : r[i] = s[i]) /\ \A i \in 1 .. b : IsNull(r[i])
    BY <2>3, <2>5, <2>8
  <2>. QED BY <2>4, <2>8, <2>9, <2>10, <2>11, <2>12, <2>13 DEF b, FirstTrims
<1>9. b = Len(s) \/ b < Len(s)
  <2>1. b \in Nat /\ b <= Len(s)
    BY <1>1, <1>3
  <2>2. Len(s) \in Nat
    BY <1>1
  <2>. QED BY <2>1, <2>2
<1>. QED BY <1>7, <1>8, <1>9

(* ... and of the 2nd                                                        *)
LEMMA SecondTrimmed ==
  ASSUME NEW s \in Seq(Item), NEW k, k = Cardinality(NullsIn(s)),
         NEW out, out = AtMost(k, NullsAtEnd(s)),
         NEW w, w = WithoutLast(s, out),
         NEW begin, begin = AtMost(k - out, NullsAfter(w, 0)),
         NEW r, r = WithoutFirst(w, begin)
  PROVE  /\ out \in 0 .. k /\ begin \in 0 .. k - out
         /\ r \in Seq(Item) /\ Len(r) = Len(s) - out - begin
         /\ \A i \in 1 .. Len(r) : r[i] = s[i + begin]
         /\ Cardinality(NullsIn(r)) = k - out - begin
         /\ Items(r) = Items(s)
         /\ r # <<>> => ~ IsNull(r[1]) /\ ~ IsNull(Last(r))
<1>. DEFINE t == NullsAtEnd(s)
            f == NullsAfter(w, 0)
<1>1. Len(s) \in Nat /\ k \in Nat
  BY NullsFinite
<1>2. /\ t \in 0 .. Len(s) /\ \A i \in Len(s) - t + 1 .. Len(s) : IsNull(s[i])
      /\ t < Len(s) => ~ IsNull(s[Len(s) - t])
  BY NullsAtEndIs
<1>3. /\ Cardinality(NullsIn(WithoutLast(s, t))) = k - t /\ Items(WithoutLast(s, t)) = Items(s) /\ t <= k
  BY <1>2, NullsWithoutLast
<1>4. out = t
  BY <1>1, <1>2, <1>3 DEF AtMost
<1>5. w \in Seq(Item) /\ Len(w) = Len(s) - t /\ \A i \in 1 .. Len(s) - t : w[i] = s[i]
  BY <1>2, <1>4, LastDropped
<1>6. Cardinality(NullsIn(w)) = k - t /\ Items(w) = Items(s)
  BY <1>3, <1>4
<1>. HIDE DEF t
<1>7. /\ f \in 0 .. Len(w) /\ \A i \in 1 .. f : IsNull(w[i])
      /\ f < Len(w) => ~ IsNull(w[f + 1])
  <2>1. 0 \in 0 .. Len(w)
    BY <1>5, LenProperties
  <2>2. /\ f \in 0 .. Len(w) - 0 /\ \A i \in 0 + 1 .. 0 + f : IsNull(w[i])
        /\ 0 + f < Len(w) => ~ IsNull(w[0 + f + 1])
    BY <1>5, <2>1, NullsAfterIs
  <2>. QED BY <1>5, <2>2, LenProperties
<1>8. /\ Cardinality(NullsIn(WithoutFirst(w, f))) = k - t - f /\ Items(WithoutFirst(w, f)) = Items(w)
      /\ f <= k - t
  BY <1>5, <1>6, <1>7, NullsWithoutFirst
<1>9. begin = f
  BY <1>1, <1>2, <1>4, <1>7, <1>8 DEF AtMost
<1>. HIDE DEF f
<1>10. r \in Seq(Item) /\ Len(r) = Len(w) - f /\ \A i \in 1 .. Len(w) - f : r[i] = w[i + f]
  <2>1. r = WithoutFirst(w, f) /\ f \in 0 .. Len(w) /\ w \in Seq(Item)
    BY <1>5, <1>7, <1>9
  <2>2. /\ WithoutFirst(w, f) \in Seq(Item) /\ Len(WithoutFirst(w, f)) = Len(w) - f
        /\ \A i \in 1 .. Len(w) - f : WithoutFirst(w, f)[i] = w[i + f]
    BY <2>1, FirstDropped, Zenon
  <2>. QED BY <2>1, <2>2, Zenon
<1>11. ASSUME NEW i \in 1 .. Len(r) PROVE r[i] = s[i + begin]
  <2>1. Len(w) \in Nat /\ f \in Nat /\ t \in Nat /\ Len(w) = Len(s) - t
    BY <1>2, <1>5, <1>7
  <2>2. i \in 1 .. Len(w) - f /\ i + f \in 1 .. Len(s) - t
    BY <1>1, <1>10, <2>1
  <2>. QED BY <1>5, <1>9, <1>10, <2>2
<1>12. ASSUME r # <<>> PROVE ~ IsNull(r[1]) /\ ~ IsNull(Last(r))
  <2>1. Len(r) \in 1 .. Len(r) /\ 1 \in 1 .. Len(r) /\ Last(r) = r[Len(r)]
    BY <1>10, <1>12, LastIs, LenProperties
  <2>0. Len(w) \in Nat /\ f \in Nat /\ Len(r) = Len(w) - f
    BY <1>5, <1>7, <1>10, LenProperties
  <2>4. f < Len(w) /\ 1 \in 1 .. Len(w) - f /\ Len(r) \in 1 .. Len(w) - f /\ 1 + f = f + 1 /\ Len(r) + f = Len(w)
    BY <2>0, <2>1
  <2>2. f < Len(w) /\ r[1] = w[f + 1] /\ r[Len(r)] = w[Len(w)]
    BY <1>10, <2>4
  <2>3. w[Len(w)] = s[Len(s) - t] /\ t < Len(s)
    <3>1. Len(w) = Len(s) - t /\ Len(w) \in 1 .. Len(s) - t /\ Len(s) \in Nat /\ t \in Nat
      BY <1>1, <1>2, <1>5, <2>0, <2>2
    <3>2. w[Len(w)] = s[Len(w)]
      BY <1>5, <3>1
    <3>. QED BY <3>1, <3>2
  <2>. QED BY <1>2, <1>7, <2>1, <2>2, <2>3
<1>. QED BY <1>1, <1>2, <1>4, <1>5, <1>6, <1>7, <1>8, <1>9, <1>10, <1>11, <1>12

-----------------------------------------------------------------------------
(* The two vectors together                                                  *)

LEMMA RecordIs ==
  ASSUME NEW l \in LinearRecord
  PROVE  /\ l.first \in Seq(Item) /\ l.second \in Seq(Item) /\ l.mode \in {"empty", "ring", "double"}
         /\ l.nullBegin \in Nat /\ l.nullMiddle \in Nat /\ l.nullSecond \in Nat /\ l.sumFree \in Int
         /\ DOMAIN l.first = 1 .. Len(l.first) /\ DOMAIN l.second = 1 .. Len(l.second)
         /\ Len(l.first) \in Nat /\ Len(l.second) \in Nat
         /\ \A i \in DOMAIN l.first : l.first[i] \in Item
         /\ \A i \in DOMAIN l.second : l.second[i] \in Item
BY LenProperties DEF LinearRecord

LEMMA FirstEmptied ==
  ASSUME NEW l \in LinearRecord
  PROVE  [l EXCEPT !.first = <<>>, !.nullBegin = 0] \in LinearRecord
<1>1. <<>> \in Seq(Item) /\ 0 \in Nat
  OBVIOUS
<1>2. ASSUME NEW f \in Seq(Item), NEW b \in Nat
      PROVE  [l EXCEPT !.first = f, !.nullBegin = b] \in LinearRecord
  BY DEF LinearRecord
<1>. QED BY <1>1, <1>2, Zenon

LEMMA FirstReplaced ==
  ASSUME NEW l \in LinearRecord, NEW f \in Seq(Item)
  PROVE  [l EXCEPT !.first = f, !.nullBegin = 0, !.nullMiddle = 0] \in LinearRecord
<1>1. 0 \in Nat
  OBVIOUS
<1>2. ASSUME NEW b \in Nat, NEW n \in Nat
      PROVE  [l EXCEPT !.first = f, !.nullBegin = b, !.nullMiddle = n] \in LinearRecord
  BY DEF LinearRecord
<1>. QED BY <1>1, <1>2, Zenon

LEMMA BothReplaced ==
  ASSUME NEW l \in LinearRecord, NEW f \in Seq(Item), NEW n \in Nat
  PROVE  [l EXCEPT !.first = f, !.second = <<>>, !.mode = "empty", !.nullBegin = 0, !.nullMiddle = n,
                   !.nullSecond = 0] \in LinearRecord
<1>1. <<>> \in Seq(Item) /\ 0 \in Nat /\ "empty" \in {"empty", "ring", "double"}
  OBVIOUS
<1>2. ASSUME NEW s \in Seq(Item), NEW mode \in {"empty", "ring", "double"}, NEW b \in Nat, NEW k \in Nat
      PROVE  [l EXCEPT !.first = f, !.second = s, !.mode = mode, !.nullBegin = b, !.nullMiddle = n,
                       !.nullSecond = k] \in LinearRecord
  BY DEF LinearRecord
<1>. QED BY <1>1, <1>2, Zenon

(* Where the items that are not null are                                     *)
LEMMA ItemAt ==
  ASSUME NEW l \in LinearRecord, Counted(l)
  PROVE  /\ \A r \in Items(l.first) : \E i \in l.nullBegin + 1 .. Len(l.first) :
              i \in DOMAIN l.first /\ ~ IsNull(l.first[i]) /\ r = l.first[i]
         /\ \A r \in Items(l.second) : \E i \in DOMAIN l.second : ~ IsNull(l.second[i]) /\ r = l.second[i]
<1>1. \A r \in Items(l.first) : \E i \in DOMAIN l.first : ~ IsNull(l.first[i]) /\ r = l.first[i]
  BY DEF Items
<1>2. \A i \in DOMAIN l.first : ~ IsNull(l.first[i]) => i \in l.nullBegin + 1 .. Len(l.first)
  <2>1. \A i \in 1 .. Len(l.first) : ~ IsNull(l.first[i]) => ~ (i <= l.nullBegin)
    BY RecordIs DEF Counted
  <2>. QED BY <2>1, RecordIs
<1>3. \A r \in Items(l.second) : \E i \in DOMAIN l.second : ~ IsNull(l.second[i]) /\ r = l.second[i]
  BY DEF Items
<1>. QED BY <1>1, <1>2, <1>3

LEMMA ApartVectors ==
  ASSUME NEW l \in LinearRecord, InOrder(l),
         NEW i \in l.nullBegin + 1 .. Len(l.first), NEW j \in DOMAIN l.second
  PROVE  /\ Before(l.first[i], l.second[j]) \/ Before(l.second[j], l.first[i])
         /\ l.first[i].at # l.second[j].at /\ l.first[i] # l.second[j]
<1>1. i \in DOMAIN l.first /\ l.second # <<>>
  BY RecordIs
<1>2. l.first[i] \in Item /\ l.second[j] \in Item
  BY <1>1, RecordIs
<1>3. Before(l.first[i], l.second[j]) \/ Before(l.second[j], l.first[i])
  BY <1>1, RecordIs DEF InOrder
<1>. QED BY <1>2, <1>3 DEF Before, Item

(* No two live items begin at the same place.                                *)
LEMMA AtUnique ==
  ASSUME NEW l \in LinearRecord, InOrder(l), Counted(l),
         NEW r \in Live(l), NEW x \in Live(l), r.at = x.at
  PROVE  r = x
<1>1. Ascending(l.first) /\ (Ascending(l.second) \/ Descending(l.second))
  <2>1. l.second = <<>> => Ascending(l.second)
    BY DEF Ascending
  <2>. QED BY <2>1, RecordIs DEF InOrder
<1>2. ASSUME NEW a \in Items(l.first), NEW b \in Items(l.second) PROVE a.at # b.at
  <2>1. PICK i \in l.nullBegin + 1 .. Len(l.first) : a = l.first[i]
    BY ItemAt
  <2>2. PICK j \in DOMAIN l.second : b = l.second[j]
    BY ItemAt
  <2>. QED BY <2>1, <2>2, ApartVectors
<1>3. ASSUME NEW s \in Seq(Item), Ascending(s) \/ Descending(s),
             NEW a \in Items(s), NEW b \in Items(s), a.at = b.at
      PROVE  a = b
  <2>1. PICK i \in DOMAIN s : a = s[i]
    BY DEF Items
  <2>2. PICK j \in DOMAIN s : b = s[j]
    BY DEF Items
  <2>3. i = j
    BY <1>3, <2>1, <2>2, Distinct
  <2>. QED BY <2>1, <2>2, <2>3
<1>4. l.first \in Seq(Item) /\ l.second \in Seq(Item)
  BY RecordIs
<1>5. \A a, b \in Items(l.first) : a.at = b.at => a = b
  BY <1>1, <1>3, <1>4
<1>6. \A a, b \in Items(l.second) : a.at = b.at => a = b
  BY <1>1, <1>3, <1>4
<1>7. r \in Items(l.first) \/ r \in Items(l.second)
  BY DEF Live
<1>8. x \in Items(l.first) \/ x \in Items(l.second)
  BY DEF Live
<1>. QED BY <1>2, <1>5, <1>6, <1>7, <1>8

LEMMA FreedInFirst ==
  ASSUME NEW l \in LinearRecord, InOrder(l), Counted(l),
         NEW i \in l.nullBegin + 1 .. Len(l.first), ~ IsNull(l.first[i]),
         NEW m \in LinearRecord, m.first = Nulled(l.first, i), m.second = l.second, m.mode = l.mode,
         m.nullSecond = l.nullSecond,
         \/ m.nullBegin = l.nullBegin /\ m.nullMiddle = l.nullMiddle + 1
         \/ i = l.nullBegin + 1 /\ m.nullBegin = l.nullBegin + 1 /\ m.nullMiddle = l.nullMiddle
  PROVE  InOrder(m) /\ Counted(m) /\ Live(m) = Live(l) \ {l.first[i]}
<1>1. Ascending(l.first) /\ i \in DOMAIN l.first /\ l.first \in Seq(Item)
  BY RecordIs DEF InOrder
<1>2. /\ Len(m.first) = Len(l.first) /\ DOMAIN m.first = DOMAIN l.first
      /\ \A j \in DOMAIN l.first : m.first[j].at = l.first[j].at /\ m.first[j].size = l.first[j].size
      /\ \A j \in DOMAIN l.first : j # i => m.first[j] = l.first[j]
      /\ IsNull(m.first[i])
      /\ Cardinality(NullsIn(m.first)) = Cardinality(NullsIn(l.first)) + 1
      /\ Items(m.first) = Items(l.first) \ {l.first[i]}
  BY <1>1, NulledIs
<1>3. Live(m) = Live(l) \ {l.first[i]}
  <2>1. l.first[i] \notin Items(l.second)
    BY ItemAt, ApartVectors
  <2>. QED BY <1>2, <2>1 DEF Live
<1>4. InOrder(m)
  <2>1. Ascending(m.first) /\ Inside(m.first)
    BY <1>2 DEF InOrder, Ascending, Inside, Before
  <2>2. /\ Inside(m.second)
        /\ m.mode = "empty" => m.second = <<>>
        /\ m.mode = "ring" => Ascending(m.second)
        /\ m.mode = "double" => Descending(m.second)
    BY DEF InOrder
  <2>3. ASSUME m.mode = "ring", NEW j \in DOMAIN m.second, NEW k \in m.nullBegin + 1 .. Len(m.first)
        PROVE  Before(m.second[j], m.first[k])
    <3>1. k \in l.nullBegin + 1 .. Len(l.first) /\ k \in DOMAIN l.first
      BY <1>2, RecordIs
    <3>2. Before(l.second[j], l.first[k])
      BY <2>3, <3>1 DEF InOrder
    <3>. QED BY <1>2, <3>1, <3>2 DEF Before
  <2>4. ASSUME m.mode = "double", NEW k \in DOMAIN m.first, NEW j \in DOMAIN m.second
        PROVE  Before(m.first[k], m.second[j])
    BY <1>2, <2>4 DEF InOrder, Before
  <2>. QED BY <2>1, <2>2, <2>3, <2>4 DEF InOrder
<1>5. Counted(m)
  <2>1. m.nullBegin <= Len(m.first)
    BY <1>2, RecordIs DEF Counted
  <2>2. ASSUME NEW j \in 1 .. m.nullBegin PROVE IsNull(m.first[j])
    <3>1. j \in DOMAIN l.first
      BY <1>2, <2>1, RecordIs
    <3>2. j = i \/ (j \in 1 .. l.nullBegin /\ j # i)
      BY RecordIs
    <3>. QED BY <1>2, <3>1, <3>2 DEF Counted
  <2>3. Cardinality(NullsIn(m.second)) = m.nullSecond
    BY DEF Counted
  <2>4. Cardinality(NullsIn(m.first)) = m.nullBegin + m.nullMiddle
    <3>1. Cardinality(NullsIn(m.first)) = l.nullBegin + l.nullMiddle + 1
      BY <1>2 DEF Counted
    <3>2. l.nullBegin \in Nat /\ l.nullMiddle \in Nat
      BY RecordIs
    <3>. QED BY <3>1, <3>2
  <2>. QED BY <2>1, <2>2, <2>3, <2>4 DEF Counted
<1>. QED BY <1>3, <1>4, <1>5

LEMMA FreedInSecond ==
  ASSUME NEW l \in LinearRecord, InOrder(l), Counted(l),
         NEW i \in DOMAIN l.second, ~ IsNull(l.second[i]),
         NEW m \in LinearRecord, m.second = Nulled(l.second, i), m.first = l.first, m.mode = l.mode,
         m.nullBegin = l.nullBegin, m.nullMiddle = l.nullMiddle, m.nullSecond = l.nullSecond + 1
  PROVE  InOrder(m) /\ Counted(m) /\ Live(m) = Live(l) \ {l.second[i]}
<1>1. (Ascending(l.second) \/ Descending(l.second)) /\ l.second \in Seq(Item)
  <2>1. l.second = <<>> => Ascending(l.second)
    BY DEF Ascending
  <2>. QED BY <2>1, RecordIs DEF InOrder
<1>2. /\ Len(m.second) = Len(l.second) /\ DOMAIN m.second = DOMAIN l.second
      /\ \A j \in DOMAIN l.second : m.second[j].at = l.second[j].at /\ m.second[j].size = l.second[j].size
      /\ Cardinality(NullsIn(m.second)) = Cardinality(NullsIn(l.second)) + 1
      /\ Items(m.second) = Items(l.second) \ {l.second[i]}
  BY <1>1, NulledIs
<1>3. Live(m) = Live(l) \ {l.second[i]}
  <2>1. l.second[i] \notin Items(l.first)
    BY ItemAt, ApartVectors
  <2>. QED BY <1>2, <2>1 DEF Live
<1>4. InOrder(m)
  <2>1. /\ Ascending(l.second) => Ascending(m.second)
        /\ Descending(l.second) => Descending(m.second)
        /\ Inside(m.second)
    BY <1>2 DEF InOrder, Ascending, Descending, Inside, Before
  <2>2. Ascending(m.first) /\ Inside(m.first)
    BY DEF InOrder
  <2>3. m.mode = "empty" => m.second = <<>>
    <3>1. l.second # <<>>
      OBVIOUS
    <3>. QED BY <3>1 DEF InOrder
  <2>4. ASSUME m.mode = "ring", NEW j \in DOMAIN m.second, NEW k \in m.nullBegin + 1 .. Len(m.first)
        PROVE  Before(m.second[j], m.first[k])
    BY <1>2, <2>4 DEF InOrder, Before
  <2>5. ASSUME m.mode = "double", NEW k \in DOMAIN m.first, NEW j \in DOMAIN m.second
        PROVE  Before(m.first[k], m.second[j])
    BY <1>2, <2>5 DEF InOrder, Before
  <2>6. (m.mode = "ring" => Ascending(l.second)) /\ (m.mode = "double" => Descending(l.second))
    BY DEF InOrder
  <2>. QED BY <2>1, <2>2, <2>3, <2>4, <2>5, <2>6 DEF InOrder
<1>5. Counted(m)
  BY <1>2 DEF Counted
<1>. QED BY <1>3, <1>4, <1>5

LEMMA PoppedFromFirst ==
  ASSUME NEW l \in LinearRecord, InOrder(l), Counted(l), l.mode = "empty",
         l.nullBegin < Len(l.first), ~ IsNull(Last(l.first)),
         NEW m \in LinearRecord, m.first = WithoutLast(l.first, 1), m.second = l.second, m.mode = l.mode,
         m.nullBegin = l.nullBegin, m.nullMiddle = l.nullMiddle, m.nullSecond = l.nullSecond
  PROVE  InOrder(m) /\ Counted(m) /\ Live(m) = Live(l) \ {Last(l.first)}
<1>1. /\ l.first \in Seq(Item) /\ l.first # <<>> /\ Ascending(l.first) /\ l.second = <<>>
      /\ Len(l.first) \in Nat /\ l.nullBegin \in Nat
  BY RecordIs DEF InOrder
<1>2. /\ Len(m.first) = Len(l.first) - 1 /\ \A i \in 1 .. Len(l.first) - 1 : m.first[i] = l.first[i]
      /\ NullsIn(m.first) = NullsIn(l.first)
      /\ Items(m.first) = Items(l.first) \ {Last(l.first)}
  BY <1>1, PoppedIs
<1>3. DOMAIN m.first = 1 .. Len(l.first) - 1 /\ DOMAIN l.first = 1 .. Len(l.first)
  BY <1>2, RecordIs
<1>4. Live(m) = Live(l) \ {Last(l.first)}
  <2>1. Items(<<>>) = {}
    BY DEF Items
  <2>. QED BY <1>1, <1>2, <2>1 DEF Live
<1>5. InOrder(m)
  <2>1. Ascending(m.first) /\ Inside(m.first)
    <3>1. \A i \in DOMAIN m.first : i \in DOMAIN l.first /\ m.first[i] = l.first[i]
      BY <1>1, <1>2, <1>3
    <3>. QED BY <3>1 DEF InOrder, Ascending, Inside
  <2>. QED BY <1>1, <2>1 DEF InOrder
<1>6. Counted(m)
  <2>1. m.nullBegin <= Len(m.first)
    BY <1>1, <1>2
  <2>2. \A j \in 1 .. m.nullBegin : IsNull(m.first[j])
    BY <1>1, <1>2 DEF Counted
  <2>. QED BY <1>2, <2>1, <2>2 DEF Counted
<1>. QED BY <1>4, <1>5, <1>6

LEMMA PoppedFromSecond ==
  ASSUME NEW l \in LinearRecord, InOrder(l), Counted(l), l.second # <<>>, ~ IsNull(Last(l.second)),
         NEW m \in LinearRecord, m.second = WithoutLast(l.second, 1), m.first = l.first, m.mode = l.mode,
         m.nullBegin = l.nullBegin, m.nullMiddle = l.nullMiddle, m.nullSecond = l.nullSecond
  PROVE  InOrder(m) /\ Counted(m) /\ Live(m) = Live(l) \ {Last(l.second)}
<1>1. (Ascending(l.second) \/ Descending(l.second)) /\ l.second \in Seq(Item) /\ Len(l.second) \in Nat
  BY RecordIs DEF InOrder
<1>2. /\ Len(m.second) = Len(l.second) - 1 /\ \A i \in 1 .. Len(l.second) - 1 : m.second[i] = l.second[i]
      /\ NullsIn(m.second) = NullsIn(l.second)
      /\ Items(m.second) = Items(l.second) \ {Last(l.second)}
  BY <1>1, PoppedIs
<1>3. DOMAIN m.second = 1 .. Len(l.second) - 1 /\ DOMAIN l.second = 1 .. Len(l.second)
  BY <1>2, RecordIs
<1>4. Live(m) = Live(l) \ {Last(l.second)}
  <2>1. Len(l.second) \in DOMAIN l.second /\ Last(l.second) = l.second[Len(l.second)]
    BY <1>1, LastIs
  <2>2. Last(l.second) \notin Items(l.first)
    BY <2>1, ItemAt, ApartVectors
  <2>. QED BY <1>2, <2>2 DEF Live
<1>5. InOrder(m)
  <2>1. \A i \in DOMAIN m.second : i \in DOMAIN l.second /\ m.second[i] = l.second[i]
    BY <1>1, <1>2, <1>3
  <2>2. /\ Ascending(l.second) => Ascending(m.second)
        /\ Descending(l.second) => Descending(m.second)
        /\ Inside(m.second)
    BY <2>1 DEF InOrder, Ascending, Descending, Inside
  <2>3. m.mode # "empty"
    BY DEF InOrder
  <2>4. ASSUME m.mode = "ring", NEW j \in DOMAIN m.second, NEW k \in m.nullBegin + 1 .. Len(m.first)
        PROVE  Before(m.second[j], m.first[k])
    BY <2>1, <2>4 DEF InOrder
  <2>5. ASSUME m.mode = "double", NEW k \in DOMAIN m.first, NEW j \in DOMAIN m.second
        PROVE  Before(m.first[k], m.second[j])
    BY <2>1, <2>5 DEF InOrder
  <2>6. /\ Ascending(m.first) /\ Inside(m.first)
        /\ (m.mode = "ring" => Ascending(l.second)) /\ (m.mode = "double" => Descending(l.second))
    BY DEF InOrder
  <2>. QED BY <2>2, <2>3, <2>4, <2>5, <2>6 DEF InOrder
<1>6. Counted(m)
  BY <1>2 DEF Counted
<1>. QED BY <1>4, <1>5, <1>6

-----------------------------------------------------------------------------
(* CleanupAfterFree, one loop after the other                                *)

EndsClean(l) ==
  /\ l.nullBegin < Len(l.first) => ~ IsNull(l.first[l.nullBegin + 1]) /\ ~ IsNull(Last(l.first))
  /\ l.second # <<>> => ~ IsNull(l.second[1]) /\ ~ IsNull(Last(l.second))

(* m has the allocations of l.                                               *)
Keeps(m, l) == Live(m) = Live(l) /\ m.sumFree = l.sumFree

LEMMA EndsTrimmedIs ==
  ASSUME NEW l, Loose(l), NEW m, m = EndsTrimmed(l)
  PROVE  Loose(m) /\ EndsClean(m) /\ Keeps(m, l)
<1>. DEFINE s == l.first
            begin == NullsAfter(s, l.nullBegin)
            out == AtMost(l.nullMiddle - begin, NullsAtEnd(s))
            r == WithoutLast(s, out)
            s2 == l.second
            out2 == AtMost(l.nullSecond, NullsAtEnd(s2))
            w == WithoutLast(s2, out2)
            begin2 == AtMost(l.nullSecond - out2, NullsAfter(w, 0))
            r2 == WithoutFirst(w, begin2)
<1>0. l \in LinearRecord /\ InOrder(l) /\ Counted(l)
  BY DEF Loose
<1>1. /\ s \in Seq(Item) /\ l.nullBegin \in 0 .. Len(s) /\ l.nullMiddle \in Nat
      /\ (\A i \in 1 .. l.nullBegin : IsNull(s[i]))
      /\ Cardinality(NullsIn(s)) = l.nullBegin + l.nullMiddle
      /\ s2 \in Seq(Item) /\ l.nullSecond = Cardinality(NullsIn(s2))
  BY <1>0, RecordIs DEF Counted
<1>2. m = [l EXCEPT !.nullBegin = @ + begin, !.nullMiddle = l.nullMiddle - begin - out, !.first = r,
                    !.nullSecond = @ - out2 - begin2, !.second = r2]
  BY Zenon DEF EndsTrimmed
<1>. HIDE DEF begin, out, r, out2, w, begin2, r2
<1>3. /\ begin \in 0 .. l.nullMiddle /\ out \in 0 .. l.nullMiddle - begin
      /\ r \in Seq(Item) /\ Len(r) = Len(s) - out /\ \A i \in 1 .. Len(r) : r[i] = s[i]
      /\ l.nullBegin + begin <= Len(r) /\ \A i \in 1 .. l.nullBegin + begin : IsNull(r[i])
      /\ Cardinality(NullsIn(r)) = l.nullBegin + begin + (l.nullMiddle - begin - out)
      /\ Items(r) = Items(s)
      /\ l.nullBegin + begin < Len(r) => ~ IsNull(r[l.nullBegin + begin + 1]) /\ ~ IsNull(Last(r))
  <2>. DEFINE b0 == l.nullBegin  m0 == l.nullMiddle
  <2>. HIDE DEF s
  <2>1. begin = NullsAfter(s, b0) /\ out = AtMost(m0 - begin, NullsAtEnd(s)) /\ r = WithoutLast(s, out)
    BY DEF begin, out, r
  <2>2. /\ s \in Seq(Item) /\ b0 \in 0 .. Len(s) /\ m0 \in Nat
        /\ (\A i \in 1 .. b0 : IsNull(s[i])) /\ Cardinality(NullsIn(s)) = b0 + m0
    BY <1>1
  <2>. HIDE DEF b0, m0
  <2>3. FirstTrims(s, b0, m0, begin, out, r)
    BY <2>1, <2>2, FirstTrimmed
  <2>. QED BY <2>3 DEF b0, m0, FirstTrims
<1>4. /\ out2 \in 0 .. l.nullSecond /\ begin2 \in 0 .. l.nullSecond - out2
      /\ r2 \in Seq(Item) /\ Len(r2) = Len(s2) - out2 - begin2
      /\ \A i \in 1 .. Len(r2) : r2[i] = s2[i + begin2]
      /\ Cardinality(NullsIn(r2)) = l.nullSecond - out2 - begin2
      /\ Items(r2) = Items(s2)
      /\ r2 # <<>> => ~ IsNull(r2[1]) /\ ~ IsNull(Last(r2))
  <2>. HIDE DEF s2
  <2>1. /\ out2 = AtMost(l.nullSecond, NullsAtEnd(s2)) /\ w = WithoutLast(s2, out2)
        /\ begin2 = AtMost(l.nullSecond - out2, NullsAfter(w, 0)) /\ r2 = WithoutFirst(w, begin2)
    BY DEF out2, w, begin2, r2
  <2>. QED BY <1>1, <2>1, SecondTrimmed
<1>5. /\ m.first = r /\ m.second = r2 /\ m.mode = l.mode /\ m.nullBegin = l.nullBegin + begin
      /\ m.nullMiddle = l.nullMiddle - begin - out /\ m.nullSecond = l.nullSecond - out2 - begin2
      /\ m.sumFree = l.sumFree
  BY <1>0, <1>2 DEF LinearRecord
<1>6. m \in LinearRecord
  <2>1. l.nullBegin + begin \in Nat /\ l.nullMiddle - begin - out \in Nat /\ l.nullSecond - out2 - begin2 \in Nat
    <3>1. l.nullBegin \in Nat /\ l.nullMiddle \in Nat /\ l.nullSecond \in Nat
      BY <1>0, RecordIs
    <3>2. begin \in 0 .. l.nullMiddle /\ out \in 0 .. l.nullMiddle - begin
      BY <1>3
    <3>3. out2 \in 0 .. l.nullSecond /\ begin2 \in 0 .. l.nullSecond - out2
      BY <1>4
    <3>. QED BY <3>1, <3>2, <3>3
  <2>. QED BY <1>0, <1>2, <1>3, <1>4, <2>1 DEF LinearRecord
<1>7. /\ Len(r) \in Nat /\ Len(s) \in Nat /\ Len(r2) \in Nat /\ Len(s2) \in Nat
      /\ DOMAIN r = 1 .. Len(r) /\ DOMAIN s = 1 .. Len(s) /\ DOMAIN r2 = 1 .. Len(r2) /\ DOMAIN s2 = 1 .. Len(s2)
  BY <1>1, <1>3, <1>4, LenProperties
<1>8. /\ out \in Nat /\ out2 \in Nat /\ begin \in Nat /\ begin2 \in Nat /\ l.nullBegin \in Nat
  BY <1>0, <1>3, <1>4, RecordIs
<1>9. \A i \in DOMAIN r : i \in DOMAIN s /\ r[i] = s[i]
  BY <1>3, <1>7, <1>8
<1>10. \A i \in DOMAIN r2 : i + begin2 \in DOMAIN s2 /\ r2[i] = s2[i + begin2] /\ i \in Nat
  <2>. HIDE DEF s2
  <2>1. \A i \in 1 .. Len(r2) : i + begin2 \in 1 .. Len(s2)
    <3>1. Len(r2) = Len(s2) - out2 - begin2
      BY <1>4
    <3>2. Len(r2) \in Nat /\ Len(s2) \in Nat /\ out2 \in Nat /\ begin2 \in Nat
      BY <1>7, <1>8
    <3>. QED BY ONLY <3>1, <3>2
  <2>2. DOMAIN r2 = 1 .. Len(r2) /\ DOMAIN s2 = 1 .. Len(s2)
    BY <1>7
  <2>3. \A i \in 1 .. Len(r2) : r2[i] = s2[i + begin2]
    BY <1>4
  <2>. QED BY <2>1, <2>2, <2>3
<1>. HIDE DEF s, s2
<1>11. /\ Ascending(s) /\ Inside(s) /\ Inside(s2)
       /\ l.mode = "empty" => s2 = <<>>
       /\ l.mode = "ring" =>
            /\ Ascending(s2)
            /\ \A i \in DOMAIN s2 : \A j \in l.nullBegin + 1 .. Len(s) : Before(s2[i], s[j])
       /\ l.mode = "double" =>
            /\ Descending(s2)
            /\ \A i \in DOMAIN s : \A j \in DOMAIN s2 : Before(s[i], s2[j])
  BY <1>0 DEF InOrder, s, s2
<1>12. Ascending(r) /\ Inside(r) /\ Inside(r2)
  BY <1>9, <1>10, <1>11 DEF Ascending, Inside
<1>13. /\ Ascending(s2) => Ascending(r2)
       /\ Descending(s2) => Descending(r2)
  <2>1. \A i, j \in DOMAIN r2 : i < j => i + begin2 < j + begin2
    BY <1>8, <1>10
  <2>. QED BY <1>10, <2>1 DEF Ascending, Descending
<1>14. s2 = <<>> => r2 = <<>>
  <2>1. s2 = <<>> => Len(s2) = 0
    OBVIOUS
  <2>2. s2 = <<>> => Len(r2) = 0
    BY <1>4, <1>7, <1>8, <2>1
  <2>. QED BY <1>4, <2>2, EmptySeq
<1>15. ASSUME l.mode = "ring", NEW i \in DOMAIN r2, NEW j \in m.nullBegin + 1 .. Len(r)
       PROVE  Before(r2[i], r[j])
  <2>1. j \in l.nullBegin + 1 .. Len(s) /\ j \in DOMAIN r
    <3>1. Len(r) <= Len(s) /\ m.nullBegin = l.nullBegin + begin
      BY <1>3, <1>5, <1>7, <1>8
    <3>. QED BY <1>7, <1>8, <1>15, <3>1
  <2>. QED BY <1>9, <1>10, <1>11, <1>15, <2>1
<1>16. ASSUME l.mode = "double", NEW i \in DOMAIN r, NEW j \in DOMAIN r2
       PROVE  Before(r[i], r2[j])
  BY <1>9, <1>10, <1>11, <1>16
<1>17. InOrder(m)
  BY <1>5, <1>11, <1>12, <1>13, <1>14, <1>15, <1>16 DEF InOrder
<1>18. Counted(m)
  BY <1>3, <1>4, <1>5 DEF Counted
<1>19. EndsClean(m)
  BY <1>3, <1>4, <1>5 DEF EndsClean
<1>20. Keeps(m, l)
  BY <1>3, <1>4, <1>5 DEF Keeps, Live, s, s2
<1>. QED BY <1>6, <1>17, <1>18, <1>19, <1>20 DEF Loose

LEMMA CompactedIs ==
  ASSUME NEW l, Loose(l), EndsClean(l), NEW m, m = Compacted(l)
  PROVE  Loose(m) /\ EndsClean(m) /\ Keeps(m, l)
<1>. DEFINE p == Packed(l.first)
<1>0. l \in LinearRecord /\ InOrder(l) /\ Counted(l)
  BY DEF Loose
<1>1. m = l \/ m = [l EXCEPT !.first = p, !.nullBegin = 0, !.nullMiddle = 0]
  BY DEF Compacted
<1>2. CASE m = l
  BY <1>2 DEF Keeps
<1>3. CASE m = [l EXCEPT !.first = p, !.nullBegin = 0, !.nullMiddle = 0]
  <2>1. /\ p \in Seq(Item) /\ NullsIn(p) = {} /\ Items(p) = Items(l.first) /\ Ascending(p)
        /\ \A d \in DOMAIN p : \E i \in DOMAIN l.first : ~ IsNull(l.first[i]) /\ p[d] = l.first[i]
    BY <1>0, PackedIs, RecordIs DEF InOrder
  <2>. HIDE DEF p
  <2>2. /\ m.first = p /\ m.second = l.second /\ m.mode = l.mode /\ m.nullBegin = 0 /\ m.nullMiddle = 0
        /\ m.nullSecond = l.nullSecond /\ m.sumFree = l.sumFree /\ m \in LinearRecord
    <3>1. /\ m.first = p /\ m.second = l.second /\ m.mode = l.mode /\ m.nullBegin = 0 /\ m.nullMiddle = 0
          /\ m.nullSecond = l.nullSecond /\ m.sumFree = l.sumFree
      BY <1>0, <1>3 DEF LinearRecord
    <3>2. m \in LinearRecord
      BY <1>0, <1>3, <2>1, FirstReplaced
    <3>. QED BY <3>1, <3>2
  <2>3. \A d \in DOMAIN p : \E i \in l.nullBegin + 1 .. Len(l.first) :
          i \in DOMAIN l.first /\ p[d] = l.first[i]
    <3>1. \A i \in DOMAIN l.first : ~ IsNull(l.first[i]) => i \in l.nullBegin + 1 .. Len(l.first)
      BY <1>0, RecordIs DEF Counted
    <3>. QED BY <2>1, <3>1
  <2>4. DOMAIN p = 1 .. Len(p) /\ Len(p) \in Nat
    BY <2>1, LenProperties
  <2>5. InOrder(m)
    <3>1. Inside(p)
      BY <1>0, <2>3 DEF InOrder, Inside
    <3>2. ASSUME l.mode = "ring", NEW j \in DOMAIN l.second, NEW k \in 0 + 1 .. Len(p)
          PROVE  Before(l.second[j], p[k])
      BY <1>0, <2>3, <2>4, <3>2 DEF InOrder
    <3>3. ASSUME l.mode = "double", NEW k \in DOMAIN p, NEW j \in DOMAIN l.second
          PROVE  Before(p[k], l.second[j])
      BY <1>0, <2>3, <3>3 DEF InOrder
    <3>. QED BY <1>0, <2>1, <2>2, <3>1, <3>2, <3>3 DEF InOrder
  <2>6. Counted(m)
    <3>1. Cardinality(NullsIn(p)) = 0
      BY <2>1, FS_EmptySet
    <3>. QED BY <1>0, <2>2, <2>4, <3>1 DEF Counted
  <2>7. EndsClean(m)
    <3>1. \A i \in DOMAIN p : ~ IsNull(p[i])
      BY <2>1 DEF NullsIn
    <3>2. 0 < Len(p) => ~ IsNull(p[0 + 1]) /\ ~ IsNull(Last(p))
      BY <2>1, <2>4, <3>1 DEF Last
    <3>. QED BY <2>2, <3>2 DEF EndsClean
  <2>8. Keeps(m, l)
    BY <2>1, <2>2 DEF Keeps, Live
  <2>. QED BY <2>2, <2>5, <2>6, <2>7, <2>8 DEF Loose
<1>. QED BY <1>1, <1>2, <1>3

LEMMA ModeLeftIs ==
  ASSUME NEW l, Loose(l), EndsClean(l), NEW m, m = ModeLeft(l)
  PROVE  Loose(m) /\ EndsClean(m) /\ Keeps(m, l) /\ (m.mode = "empty" <=> m.second = <<>>)
<1>0. l \in LinearRecord /\ InOrder(l) /\ Counted(l)
  BY DEF Loose
<1>1. /\ m.first = l.first /\ m.second = l.second /\ m.nullBegin = l.nullBegin
      /\ m.nullMiddle = l.nullMiddle /\ m.nullSecond = l.nullSecond /\ m.sumFree = l.sumFree
      /\ m.mode = IF l.second = <<>> THEN "empty" ELSE l.mode
      /\ m \in LinearRecord
  BY <1>0 DEF ModeLeft, LinearRecord
<1>2. InOrder(m) /\ (m.mode = "empty" <=> m.second = <<>>)
  BY <1>0, <1>1 DEF InOrder
<1>3. Counted(m)
  BY <1>0, <1>1 DEF Counted
<1>. QED BY <1>1, <1>2, <1>3 DEF Loose, EndsClean, Keeps, Live

LEMMA SwappedIs ==
  ASSUME NEW l, Loose(l), EndsClean(l), l.mode = "empty" <=> l.second = <<>>, NEW m, m = Swapped(l)
  PROVE  Loose(m) /\ NoneToDrop(m) /\ Keeps(m, l)
<1>0. l \in LinearRecord /\ InOrder(l) /\ Counted(l)
  BY DEF Loose
<1>1. Len(l.first) \in Nat /\ l.nullBegin \in Nat /\ l.nullMiddle \in Nat /\ l.first \in Seq(Item) /\ l.second \in Seq(Item)
  BY <1>0, RecordIs
<1>2. CASE Len(l.first) > l.nullBegin
  <2>1. m = l /\ l.first # <<>>
    BY <1>1, <1>2 DEF Swapped
  <2>. QED BY <1>0, <1>1, <1>2, <2>1 DEF NoneToDrop, EndsClean, Keeps
<1>3. CASE ~ (Len(l.first) > l.nullBegin)
  <2>1. Len(l.first) = l.nullBegin /\ l.nullMiddle = 0
    <3>1. Cardinality(NullsIn(l.first)) <= Len(l.first)
      BY <1>1, NullsFinite
    <3>2. l.nullBegin <= Len(l.first) /\ Cardinality(NullsIn(l.first)) = l.nullBegin + l.nullMiddle
      BY <1>0 DEF Counted
    <3>. QED BY <1>1, <1>3, <3>1, <3>2
  <2>2. Items(l.first) = {}
    <3>1. \A i \in 1 .. Len(l.first) : IsNull(l.first[i])
      BY <1>0, <2>1 DEF Counted
    <3>2. DOMAIN l.first = 1 .. Len(l.first)
      BY <1>1, LenProperties
    <3>. QED BY <3>1, <3>2 DEF Items
  <2>3. Items(<<>>) = {} /\ NullsIn(<<>>) = {} /\ Cardinality(NullsIn(<<>>)) = 0 /\ Len(<<>>) = 0
    <3>1. NullsIn(<<>>) = {}
      BY DEF NullsIn
    <3>2. Items(<<>>) = {}
      BY DEF Items
    <3>. QED BY <3>1, <3>2, FS_EmptySet
  <2>4. CASE l.second # <<>> /\ l.mode = "ring"
    <3>. DEFINE begin == NullsAfter(l.second, 0)
    <3>1. begin = 0
      <4>1. 0 \in 0 .. Len(l.second) /\ 1 \in 1 .. Len(l.second)
        BY <1>1, <2>4, EmptySeq
      <4>2. /\ begin \in 0 .. Len(l.second) - 0
            /\ \A i \in 0 + 1 .. 0 + begin : IsNull(l.second[i])
        BY <1>1, <4>1, NullsAfterIs
      <4>3. ~ IsNull(l.second[1])
        BY <2>4 DEF EndsClean
      <4>. HIDE DEF begin
      <4>. QED BY <4>1, <4>2, <4>3
    <3>2. m = [l EXCEPT !.first = l.second, !.second = <<>>, !.mode = "empty",
                        !.nullBegin = begin, !.nullMiddle = l.nullSecond - begin, !.nullSecond = 0]
      BY <1>3, <2>4 DEF Swapped
    <3>. HIDE DEF begin
    <3>3. /\ m.first = l.second /\ m.second = <<>> /\ m.mode = "empty" /\ m.nullBegin = 0
          /\ m.nullMiddle = l.nullSecond /\ m.nullSecond = 0 /\ m.sumFree = l.sumFree
          /\ m \in LinearRecord
      <4>1. l.nullSecond \in Nat /\ l.nullSecond - begin = l.nullSecond /\ <<>> \in Seq(Item)
        BY <1>0, <3>1, RecordIs
      <4>2. /\ m.first = l.second /\ m.second = <<>> /\ m.mode = "empty" /\ m.nullBegin = begin
            /\ m.nullMiddle = l.nullSecond - begin /\ m.nullSecond = 0 /\ m.sumFree = l.sumFree
        BY <1>0, <3>2 DEF LinearRecord
      <4>3. m = [l EXCEPT !.first = l.second, !.second = <<>>, !.mode = "empty",
                          !.nullBegin = 0, !.nullMiddle = l.nullSecond, !.nullSecond = 0]
        BY <3>1, <3>2, <4>1
      <4>4. m \in LinearRecord
        <5>1. /\ l \in LinearRecord /\ l.second \in Seq(Item) /\ l.nullSecond \in Nat
          BY <1>0, <1>1, <4>1
        <5>2. [l EXCEPT !.first = l.second, !.second = <<>>, !.mode = "empty",
                        !.nullBegin = 0, !.nullMiddle = l.nullSecond, !.nullSecond = 0] \in LinearRecord
          BY ONLY <5>1, BothReplaced
        <5>. QED BY <4>3, <5>2, Zenon
      <4>. QED BY <3>1, <4>1, <4>2, <4>4
    <3>4. InOrder(m)
      BY <1>0, <2>3, <2>4, <3>3 DEF InOrder, Inside
    <3>5. Counted(m)
      <4>1. Cardinality(NullsIn(l.second)) = 0 + l.nullSecond /\ Len(l.second) \in Nat
        BY <1>0, RecordIs DEF Counted
      <4>. QED BY <2>3, <3>3, <4>1 DEF Counted
    <3>6. Keeps(m, l)
      BY <2>2, <2>3, <3>3 DEF Keeps, Live
    <3>7. NoneToDrop(m)
      <4>1. 0 < Len(l.second)
        BY <1>1, <2>4, EmptySeq
      <4>2. ~ IsNull(l.second[0 + 1]) /\ ~ IsNull(Last(l.second))
        BY <2>4 DEF EndsClean
      <4>. QED BY <2>4, <3>3, <4>1, <4>2 DEF NoneToDrop
    <3>. QED BY <3>3, <3>4, <3>5, <3>6, <3>7 DEF Loose
  <2>5. CASE ~ (l.second # <<>> /\ l.mode = "ring")
    <3>1. m = [l EXCEPT !.first = <<>>, !.nullBegin = 0]
      BY <1>3, <2>5 DEF Swapped
    <3>2. /\ m.first = <<>> /\ m.second = l.second /\ m.mode = l.mode /\ m.nullBegin = 0
          /\ m.nullMiddle = 0 /\ m.nullSecond = l.nullSecond /\ m.sumFree = l.sumFree
          /\ m \in LinearRecord
      <4>1. /\ m.first = <<>> /\ m.second = l.second /\ m.mode = l.mode /\ m.nullBegin = 0
            /\ m.nullMiddle = l.nullMiddle /\ m.nullSecond = l.nullSecond /\ m.sumFree = l.sumFree
        BY <1>0, <3>1 DEF LinearRecord
      <4>3. m \in LinearRecord
        BY <1>0, <3>1, FirstEmptied
      <4>. QED BY <2>1, <4>1, <4>3
    <3>3. InOrder(m)
      BY <1>0, <2>3, <2>5, <3>2 DEF InOrder, Inside, Ascending
    <3>4. Counted(m)
      BY <1>0, <2>3, <3>2 DEF Counted
    <3>5. Keeps(m, l)
      BY <2>2, <2>3, <3>2 DEF Keeps, Live
    <3>6. NoneToDrop(m)
      BY <2>5, <3>2 DEF NoneToDrop, EndsClean
    <3>. QED BY <3>2, <3>3, <3>4, <3>5, <3>6 DEF Loose
  <2>. QED BY <2>4, <2>5
<1>. QED BY <1>2, <1>3

(* Adding up the sizes of the allocations                                    *)
LEMMA LiveIs ==
  ASSUME NEW l \in LinearRecord
  PROVE  /\ IsFiniteSet(Live(l)) /\ Live(l) \subseteq Item /\ \A r \in Live(l) : ~ IsNull(r)
         /\ Sizing(SizesOf(Live(l)))
<1>1. IsFiniteSet(Live(l)) /\ Live(l) \subseteq Item /\ \A r \in Live(l) : ~ IsNull(r)
  BY RecordIs, ItemsFinite, FS_Union DEF Live
<1>2. \A r \in Live(l) : r.size \in Nat
  BY <1>1 DEF Item
<1>. QED BY <1>1, <1>2 DEF Sizing, SizesOf

LEMMA SumWithout ==
  ASSUME NEW S, Sizing(SizesOf(S)), NEW r \in S
  PROVE  /\ SumFunction(SizesOf(S)) = SumFunction(SizesOf(S \ {r})) + r.size
         /\ SumFunction(SizesOf(S)) \in Nat /\ SumFunction(SizesOf(S \ {r})) \in Nat
<1>. DEFINE f == SizesOf(S)
            g == SizesOf(S \ {r})
<1>1. DOMAIN f = S /\ DOMAIN g = S \ {r} /\ f[r] = r.size /\ \A y \in DOMAIN g : g[y] = f[y]
  BY DEF SizesOf
<1>2. Sizing(f)
  OBVIOUS
<1>. HIDE DEF f, g
<1>3. Sizing(g)
  BY <1>1, <1>2, FS_Subset DEF Sizing
<1>4. SumFunction(f) = SumFunction(g) + f[r]
  BY <1>1, <1>2, SumMore
<1>5. SumFunction(f) \in Nat /\ SumFunction(g) \in Nat
  BY <1>2, <1>3, SumIsCount
<1>. QED BY <1>1, <1>4, <1>5 DEF f, g

LEMMA SumWith ==
  ASSUME NEW S, Sizing(SizesOf(S)), NEW r \in Item, r \notin S
  PROVE  /\ SumFunction(SizesOf(S \union {r})) = SumFunction(SizesOf(S)) + r.size
         /\ SumFunction(SizesOf(S)) \in Nat
<1>. DEFINE T == S \union {r}
<1>1. Sizing(SizesOf(T))
  <2>1. IsFiniteSet(S) /\ \A x \in S : x.size \in Nat
    <3>1. DOMAIN SizesOf(S) = S /\ \A x \in S : SizesOf(S)[x] = x.size
      BY DEF SizesOf
    <3>. QED BY <3>1 DEF Sizing
  <2>2. IsFiniteSet(T)
    BY <2>1, FS_AddElement
  <2>3. \A x \in T : x.size \in Nat
    BY <2>1 DEF Item
  <2>. HIDE DEF T
  <2>4. DOMAIN SizesOf(T) = T /\ \A x \in T : SizesOf(T)[x] = x.size
    BY DEF SizesOf
  <2>. QED BY <2>2, <2>3, <2>4 DEF Sizing
<1>2. T \ {r} = S /\ r \in T
  OBVIOUS
<1>. HIDE DEF T
<1>3. SumFunction(SizesOf(T)) = SumFunction(SizesOf(S)) + r.size /\ SumFunction(SizesOf(S)) \in Nat
  BY <1>1, <1>2, SumWithout
<1>. QED BY <1>3 DEF T

(* A block without allocations                                               *)
LEMMA EmptiedIs ==
  ASSUME NEW l \in LinearRecord, NEW free \in Int, l = [Fresh EXCEPT !.sumFree = free]
  PROVE  Loose(l) /\ NoneToDrop(l) /\ Live(l) = {} /\ l.sumFree = free
<1>1. /\ l.first = <<>> /\ l.second = <<>> /\ l.mode = "empty" /\ l.nullBegin = 0 /\ l.nullMiddle = 0
      /\ l.nullSecond = 0 /\ l.sumFree = free
  BY DEF Fresh
<1>2. Items(<<>>) = {} /\ NullsIn(<<>>) = {} /\ Len(<<>>) = 0
  BY DEF Items, NullsIn
<1>3. Cardinality(NullsIn(<<>>)) = 0
  BY <1>2, FS_EmptySet
<1>4. InOrder(l)
  BY <1>1, <1>2 DEF InOrder, Ascending, Inside
<1>5. Counted(l)
  BY <1>1, <1>2, <1>3 DEF Counted
<1>. QED BY <1>1, <1>2, <1>4, <1>5 DEF Loose, NoneToDrop, Live

LEMMA FreshTyped ==
  ASSUME NEW free \in Int
  PROVE  [Fresh EXCEPT !.sumFree = free] \in LinearRecord /\ Fresh = [Fresh EXCEPT !.sumFree = LinearSize]
<1>1. <<>> \in Seq(Item) /\ 0 \in Nat /\ "empty" \in {"empty", "ring", "double"}
  OBVIOUS
<1>2. Fresh = [Fresh EXCEPT !.sumFree = LinearSize]
  BY DEF Fresh
<1>3. ASSUME NEW s \in Seq(Item), NEW n \in Nat, NEW mode \in {"empty", "ring", "double"}
      PROVE  [first |-> s, second |-> s, mode |-> mode, nullBegin |-> n, nullMiddle |-> n, nullSecond |-> n,
              sumFree |-> free] \in LinearRecord
  BY DEF LinearRecord
<1>4. [first |-> <<>>, second |-> <<>>, mode |-> "empty", nullBegin |-> 0, nullMiddle |-> 0, nullSecond |-> 0,
       sumFree |-> free] \in LinearRecord
  BY <1>1, <1>3, Zenon
<1>5. [Fresh EXCEPT !.sumFree = free] =
        [first |-> <<>>, second |-> <<>>, mode |-> "empty", nullBegin |-> 0, nullMiddle |-> 0, nullSecond |-> 0,
         sumFree |-> free]
  BY DEF Fresh
<1>. QED BY <1>2, <1>4, <1>5

LEMMA UsedUp ==
  ASSUME NEW p \in Nat, NEW q \in Nat, NEW x \in Nat, NEW y \in Nat, NEW z \in Nat,
         p - x - y + q - z = 0, x + y <= p, z <= q
  PROVE  x + y = p /\ z = q
OBVIOUS

LEMMA CleanedUpIs ==
  ASSUME NEW l, Loose(l), NEW m, m = CleanedUp(l)
  PROVE  Loose(m) /\ NoneToDrop(m) /\ Keeps(m, l)
<1>0. l \in LinearRecord /\ InOrder(l) /\ Counted(l) /\ l.sumFree \in Int
  BY RecordIs DEF Loose
<1>1. CASE ItemsUsed(l) = 0
  <2>1. m = [Fresh EXCEPT !.sumFree = l.sumFree]
    BY <1>1 DEF CleanedUp
  <2>2. Loose(m) /\ NoneToDrop(m) /\ Live(m) = {} /\ m.sumFree = l.sumFree
    BY <1>0, <2>1, FreshTyped, EmptiedIs
  <2>3. Live(l) = {}
    <3>1. /\ l.first \in Seq(Item) /\ l.second \in Seq(Item)
          /\ Len(l.first) \in Nat /\ Len(l.second) \in Nat
          /\ l.nullBegin \in Nat /\ l.nullMiddle \in Nat /\ l.nullSecond \in Nat
      BY <1>0, RecordIs
    <3>2. /\ Cardinality(NullsIn(l.first)) <= Len(l.first)
          /\ Cardinality(NullsIn(l.first)) = Len(l.first) => NullsIn(l.first) = 1 .. Len(l.first)
          /\ Cardinality(NullsIn(l.second)) <= Len(l.second)
          /\ Cardinality(NullsIn(l.second)) = Len(l.second) => NullsIn(l.second) = 1 .. Len(l.second)
      BY <3>1, NullsFinite
    <3>3. /\ Cardinality(NullsIn(l.first)) = l.nullBegin + l.nullMiddle
          /\ Cardinality(NullsIn(l.second)) = l.nullSecond
      BY <1>0 DEF Counted
    <3>4. Len(l.first) - l.nullBegin - l.nullMiddle + Len(l.second) - l.nullSecond = 0
      BY <1>1 DEF ItemsUsed
    <3>5. Cardinality(NullsIn(l.first)) = Len(l.first) /\ Cardinality(NullsIn(l.second)) = Len(l.second)
      <4>1. /\ Len(l.first) \in Nat /\ Len(l.second) \in Nat
            /\ l.nullBegin \in Nat /\ l.nullMiddle \in Nat /\ l.nullSecond \in Nat
        BY <3>1
      <4>2. l.nullBegin + l.nullMiddle <= Len(l.first) /\ l.nullSecond <= Len(l.second)
        BY <3>2, <3>3
      <4>3. l.nullBegin + l.nullMiddle = Len(l.first) /\ l.nullSecond = Len(l.second)
        BY ONLY <3>4, <4>1, <4>2, UsedUp
      <4>. QED BY <3>3, <4>3
    <3>6. NullsIn(l.first) = DOMAIN l.first /\ NullsIn(l.second) = DOMAIN l.second
      BY <3>1, <3>2, <3>5, LenProperties
    <3>. QED BY <3>6 DEF Live, Items, NullsIn
  <2>. QED BY <2>2, <2>3 DEF Keeps
<1>2. CASE ItemsUsed(l) # 0
  <2>. DEFINE a == EndsTrimmed(l)
              b == Compacted(a)
              c == ModeLeft(b)
  <2>1. m = Swapped(c)
    BY <1>2 DEF CleanedUp
  <2>2. Loose(a) /\ EndsClean(a) /\ Keeps(a, l)
    BY EndsTrimmedIs
  <2>. HIDE DEF a
  <2>3. Loose(b) /\ EndsClean(b) /\ Keeps(b, a)
    BY <2>2, CompactedIs
  <2>. HIDE DEF b
  <2>4. Loose(c) /\ EndsClean(c) /\ Keeps(c, b) /\ (c.mode = "empty" <=> c.second = <<>>)
    BY <2>3, ModeLeftIs
  <2>. HIDE DEF c
  <2>5. Loose(m) /\ NoneToDrop(m) /\ Keeps(m, c)
    BY <2>1, <2>4, SwappedIs
  <2>. QED BY <2>2, <2>3, <2>4, <2>5 DEF Keeps
<1>. QED BY <1>1, <1>2

-----------------------------------------------------------------------------
(* Free                                                                      *)

LEMMA FreedTyped ==
  ASSUME NEW l \in LinearRecord, NEW x \in Nat
  PROVE  /\ [l EXCEPT !.sumFree = @ + x] \in LinearRecord
         /\ [l EXCEPT !.sumFree = @ + x].first = l.first
         /\ [l EXCEPT !.sumFree = @ + x].second = l.second
BY DEF LinearRecord

LEMMA NulledTyped ==
  ASSUME NEW l \in LinearRecord, NEW s \in Seq(Item)
  PROVE  /\ [l EXCEPT !.first = s, !.nullBegin = @ + 1] \in LinearRecord
         /\ [l EXCEPT !.first = s, !.nullMiddle = @ + 1] \in LinearRecord
         /\ [l EXCEPT !.second = s, !.nullSecond = @ + 1] \in LinearRecord
<1>1. l.nullBegin + 1 \in Nat /\ l.nullMiddle + 1 \in Nat /\ l.nullSecond + 1 \in Nat
  BY RecordIs
<1>2. [l EXCEPT !.first = s, !.nullBegin = @ + 1] \in LinearRecord
  BY <1>1 DEF LinearRecord
<1>3. [l EXCEPT !.first = s, !.nullMiddle = @ + 1] \in LinearRecord
  BY <1>1 DEF LinearRecord
<1>4. [l EXCEPT !.second = s, !.nullSecond = @ + 1] \in LinearRecord
  BY <1>1 DEF LinearRecord
<1>. QED BY <1>2, <1>3, <1>4

LEMMA PoppedTyped ==
  ASSUME NEW l \in LinearRecord, NEW s \in Seq(Item)
  PROVE  /\ [l EXCEPT !.first = s] \in LinearRecord
         /\ [l EXCEPT !.second = s] \in LinearRecord
BY DEF LinearRecord

(* freed is l without its allocation r, before anything is cleaned up.       *)
Without(freed, l, r) ==
  /\ freed \in LinearRecord /\ InOrder(freed) /\ Counted(freed)
  /\ Live(freed) = Live(l) \ {r}
  /\ freed.sumFree = l.sumFree + r.size

LEMMA FreedIs ==
  ASSUME LinearInvariant, NEW r \in ItemsLive, FreeLinear(r.at)
  PROVE  \E freed : Without(freed, lin, r) /\ lin' = CleanedUp(freed) /\ pageSize' = pageSize
<1>. DEFINE at == r.at
            first == lin.first
            second == lin.second
            begin == lin.nullBegin + 1
            here == WhereIn(first, lin.nullBegin, at)
            there == WhereIn(second, 0, at)
            i == CHOOSE x \in here : TRUE
            j == CHOOSE x \in there : TRUE
            Left(size) == [lin EXCEPT !.sumFree = @ + size]
<1>0. /\ lin \in LinearRecord /\ InOrder(lin) /\ Counted(lin) /\ NoneToDrop(lin)
      /\ r \in Live(lin) /\ r \in Item /\ ItemsLive = Live(lin)
  <2>1. ItemsLive = Live(lin)
    BY DEF ItemsLive, Live
  <2>. QED BY <2>1, LiveIs DEF LinearInvariant, Loose
<1>1. /\ first \in Seq(Item) /\ second \in Seq(Item) /\ DOMAIN first = 1 .. Len(first)
      /\ DOMAIN second = 1 .. Len(second) /\ Len(first) \in Nat /\ Len(second) \in Nat
      /\ lin.nullBegin \in Nat /\ lin.nullMiddle \in Nat /\ lin.nullSecond \in Nat /\ lin.sumFree \in Int
      /\ (\A k \in DOMAIN first : first[k] \in Item) /\ (\A k \in DOMAIN second : second[k] \in Item)
  BY <1>0, RecordIs
<1>2. pageSize' = pageSize /\
      lin' = CleanedUp(
        IF first # <<>> /\ first[begin].at = at
        THEN [Left(first[begin].size) EXCEPT !.first = Nulled(@, begin), !.nullBegin = @ + 1]
        ELSE IF lin.mode # "empty" /\ Last(second).at = at
        THEN [Left(Last(second).size) EXCEPT !.second = WithoutLast(@, 1)]
        ELSE IF lin.mode = "empty" /\ Last(first).at = at
        THEN [Left(Last(first).size) EXCEPT !.first = WithoutLast(@, 1)]
        ELSE IF here # {}
        THEN [Left(first[i].size) EXCEPT !.first = Nulled(@, i), !.nullMiddle = @ + 1]
        ELSE [Left(second[j].size) EXCEPT !.second = Nulled(@, j), !.nullSecond = @ + 1])
  BY Zenon DEF FreeLinear
(* Whatever is found at the offset is the allocation.                        *)
<1>3. ASSUME NEW k \in DOMAIN first, ~ IsNull(first[k]), first[k].at = at
      PROVE  first[k] = r
  <2>1. first[k] \in Live(lin)
    BY <1>3 DEF Live, Items
  <2>. QED BY <1>0, <1>3, <2>1, AtUnique
<1>4. ASSUME NEW k \in DOMAIN second, ~ IsNull(second[k]), second[k].at = at
      PROVE  second[k] = r
  <2>1. second[k] \in Live(lin)
    BY <1>4 DEF Live, Items
  <2>. QED BY <1>0, <1>4, <2>1, AtUnique
<1>5. \/ \E k \in lin.nullBegin + 1 .. Len(first) : k \in DOMAIN first /\ ~ IsNull(first[k]) /\ r = first[k]
      \/ \E k \in DOMAIN second : ~ IsNull(second[k]) /\ r = second[k]
  BY <1>0, ItemAt DEF Live
<1>6. /\ here = {k \in lin.nullBegin + 1 .. Len(first) : first[k].at = at}
      /\ there = {k \in 0 + 1 .. Len(second) : second[k].at = at}
  BY DEF WhereIn
<1>6a. Ascending(second) \/ Descending(second)
  <2>1. second = <<>> => Ascending(second)
    BY DEF Ascending
  <2>2. lin.mode \in {"empty", "ring", "double"}
    BY <1>0, RecordIs
  <2>. QED BY <1>0, <2>1, <2>2 DEF InOrder
<1>7. CASE first # <<>> /\ first[begin].at = at
  <2>. DEFINE m == [Left(first[begin].size) EXCEPT !.first = Nulled(@, begin), !.nullBegin = @ + 1]
  <2>1. lin' = CleanedUp(m)
    BY <1>2, <1>7
  <2>2. begin \in DOMAIN first /\ ~ IsNull(first[begin]) /\ begin \in lin.nullBegin + 1 .. Len(first)
    BY <1>0, <1>1, <1>7 DEF NoneToDrop
  <2>3. first[begin] = r /\ first[begin].size \in Nat
    <3>1. first[begin] = r
      BY <1>3, <1>7, <2>2
    <3>. QED BY <1>0, <3>1 DEF Item
  <2>4. Nulled(first, begin) \in Seq(Item)
    BY <1>0, <1>1, <2>2, NulledIs DEF InOrder
  <2>5. /\ m.first = Nulled(first, begin) /\ m.second = second /\ m.mode = lin.mode
        /\ m.nullBegin = lin.nullBegin + 1 /\ m.nullMiddle = lin.nullMiddle /\ m.nullSecond = lin.nullSecond
        /\ m.sumFree = lin.sumFree + first[begin].size
    BY <1>0 DEF LinearRecord
  <2>6. m \in LinearRecord
    <3>. DEFINE k == Left(first[begin].size)
    <3>1. k \in LinearRecord /\ k.first = first
      BY <1>0, <2>3, FreedTyped
    <3>. HIDE DEF k
    <3>2. Nulled(k.first, begin) \in Seq(Item)
      BY <2>4, <3>1, Zenon
    <3>3. [k EXCEPT !.first = Nulled(@, begin), !.nullBegin = @ + 1] \in LinearRecord
      BY ONLY <3>1, <3>2, NulledTyped, Zenon
    <3>. QED BY <3>3 DEF k
  <2>. HIDE DEF m
  <2>7. InOrder(m) /\ Counted(m) /\ Live(m) = Live(lin) \ {first[begin]}
    BY <1>0, <2>2, <2>5, <2>6, FreedInFirst
  <2>8. Without(m, lin, r)
    BY <2>3, <2>5, <2>6, <2>7 DEF Without
  <2>. QED BY <1>2, <2>1, <2>8
<1>8. CASE /\ ~ (first # <<>> /\ first[begin].at = at)
           /\ lin.mode # "empty" /\ Last(second).at = at
  <2>. DEFINE m == [Left(Last(second).size) EXCEPT !.second = WithoutLast(@, 1)]
  <2>1. lin' = CleanedUp(m)
    BY <1>2, <1>8
  <2>2. second # <<>> /\ ~ IsNull(Last(second)) /\ Len(second) \in DOMAIN second /\ Last(second) = second[Len(second)]
    BY <1>0, <1>1, <1>8, LastIs DEF NoneToDrop
  <2>3. Last(second) = r /\ Last(second).size \in Nat
    <3>1. Last(second) = r
      BY <1>4, <1>8, <2>2
    <3>. QED BY <1>0, <3>1 DEF Item
  <2>4. WithoutLast(second, 1) \in Seq(Item)
    <3>1. 1 \in 0 .. Len(second)
      BY <1>1, <2>2
    <3>. QED BY <1>1, <3>1, LastDropped
  <2>5. /\ m.second = WithoutLast(second, 1) /\ m.first = first /\ m.mode = lin.mode
        /\ m.nullBegin = lin.nullBegin /\ m.nullMiddle = lin.nullMiddle /\ m.nullSecond = lin.nullSecond
        /\ m.sumFree = lin.sumFree + Last(second).size
    BY <1>0 DEF LinearRecord
  <2>6. m \in LinearRecord
    <3>. DEFINE k == Left(Last(second).size)
    <3>1. k \in LinearRecord /\ k.second = second
      BY <1>0, <2>3, FreedTyped
    <3>. HIDE DEF k
    <3>2. WithoutLast(k.second, 1) \in Seq(Item)
      BY <2>4, <3>1, Zenon
    <3>3. [k EXCEPT !.second = WithoutLast(@, 1)] \in LinearRecord
      BY ONLY <3>1, <3>2, PoppedTyped, Zenon
    <3>. QED BY <3>3 DEF k
  <2>. HIDE DEF m
  <2>7. InOrder(m) /\ Counted(m) /\ Live(m) = Live(lin) \ {Last(second)}
    BY <1>0, <2>2, <2>5, <2>6, PoppedFromSecond
  <2>8. Without(m, lin, r)
    BY <2>3, <2>5, <2>6, <2>7 DEF Without
  <2>. QED BY <1>2, <2>1, <2>8
<1>9. CASE /\ ~ (first # <<>> /\ first[begin].at = at)
           /\ lin.mode = "empty" /\ Last(first).at = at
  <2>. DEFINE m == [Left(Last(first).size) EXCEPT !.first = WithoutLast(@, 1)]
  <2>1. lin' = CleanedUp(m)
    BY <1>2, <1>9
  <2>2. /\ first # <<>> /\ lin.nullBegin < Len(first) /\ ~ IsNull(Last(first))
        /\ Len(first) \in DOMAIN first /\ Last(first) = first[Len(first)]
    <3>1. second = <<>>
      BY <1>0, <1>9 DEF NoneToDrop
    <3>2. first # <<>>
      BY <1>1, <1>5, <3>1
    <3>. QED BY <1>0, <1>1, <3>2, LastIs DEF NoneToDrop
  <2>3. Last(first) = r /\ Last(first).size \in Nat
    <3>1. Last(first) = r
      BY <1>3, <1>9, <2>2
    <3>. QED BY <1>0, <3>1 DEF Item
  <2>4. WithoutLast(first, 1) \in Seq(Item)
    <3>1. 1 \in 0 .. Len(first)
      BY <1>1, <2>2
    <3>. QED BY <1>1, <3>1, LastDropped
  <2>5. /\ m.first = WithoutLast(first, 1) /\ m.second = second /\ m.mode = lin.mode
        /\ m.nullBegin = lin.nullBegin /\ m.nullMiddle = lin.nullMiddle /\ m.nullSecond = lin.nullSecond
        /\ m.sumFree = lin.sumFree + Last(first).size
    BY <1>0 DEF LinearRecord
  <2>6. m \in LinearRecord
    <3>. DEFINE k == Left(Last(first).size)
    <3>1. k \in LinearRecord /\ k.first = first
      BY <1>0, <2>3, FreedTyped
    <3>. HIDE DEF k
    <3>2. WithoutLast(k.first, 1) \in Seq(Item)
      BY <2>4, <3>1, Zenon
    <3>3. [k EXCEPT !.first = WithoutLast(@, 1)] \in LinearRecord
      BY ONLY <3>1, <3>2, PoppedTyped, Zenon
    <3>. QED BY <3>3 DEF k
  <2>. HIDE DEF m
  <2>7. InOrder(m) /\ Counted(m) /\ Live(m) = Live(lin) \ {Last(first)}
    BY <1>0, <1>9, <2>2, <2>5, <2>6, PoppedFromFirst
  <2>8. Without(m, lin, r)
    BY <2>3, <2>5, <2>6, <2>7 DEF Without
  <2>. QED BY <1>2, <2>1, <2>8
<1>. DEFINE neither == /\ ~ (first # <<>> /\ first[begin].at = at)
                       /\ ~ (lin.mode # "empty" /\ Last(second).at = at)
                       /\ ~ (lin.mode = "empty" /\ Last(first).at = at)
<1>10. CASE neither /\ here # {}
  <2>. DEFINE m == [Left(first[i].size) EXCEPT !.first = Nulled(@, i), !.nullMiddle = @ + 1]
  <2>1. lin' = CleanedUp(m)
    BY <1>2, <1>10
  <2>2. i \in here
    BY <1>10
  <2>3. i \in lin.nullBegin + 1 .. Len(first) /\ i \in DOMAIN first /\ first[i].at = at
    <3>. HIDE DEF i
    <3>. QED BY <1>1, <1>6, <2>2
  <2>. HIDE DEF i
  <2>4. ~ IsNull(first[i])
    <3>1. CASE \E k \in lin.nullBegin + 1 .. Len(first) : k \in DOMAIN first /\ ~ IsNull(first[k]) /\ r = first[k]
      <4>1. PICK k \in DOMAIN first : ~ IsNull(first[k]) /\ r = first[k]
        BY <3>1
      <4>2. k = i
        BY <1>0, <1>1, <2>3, <4>1, Distinct DEF InOrder
      <4>. QED BY <4>1, <4>2
    <3>2. CASE \E k \in DOMAIN second : ~ IsNull(second[k]) /\ r = second[k]
      <4>1. PICK k \in DOMAIN second : r = second[k]
        BY <3>2
      <4>. QED BY <1>0, <2>3, <4>1, ApartVectors
    <3>. QED BY <1>5, <3>1, <3>2
  <2>5. first[i] = r /\ first[i].size \in Nat
    <3>1. first[i] = r
      BY <1>3, <2>3, <2>4
    <3>. QED BY <1>0, <3>1 DEF Item
  <2>6. Nulled(first, i) \in Seq(Item)
    BY <1>0, <1>1, <2>3, <2>4, NulledIs DEF InOrder
  <2>7. /\ m.first = Nulled(first, i) /\ m.second = second /\ m.mode = lin.mode
        /\ m.nullBegin = lin.nullBegin /\ m.nullMiddle = lin.nullMiddle + 1 /\ m.nullSecond = lin.nullSecond
        /\ m.sumFree = lin.sumFree + first[i].size
    BY <1>0 DEF LinearRecord
  <2>8. m \in LinearRecord
    <3>. DEFINE k == Left(first[i].size)
    <3>1. k \in LinearRecord /\ k.first = first
      BY <1>0, <2>5, FreedTyped
    <3>. HIDE DEF k
    <3>2. Nulled(k.first, i) \in Seq(Item)
      BY <2>6, <3>1, Zenon
    <3>3. [k EXCEPT !.first = Nulled(@, i), !.nullMiddle = @ + 1] \in LinearRecord
      BY ONLY <3>1, <3>2, NulledTyped, Zenon
    <3>. QED BY <3>3 DEF k
  <2>. HIDE DEF m
  <2>9. InOrder(m) /\ Counted(m) /\ Live(m) = Live(lin) \ {first[i]}
    BY <1>0, <2>3, <2>4, <2>7, <2>8, FreedInFirst
  <2>10. Without(m, lin, r)
    BY <2>5, <2>7, <2>8, <2>9 DEF Without
  <2>. QED BY <1>2, <2>1, <2>10
<1>11. CASE neither /\ here = {}
  <2>. DEFINE m == [Left(second[j].size) EXCEPT !.second = Nulled(@, j), !.nullSecond = @ + 1]
  <2>1. lin' = CleanedUp(m)
    BY <1>2, <1>11
  <2>2. PICK k \in DOMAIN second : ~ IsNull(second[k]) /\ r = second[k]
    <3>1. ~ \E k \in lin.nullBegin + 1 .. Len(first) : r = first[k]
      BY <1>6, <1>11
    <3>. QED BY <1>5, <3>1
  <2>3. j \in there
    BY <1>1, <1>6, <2>2
  <2>4. j \in DOMAIN second /\ second[j].at = at
    <3>. HIDE DEF j
    <3>. QED BY <1>1, <1>6, <2>3
  <2>. HIDE DEF j
  <2>5. j = k
    <3>1. Ascending(second) \/ Descending(second)
      BY <1>6a
    <3>. QED BY <1>1, <2>2, <2>4, <3>1, Distinct
  <2>6. second[j] = r /\ ~ IsNull(second[j]) /\ second[j].size \in Nat
    BY <1>0, <2>2, <2>5 DEF Item
  <2>7. Nulled(second, j) \in Seq(Item)
    <3>1. Ascending(second) \/ Descending(second)
      BY <1>6a
    <3>. QED BY <1>1, <2>4, <2>6, <3>1, NulledIs
  <2>8. /\ m.second = Nulled(second, j) /\ m.first = first /\ m.mode = lin.mode
        /\ m.nullBegin = lin.nullBegin /\ m.nullMiddle = lin.nullMiddle /\ m.nullSecond = lin.nullSecond + 1
        /\ m.sumFree = lin.sumFree + second[j].size
    BY <1>0 DEF LinearRecord
  <2>9. m \in LinearRecord
    <3>. DEFINE freed == Left(second[j].size)
    <3>1. freed \in LinearRecord /\ freed.second = second
      BY <1>0, <2>6, FreedTyped
    <3>. HIDE DEF freed
    <3>2. Nulled(freed.second, j) \in Seq(Item)
      BY <2>7, <3>1, Zenon
    <3>3. [freed EXCEPT !.second = Nulled(@, j), !.nullSecond = @ + 1] \in LinearRecord
      BY ONLY <3>1, <3>2, NulledTyped, Zenon
    <3>. QED BY <3>3 DEF freed
  <2>. HIDE DEF m
  <2>10. InOrder(m) /\ Counted(m) /\ Live(m) = Live(lin) \ {second[j]}
    BY <1>0, <2>4, <2>6, <2>8, <2>9, FreedInSecond
  <2>11. Without(m, lin, r)
    BY <2>6, <2>8, <2>9, <2>10 DEF Without
  <2>. QED BY <1>2, <2>1, <2>11
<1>12. \/ first # <<>> /\ first[begin].at = at
       \/ /\ ~ (first # <<>> /\ first[begin].at = at)
          /\ lin.mode # "empty" /\ Last(second).at = at
       \/ /\ ~ (first # <<>> /\ first[begin].at = at)
          /\ lin.mode = "empty" /\ Last(first).at = at
       \/ neither
  BY Zenon
<1>. HIDE DEF here, neither
<1>. QED BY <1>7, <1>8, <1>9, <1>10, <1>11, <1>12, Zenon

(* Free removes the allocation that is given to it, and nothing else.        *)
LEMMA FreeKeeps ==
  ASSUME LinearInvariant, NEW r \in ItemsLive, FreeLinear(r.at)
  PROVE  LinearInvariant' /\ ItemsLive' = ItemsLive \ {r}
<1>1. PICK freed : Without(freed, lin, r) /\ lin' = CleanedUp(freed) /\ pageSize' = pageSize
  BY FreedIs
<1>2. ItemsLive = Live(lin) /\ ItemsLive' = Live(lin')
  BY DEF ItemsLive, Live
<1>3. Loose(freed) /\ Live(freed) = Live(lin) \ {r} /\ freed.sumFree = lin.sumFree + r.size
  BY <1>1 DEF Without, Loose
<1>4. Loose(lin') /\ NoneToDrop(lin') /\ Keeps(lin', freed)
  BY <1>1, <1>3, CleanedUpIs
<1>5. SumRight(lin')
  <2>1. lin \in LinearRecord /\ SumRight(lin)
    BY DEF LinearInvariant, Loose
  <2>2. Sizing(SizesOf(Live(lin))) /\ r \in Live(lin) /\ r.size \in Nat
    BY <1>2, <2>1, LiveIs DEF Item
  <2>3. /\ SumFunction(SizesOf(Live(lin))) = SumFunction(SizesOf(Live(lin) \ {r})) + r.size
        /\ SumFunction(SizesOf(Live(lin) \ {r})) \in Nat
    BY <2>2, SumWithout
  <2>4. lin'.sumFree = lin.sumFree + r.size /\ Live(lin') = Live(lin) \ {r}
    BY <1>3, <1>4 DEF Keeps
  <2>5. lin.sumFree = LinearSize - SumFunction(SizesOf(Live(lin)))
    BY <2>1 DEF SumRight
  <2>6. LinearSize \in Nat
    BY LinearAssumption
  <2>7. lin'.sumFree = LinearSize - SumFunction(SizesOf(Live(lin) \ {r}))
    BY <2>2, <2>3, <2>4, <2>5, <2>6
  <2>. QED BY <2>4, <2>7 DEF SumRight
<1>6. LinearInvariant'
  <2>1. pageSize' \in Pages
    BY <1>1 DEF LinearInvariant
  <2>. QED BY <1>4, <1>5, <2>1 DEF LinearInvariant, Loose, LinearRecord, InOrder, Counted, SumRight, NoneToDrop
<1>. QED BY <1>2, <1>3, <1>4, <1>6 DEF Keeps

-----------------------------------------------------------------------------
(* Alloc                                                                     *)

LEMMA AppendedFirst ==
  ASSUME NEW l \in LinearRecord, Loose(l), NoneToDrop(l), l.mode # "ring",
         NEW item \in Item, ~ IsNull(item), EndOf(l.first) <= item.at, item.at + item.size <= LinearSize,
         \A j \in DOMAIN l.second : Before(item, l.second[j]),
         NEW m \in LinearRecord, m.first = Append(l.first, item), m.second = l.second, m.mode = l.mode,
         m.nullBegin = l.nullBegin, m.nullMiddle = l.nullMiddle, m.nullSecond = l.nullSecond
  PROVE  Loose(m) /\ NoneToDrop(m) /\ Live(m) = Live(l) \union {item}
<1>. DEFINE s == l.first
            t == m.first
            n == Len(l.first)
<1>1. /\ s \in Seq(Item) /\ n \in Nat /\ InOrder(l) /\ Counted(l) /\ l.nullBegin \in Nat /\ Ascending(s)
      /\ \A i \in 1 .. n : s[i] \in Item
  BY RecordIs DEF Loose, InOrder
<1>2. /\ t \in Seq(Item) /\ Len(t) = n + 1 /\ DOMAIN t = 1 .. n + 1 /\ DOMAIN s = 1 .. n
      /\ \A i \in 1 .. n : t[i] = s[i]
      /\ t[n + 1] = item /\ t # <<>> /\ Last(t) = item
      /\ NullsIn(t) = NullsIn(s) /\ Items(t) = Items(s) \union {item}
  BY <1>1, Appended
<1>3. \A i \in 1 .. n : Before(s[i], item)
  <2>1. \A i \in DOMAIN s : s[i].at + s[i].size <= EndOf(s) /\ EndOf(s) \in Nat
    BY <1>1, EndIs
  <2>2. ASSUME NEW i \in 1 .. n PROVE Before(s[i], item)
    <3>1. s[i].at + s[i].size <= EndOf(s) /\ EndOf(s) \in Nat
      BY <1>2, <2>1
    <3>2. s[i].at \in Nat /\ s[i].size \in Nat /\ item.at \in Nat
      BY <1>1 DEF Item
    <3>. QED BY <3>1, <3>2 DEF Before
  <2>. QED BY <2>2
<1>. HIDE DEF n, s, t
<1>4. Ascending(t)
  <2>1. ASSUME NEW i \in 1 .. n + 1, NEW j \in 1 .. n + 1, i < j PROVE Before(t[i], t[j])
    <3>1. i \in 1 .. n
      BY <1>1, <2>1
    <3>2. CASE j = n + 1
      BY <1>2, <1>3, <3>1, <3>2
    <3>3. CASE j \in 1 .. n
      BY <1>1, <1>2, <2>1, <3>1, <3>3 DEF Ascending
    <3>. QED BY <1>1, <2>1, <3>2, <3>3
  <2>. QED BY <1>2, <2>1 DEF Ascending
<1>5. Inside(t)
  <2>1. \A i \in 1 .. n : s[i].at + s[i].size <= LinearSize
    BY <1>1, <1>2 DEF InOrder, Inside, s
  <2>. QED BY <1>1, <1>2, <2>1 DEF Inside
<1>6. \A i \in DOMAIN t : \A j \in DOMAIN m.second : l.mode = "double" => Before(t[i], m.second[j])
  <2>1. ASSUME NEW i \in 1 .. n + 1, NEW j \in DOMAIN l.second, l.mode = "double" PROVE Before(t[i], l.second[j])
    <3>1. CASE i = n + 1
      BY <1>2, <3>1
    <3>2. CASE i \in 1 .. n
      BY <1>1, <1>2, <2>1, <3>2 DEF InOrder, s
    <3>. QED BY <1>1, <2>1, <3>1, <3>2
  <2>. QED BY <1>2, <2>1
<1>7. InOrder(m)
  BY <1>1, <1>4, <1>5, <1>6, RecordIs DEF InOrder, t
<1>8. Counted(m)
  BY <1>1, <1>2 DEF Counted, s, t, n
<1>9. NoneToDrop(m)
  <2>1. l.nullBegin < n + 1 /\ ~ IsNull(t[l.nullBegin + 1])
    <3>1. CASE s = <<>>
      <4>1. n = 0 /\ l.nullBegin = 0
        BY <1>1, <3>1 DEF Counted, s, n
      <4>. QED BY <1>2, <4>1
    <3>2. CASE s # <<>>
      BY <1>1, <1>2, <3>2 DEF NoneToDrop, s, n
    <3>. QED BY <3>1, <3>2
  <2>. QED BY <1>2, <2>1 DEF NoneToDrop, t, n
<1>. QED BY <1>2, <1>7, <1>8, <1>9 DEF Loose, Live, s, t

LEMMA AppendedSecond ==
  ASSUME NEW l \in LinearRecord, Loose(l), NoneToDrop(l), NEW mode \in {"ring", "double"}, l.mode \in {"empty", mode},
         NEW item \in Item, ~ IsNull(item), item.at + item.size <= LinearSize,
         mode = "ring" =>
           /\ l.first # <<>> /\ EndOf(l.second) <= item.at
           /\ \A j \in l.nullBegin + 1 .. Len(l.first) : Before(item, l.first[j]),
         mode = "double" =>
           /\ EndOf(l.first) <= item.at /\ \A j \in DOMAIN l.second : Before(item, l.second[j]),
         NEW m \in LinearRecord, m.second = Append(l.second, item), m.first = l.first, m.mode = mode,
         m.nullBegin = l.nullBegin, m.nullMiddle = l.nullMiddle, m.nullSecond = l.nullSecond
  PROVE  Loose(m) /\ NoneToDrop(m) /\ Live(m) = Live(l) \union {item}
<1>. DEFINE s == l.second
            t == m.second
            n == Len(l.second)
<1>1. /\ s \in Seq(Item) /\ n \in Nat /\ InOrder(l) /\ Counted(l) /\ l.nullBegin \in Nat
      /\ (\A i \in 1 .. n : s[i] \in Item)
      /\ l.first \in Seq(Item) /\ Ascending(l.first) /\ \A i \in DOMAIN l.first : l.first[i] \in Item
  BY RecordIs DEF Loose, InOrder
<1>2. /\ t \in Seq(Item) /\ Len(t) = n + 1 /\ DOMAIN t = 1 .. n + 1 /\ DOMAIN s = 1 .. n
      /\ \A i \in 1 .. n : t[i] = s[i]
      /\ t[n + 1] = item /\ t # <<>> /\ Last(t) = item
      /\ NullsIn(t) = NullsIn(s) /\ Items(t) = Items(s) \union {item}
  BY <1>1, Appended
<1>3. ASSUME NEW u \in Seq(Item), Ascending(u), EndOf(u) <= item.at, NEW i \in DOMAIN u
      PROVE  Before(u[i], item)
  <2>1. u[i].at + u[i].size <= EndOf(u) /\ EndOf(u) \in Nat
    BY <1>3, EndIs
  <2>2. u[i] \in Item
    BY <1>3
  <2>. QED BY <1>3, <2>1, <2>2 DEF Before, Item
<1>4. Inside(t)
  <2>1. \A i \in 1 .. n : s[i].at + s[i].size <= LinearSize
    BY <1>1, <1>2 DEF InOrder, Inside
  <2>. HIDE DEF n, s, t
  <2>. QED BY <1>1, <1>2, <2>1 DEF Inside
<1>4a. Ascending(m.first) /\ Inside(m.first) /\ Inside(m.second)
  BY <1>1, <1>4 DEF InOrder
<1>5. ASSUME mode = "ring" PROVE InOrder(m)
  <2>1. Ascending(s)
    <3>1. s = <<>> => Ascending(s)
      BY DEF Ascending
    <3>. QED BY <1>1, <1>5, <3>1 DEF InOrder
  <2>2. \A i \in 1 .. n : Before(s[i], item)
    BY <1>1, <1>2, <1>3, <1>5, <2>1
  <2>3. \A i \in 1 .. n : \A j \in l.nullBegin + 1 .. Len(l.first) : Before(s[i], l.first[j])
    <3>1. s = <<>> => n = 0
      OBVIOUS
    <3>2. CASE s = <<>>
      BY <3>1, <3>2
    <3>3. CASE l.mode = "ring"
      BY <1>1, <1>2, <3>3 DEF InOrder
    <3>. QED BY <1>1, <1>5, <3>2, <3>3 DEF InOrder
  <2>. HIDE DEF n, s, t
  <2>4. Ascending(t)
    <3>1. ASSUME NEW i \in 1 .. n + 1, NEW j \in 1 .. n + 1, i < j PROVE Before(t[i], t[j])
      <4>1. i \in 1 .. n
        BY <1>1, <3>1
      <4>2. CASE j = n + 1
        BY <1>2, <2>2, <4>1, <4>2
      <4>3. CASE j \in 1 .. n
        BY <1>1, <1>2, <2>1, <3>1, <4>1, <4>3 DEF Ascending
      <4>. QED BY <1>1, <3>1, <4>2, <4>3
    <3>. QED BY <1>2, <3>1 DEF Ascending
  <2>5. \A i \in DOMAIN t : \A j \in l.nullBegin + 1 .. Len(l.first) : Before(t[i], l.first[j])
    <3>1. ASSUME NEW i \in 1 .. n + 1, NEW j \in l.nullBegin + 1 .. Len(l.first) PROVE Before(t[i], l.first[j])
      <4>1. CASE i = n + 1
        BY <1>2, <1>5, <4>1
      <4>2. CASE i \in 1 .. n
        BY <1>2, <2>3, <4>2
      <4>. QED BY <1>1, <3>1, <4>1, <4>2
    <3>. QED BY <1>2, <3>1
  <2>6. InOrder(m)
    BY <1>5, <1>4a, <2>4, <2>5 DEF InOrder, t
  <2>. QED BY <2>6
<1>6. ASSUME mode = "double" PROVE InOrder(m)
  <2>1. Descending(s)
    <3>1. s = <<>> => Descending(s)
      BY DEF Descending
    <3>. QED BY <1>1, <1>6, <3>1 DEF InOrder
  <2>2. \A i \in DOMAIN l.first : Before(l.first[i], item)
    BY <1>1, <1>3, <1>6
  <2>3. \A i \in DOMAIN l.first : \A j \in 1 .. n : Before(l.first[i], s[j])
    <3>1. s = <<>> => n = 0
      OBVIOUS
    <3>. QED BY <1>1, <1>2, <1>6, <3>1 DEF InOrder
  <2>4. \A j \in 1 .. n : Before(item, s[j])
    BY <1>2, <1>6
  <2>. HIDE DEF n, s, t
  <2>5. Descending(t)
    <3>1. ASSUME NEW i \in 1 .. n + 1, NEW j \in 1 .. n + 1, i < j PROVE Before(t[j], t[i])
      <4>1. i \in 1 .. n
        BY <1>1, <3>1
      <4>2. CASE j = n + 1
        BY <1>2, <2>4, <4>1, <4>2
      <4>3. CASE j \in 1 .. n
        BY <1>1, <1>2, <2>1, <3>1, <4>1, <4>3 DEF Descending
      <4>. QED BY <1>1, <3>1, <4>2, <4>3
    <3>. QED BY <1>2, <3>1 DEF Descending
  <2>6. \A i \in DOMAIN l.first : \A j \in DOMAIN t : Before(l.first[i], t[j])
    <3>1. ASSUME NEW i \in DOMAIN l.first, NEW j \in 1 .. n + 1 PROVE Before(l.first[i], t[j])
      <4>1. CASE j = n + 1
        BY <1>2, <2>2, <4>1
      <4>2. CASE j \in 1 .. n
        BY <1>2, <2>3, <4>2
      <4>. QED BY <1>1, <3>1, <4>1, <4>2
    <3>. QED BY <1>2, <3>1
  <2>7. InOrder(m)
    BY <1>6, <1>4a, <2>5, <2>6 DEF InOrder, t
  <2>. QED BY <2>7
<1>7. Counted(m)
  <2>. HIDE DEF n
  <2>. QED BY <1>1, <1>2 DEF Counted
<1>8. NoneToDrop(m)
  <2>1. m.second # <<>> /\ ~ IsNull(Last(m.second)) /\ (m.mode = "ring" => m.first # <<>>) /\ m.mode # "empty"
    BY <1>2
  <2>. QED BY <2>1 DEF NoneToDrop
<1>9. InOrder(m)
  <2>1. mode = "ring" \/ mode = "double"
    OBVIOUS
  <2>. QED BY ONLY <1>5, <1>6, <2>1, Zenon
<1>10. Live(m) = Live(l) \union {item}
  BY <1>2 DEF Live
<1>. QED BY <1>7, <1>8, <1>9, <1>10 DEF Loose

LEMMA ReversedIs ==
  ASSUME NEW s \in Seq(Item), Descending(s)
  PROVE  /\ Reverse(s) \in Seq(Item) /\ Len(Reverse(s)) = Len(s) /\ Ascending(Reverse(s))
         /\ \A i \in 1 .. Len(s) : Reverse(s)[i] = s[Len(s) - i + 1]
         /\ s # <<>> => Reverse(s) # <<>> /\ Reverse(s)[1] = Last(s)
<1>. DEFINE r == Reverse(s)
<1>1. Len(s) \in Nat /\ DOMAIN s = 1 .. Len(s)
  OBVIOUS
<1>2. r = [i \in 1 .. Len(s) |-> s[(Len(s) - i) + 1]]
  BY DEF Reverse
<1>. HIDE DEF r
<1>3. \A i \in 1 .. Len(s) : r[i] = s[(Len(s) - i) + 1] /\ (Len(s) - i) + 1 \in 1 .. Len(s)
  BY <1>1, <1>2
<1>4. r \in Seq(Item) /\ Len(r) = Len(s) /\ DOMAIN r = 1 .. Len(s)
  BY <1>1, <1>2, <1>3
<1>5. ASSUME NEW i \in 1 .. Len(s), NEW j \in 1 .. Len(s), i < j PROVE Before(r[i], r[j])
  <2>1. /\ (Len(s) - i) + 1 \in 1 .. Len(s) /\ (Len(s) - j) + 1 \in 1 .. Len(s)
        /\ (Len(s) - j) + 1 < (Len(s) - i) + 1
    BY <1>1, <1>5
  <2>2. Before(s[(Len(s) - i) + 1], s[(Len(s) - j) + 1])
    BY <1>1, <2>1 DEF Descending
  <2>. QED BY <1>3, <2>2
<1>6. Ascending(r)
  BY <1>4, <1>5 DEF Ascending
<1>7. s # <<>> => r # <<>> /\ r[1] = Last(s)
  BY <1>1, <1>3, <1>4 DEF Last
<1>. QED BY <1>3, <1>4, <1>6, <1>7 DEF r

(* a is before b and, unless the upper side is used where pages matter, not  *)
(* on a page with it when they conflict.                                     *)
LeftOf(a, b) ==
  /\ Before(a, b)
  /\ ~ UpperOnPages /\ Conflict(a.type, b.type) => ~ OnSamePage(a.at, a.size, b.at)

LEMMA ItemBehind ==
  ASSUME pageSize \in Nat \ {0}, NEW s \in Seq(Item), Ascending(s), NEW align \in Nat \ {0},
         NEW item \in Item, item.at = Behind(s, align, item.type)
  PROVE  EndOf(s) <= item.at /\ \A i \in DOMAIN s : LeftOf(s[i], item)
<1>1. /\ EndOf(s) <= item.at
      /\ \A i \in DOMAIN s : Conflict(s[i].type, item.type) => ~ OnSamePage(s[i].at, s[i].size, item.at)
  BY BehindIs
<1>2. ASSUME NEW i \in DOMAIN s PROVE Before(s[i], item)
  <2>1. s[i].at + s[i].size <= EndOf(s) /\ EndOf(s) \in Nat
    BY EndIs
  <2>2. s[i] \in Item
    OBVIOUS
  <2>. QED BY <1>1, <2>1, <2>2 DEF Before, Item
<1>. QED BY <1>1, <1>2 DEF LeftOf

LEMMA ItemAhead ==
  ASSUME pageSize \in Nat \ {0}, NEW s \in Seq(Item), Ascending(s), NEW item \in Item,
         s # <<>> => item.at + item.size <= s[1].at,
         item.size % pageSize # 0 \/ item.at % pageSize # 0 => ~ ConflictAfter(s, item.at, item.size, item.type)
  PROVE  \A i \in DOMAIN s : LeftOf(item, s[i])
<1>1. item.at \in Nat /\ item.size \in Nat \ {0}
  BY DEF Item
<1>2. \A i \in DOMAIN s : /\ item.at + item.size <= s[i].at
                          /\ Conflict(item.type, s[i].type) => ~ OnSamePage(item.at, item.size, s[i].at)
  BY <1>1, AheadIs
<1>. QED BY <1>2 DEF LeftOf, Before

LEMMA AlignedZero ==
  ASSUME NEW a \in Nat \ {0}
  PROVE  AlignUp(0, a) = 0
<1>1. (0 + a - 1) \div a = 0
  BY Z3
<1>2. 0 * a = 0
  OBVIOUS
<1>. QED BY <1>1, <1>2, Zenon DEF AlignUp

(* Where CreateAllocationRequest_LowerAddress puts an allocation             *)
LEMMA LowerIs ==
  ASSUME LinearInvariant, NEW a \in Asked, a.size <= LinearSize,
         NEW c \in LowerAddress(a.size, a.align, a.type),
         NEW item, item = [at |-> c.to, size |-> a.size, type |-> a.type]
  PROVE  /\ item \in Item /\ ~ IsNull(item) /\ item.at + item.size <= LinearSize
         /\ \/ /\ c.vector = "first" /\ lin.mode # "ring" /\ EndOf(lin.first) <= item.at
               /\ \A i \in DOMAIN lin.first : LeftOf(lin.first[i], item)
               /\ \A j \in DOMAIN lin.second : LeftOf(item, lin.second[j])
            \/ /\ c.vector = "ring" /\ lin.mode # "double" /\ lin.first # <<>>
               /\ EndOf(lin.second) <= item.at
               /\ \A j \in DOMAIN lin.second : LeftOf(lin.second[j], item)
               /\ \A i \in lin.nullBegin + 1 .. Len(lin.first) : LeftOf(item, lin.first[i])
<1>. DEFINE first == lin.first
            second == lin.second
            size == a.size
            align == a.align
            type == a.type
            uneven(at) == size % pageSize # 0 \/ at % pageSize # 0
            at1 == Behind(first, align, type)
            end1 == IF lin.mode = "double" THEN Last(second).at ELSE LinearSize
            fits1 == lin.mode # "ring" /\ at1 + size <= end1
            at2 == Behind(second, align, type)
            ahead == SubSeq(first, lin.nullBegin + 1, Len(first))
            end2 == IF ahead = <<>> THEN LinearSize ELSE ahead[1].at
            fits2 == lin.mode # "double" /\ at2 + size <= end2
<1>1. LowerAddress(size, align, type) =
        IF fits1
        THEN IF uneven(at1) /\ lin.mode = "double" /\ ConflictAfter(Reverse(second), at1, size, type)
             THEN {} ELSE {[to |-> at1, vector |-> "first"]}
        ELSE IF fits2
        THEN IF uneven(at2) /\ ConflictAfter(ahead, at2, size, type)
             THEN {} ELSE {[to |-> at2, vector |-> "ring"]}
        ELSE {}
  BY Zenon DEF LowerAddress
<1>2. /\ lin \in LinearRecord /\ InOrder(lin) /\ Counted(lin) /\ NoneToDrop(lin) /\ pageSize \in Nat \ {0}
      /\ size \in Nat \ {0} /\ align \in Nat \ {0} /\ type \in SuballocationTypes /\ type # "free"
      /\ LinearSize \in Nat
  BY LinearAssumption DEF LinearInvariant, Loose
<1>3. /\ first \in Seq(Item) /\ second \in Seq(Item) /\ lin.mode \in {"empty", "ring", "double"}
      /\ Len(first) \in Nat /\ Len(second) \in Nat /\ lin.nullBegin \in Nat
      /\ Ascending(first) /\ Inside(first) /\ Inside(second)
  BY <1>2, RecordIs DEF InOrder
<1>4. /\ lin.mode = "empty" <=> second = <<>>
      /\ lin.mode = "ring" => first # <<>> /\ Ascending(second)
      /\ lin.mode = "double" => Descending(second)
      /\ first # <<>> => lin.nullBegin < Len(first)
  BY <1>2 DEF InOrder, NoneToDrop
<1>. HIDE DEF first, second, size, align, type, at1, at2, ahead
<1>5. \/ /\ fits1 /\ c = [to |-> at1, vector |-> "first"]
         /\ ~ (uneven(at1) /\ lin.mode = "double" /\ ConflictAfter(Reverse(second), at1, size, type))
      \/ /\ ~ fits1 /\ fits2 /\ c = [to |-> at2, vector |-> "ring"]
         /\ ~ (uneven(at2) /\ ConflictAfter(ahead, at2, size, type))
  <2>1. c \in LowerAddress(size, align, type)
    BY DEF size, align, type
  <2>. HIDE DEF fits1, fits2, uneven
  <2>. QED BY <1>1, <2>1
<1>6. item.size = size /\ item.type = type /\ item.at = c.to
  BY DEF size, type
<1>7. c.to \in Nat => item \in Item /\ ~ IsNull(item)
  BY <1>2 DEF Item, IsNull, size, type
<1>8. CASE /\ fits1 /\ c = [to |-> at1, vector |-> "first"]
           /\ ~ (uneven(at1) /\ lin.mode = "double" /\ ConflictAfter(Reverse(second), at1, size, type))
  <2>1. c.to = at1 /\ c.vector = "first" /\ item.at = at1
    BY <1>6, <1>8
  <2>2. item \in Item /\ ~ IsNull(item) /\ item.at \in Nat
    <3>1. at1 \in Nat
      BY <1>2, <1>3, BehindIs DEF at1
    <3>. QED BY <1>7, <2>1, <3>1
  <2>3. EndOf(first) <= item.at /\ \A i \in DOMAIN first : LeftOf(first[i], item)
    BY <1>2, <1>3, <1>6, <2>1, <2>2, ItemBehind DEF at1
  <2>4. CASE lin.mode = "double"
    <3>1. second # <<>> /\ Descending(second)
      BY <1>4, <2>4
    <3>2. /\ Reverse(second) \in Seq(Item) /\ Ascending(Reverse(second)) /\ Len(Reverse(second)) = Len(second)
          /\ Reverse(second)[1] = Last(second)
          /\ \A i \in 1 .. Len(second) : Reverse(second)[i] = second[Len(second) - i + 1]
      BY <1>3, <3>1, ReversedIs
    <3>3. item.at + item.size <= Last(second).at
      BY <1>6, <1>8, <2>1, <2>4
    <3>4. item.size % pageSize # 0 \/ item.at % pageSize # 0 =>
            ~ ConflictAfter(Reverse(second), item.at, item.size, item.type)
      BY <1>6, <1>8, <2>1, <2>4
    <3>5. \A i \in DOMAIN Reverse(second) : LeftOf(item, Reverse(second)[i])
      BY <1>2, <2>2, <3>2, <3>3, <3>4, ItemAhead
    <3>6. ASSUME NEW j \in DOMAIN second PROVE LeftOf(item, second[j])
      <4>1. j \in 1 .. Len(second) /\ Len(second) - j + 1 \in 1 .. Len(second)
        BY <1>3, <3>6
      <4>2. Reverse(second)[Len(second) - j + 1] = second[Len(second) - (Len(second) - j + 1) + 1]
        BY <3>2, <4>1
      <4>3. Len(second) - (Len(second) - j + 1) + 1 = j
        BY <1>3, <4>1
      <4>4. Len(second) - j + 1 \in DOMAIN Reverse(second)
        BY <3>2, <4>1, LenProperties
      <4>5. LeftOf(item, Reverse(second)[Len(second) - j + 1])
        BY <3>5, <4>4
      <4>6. Reverse(second)[Len(second) - j + 1] = second[j]
        BY ONLY <4>2, <4>3, Zenon
      <4>. QED BY <4>5, <4>6
    <3>7. Last(second).at <= LinearSize
      <4>1. Last(second) \in Item /\ Last(second).at + Last(second).size <= LinearSize
        BY <1>3, <3>1, LastIs DEF Inside
      <4>. QED BY <1>2, <4>1 DEF Item
    <3>8. item.at + item.size <= LinearSize
      <4>1. Last(second).at \in Nat
        BY <1>3, <3>1, LastIs DEF Item
      <4>. QED BY <1>2, <1>6, <2>2, <3>3, <3>7, <4>1
    <3>. QED BY <2>1, <2>2, <2>3, <2>4, <3>6, <3>8 DEF first, second
  <2>5. CASE lin.mode # "double"
    <3>1. lin.mode = "empty" /\ second = <<>>
      BY <1>3, <1>4, <1>8, <2>5
    <3>2. item.at + item.size <= LinearSize
      BY <1>6, <1>8, <2>1, <2>5
    <3>. QED BY <2>1, <2>2, <2>3, <3>1, <3>2 DEF first, second
  <2>. QED BY <2>4, <2>5
<1>9. CASE /\ ~ fits1 /\ fits2 /\ c = [to |-> at2, vector |-> "ring"]
           /\ ~ (uneven(at2) /\ ConflictAfter(ahead, at2, size, type))
  <2>1. c.to = at2 /\ c.vector = "ring" /\ item.at = at2 /\ lin.mode # "double"
    BY <1>6, <1>9
  <2>2. Ascending(second)
    <3>1. second = <<>> => Ascending(second)
      BY DEF Ascending
    <3>. QED BY <1>3, <1>4, <2>1, <3>1
  <2>3. item \in Item /\ ~ IsNull(item) /\ item.at \in Nat
    <3>1. at2 \in Nat
      BY <1>2, <1>3, <2>2, BehindIs DEF at2
    <3>. QED BY <1>7, <2>1, <3>1
  <2>4. EndOf(second) <= item.at /\ \A i \in DOMAIN second : LeftOf(second[i], item)
    BY <1>2, <1>3, <1>6, <2>1, <2>2, <2>3, ItemBehind DEF at2
  <2>5. first # <<>>
    <3>1. ASSUME first = <<>> PROVE FALSE
      <4>1. lin.mode # "ring"
        BY <1>4, <3>1
      <4>2. at1 = 0
        <5>1. EndOf(first) = 0 /\ AlignUp(EndOf(first), align) = 0
          BY <1>2, <3>1, AlignedZero DEF EndOf
        <5>2. ~ ConflictBefore(first, 0, type)
          BY <3>1 DEF ConflictBefore
        <5>. QED BY <5>1, <5>2 DEF Behind, at1
      <4>3. at1 + size <= LinearSize
        BY <1>2, <4>2 DEF size
      <4>. QED BY <1>9, <2>1, <4>1, <4>3
    <3>. QED BY <3>1
  <2>6. /\ ahead = WithoutFirst(first, lin.nullBegin) /\ lin.nullBegin \in 0 .. Len(first)
        /\ lin.nullBegin < Len(first)
    BY <1>3, <1>4, <2>5 DEF WithoutFirst, ahead
  <2>7. /\ ahead \in Seq(Item) /\ Len(ahead) = Len(first) - lin.nullBegin
        /\ \A i \in 1 .. Len(first) - lin.nullBegin : ahead[i] = first[i + lin.nullBegin]
    BY <1>3, <2>6, FirstDropped
  <2>8. ahead # <<>> /\ ahead[1] = first[1 + lin.nullBegin] /\ 1 + lin.nullBegin \in 1 .. Len(first)
    BY <1>3, <2>6, <2>7
  <2>9. Ascending(ahead)
    <3>1. ASSUME NEW i \in 1 .. Len(ahead), NEW j \in 1 .. Len(ahead), i < j PROVE Before(ahead[i], ahead[j])
      <4>1. /\ i + lin.nullBegin \in 1 .. Len(first) /\ j + lin.nullBegin \in 1 .. Len(first)
            /\ i + lin.nullBegin < j + lin.nullBegin
        BY <1>3, <2>7, <3>1
      <4>2. Before(first[i + lin.nullBegin], first[j + lin.nullBegin])
        BY <1>3, <4>1, LenProperties DEF Ascending
      <4>. QED BY <2>7, <4>2
    <3>2. DOMAIN ahead = 1 .. Len(ahead)
      BY <2>7
    <3>. QED BY <3>1, <3>2 DEF Ascending
  <2>10. item.at + item.size <= ahead[1].at
    BY <1>6, <1>9, <2>1, <2>8
  <2>11. item.size % pageSize # 0 \/ item.at % pageSize # 0 =>
           ~ ConflictAfter(ahead, item.at, item.size, item.type)
    BY <1>6, <1>9, <2>1
  <2>12. \A i \in DOMAIN ahead : LeftOf(item, ahead[i])
    BY <1>2, <2>3, <2>7, <2>9, <2>10, <2>11, ItemAhead
  <2>13. ASSUME NEW i \in lin.nullBegin + 1 .. Len(first) PROVE LeftOf(item, first[i])
    <3>1. i - lin.nullBegin \in 1 .. Len(first) - lin.nullBegin /\ (i - lin.nullBegin) + lin.nullBegin = i
      BY <1>3, <2>13
    <3>2. ahead[i - lin.nullBegin] = first[i] /\ i - lin.nullBegin \in DOMAIN ahead
      BY <2>7, <3>1
    <3>. QED BY <2>12, <3>2
  <2>14. item.at + item.size <= LinearSize
    <3>1. ahead[1] \in Item
      BY <2>7, <2>8
    <3>2. ahead[1].at + ahead[1].size <= LinearSize
      BY <1>3, <2>8, LenProperties DEF Inside
    <3>. QED BY <1>2, <1>6, <2>3, <2>10, <3>1, <3>2 DEF Item
  <2>. QED BY <2>1, <2>3, <2>4, <2>5, <2>13, <2>14 DEF first, second
<1>. QED BY <1>5, <1>8, <1>9

(* Where CreateAllocationRequest_UpperAddress puts an allocation             *)
LEMMA UpperIs ==
  ASSUME LinearInvariant, NEW a \in Asked, UpperOnPages \/ pageSize = 1,
         NEW c \in UpperAddress(a.size, a.align, a.type),
         NEW item, item = [at |-> c.to, size |-> a.size, type |-> a.type]
  PROVE  /\ item \in Item /\ ~ IsNull(item) /\ item.at + item.size <= LinearSize
         /\ c.vector = "double" /\ lin.mode # "ring" /\ EndOf(lin.first) <= item.at
         /\ \A i \in DOMAIN lin.first : LeftOf(lin.first[i], item)
         /\ \A j \in DOMAIN lin.second : LeftOf(item, lin.second[j])
<1>. DEFINE first == lin.first
            second == lin.second
            size == a.size
            align == a.align
            type == a.type
            top == IF second = <<>> THEN LinearSize ELSE Last(second).at
            down == AlignDown(top - size, align)
            moved == pageSize > 1 /\ pageSize # align /\ ConflictAfter(Reverse(second), down, size, type)
            at == IF moved THEN AlignDown(down, pageSize) ELSE down
            fits == /\ lin.mode # "ring" /\ size <= top
                    /\ EndOf(first) <= at
                    /\ ~ (pageSize > 1 /\ ConflictBefore(first, at, type))
<1>1. UpperAddress(size, align, type) = IF fits THEN {[to |-> at, vector |-> "double"]} ELSE {}
  BY Zenon DEF UpperAddress
<1>2. /\ lin \in LinearRecord /\ InOrder(lin) /\ Counted(lin) /\ NoneToDrop(lin) /\ pageSize \in Nat \ {0}
      /\ size \in Nat \ {0} /\ align \in Nat \ {0} /\ type \in SuballocationTypes /\ type # "free"
      /\ LinearSize \in Nat
  BY LinearAssumption DEF LinearInvariant, Loose
<1>3. /\ first \in Seq(Item) /\ second \in Seq(Item) /\ lin.mode \in {"empty", "ring", "double"}
      /\ Ascending(first) /\ Inside(first) /\ Inside(second)
  BY <1>2, RecordIs DEF InOrder
<1>4. lin.mode # "ring" => Descending(second)
  <2>1. second = <<>> => Descending(second)
    BY DEF Descending
  <2>. QED BY <1>2, <1>3, <2>1 DEF InOrder
<1>. HIDE DEF first, second, size, align, type, down, moved
<1>5. fits /\ c = [to |-> at, vector |-> "double"]
  <2>1. c \in UpperAddress(size, align, type)
    BY DEF size, align, type
  <2>. HIDE DEF fits, at
  <2>. QED BY <1>1, <2>1
<1>6. item.size = size /\ item.type = type /\ item.at = at /\ c.vector = "double" /\ c.to = at
  <2>. HIDE DEF at
  <2>. QED BY <1>5 DEF size, type
<1>7. top \in Nat /\ top <= LinearSize /\ \A j \in DOMAIN second : top <= second[j].at
  <2>1. CASE second = <<>>
    BY <1>2, <2>1
  <2>2. CASE second # <<>>
    <3>1. /\ Last(second) \in Item /\ Last(second) = second[Len(second)] /\ Len(second) \in DOMAIN second
          /\ Last(second).at + Last(second).size <= LinearSize /\ top = Last(second).at
      BY <1>3, <2>2, LastIs DEF Inside
    <3>2. ASSUME NEW j \in DOMAIN second PROVE top <= second[j].at
      <4>1. j = Len(second) \/ j < Len(second)
        BY <1>3
      <4>2. CASE j < Len(second)
        <5>1. Before(second[Len(second)], second[j])
          BY <1>4, <1>5, <3>1, <4>2 DEF Descending
        <5>2. second[j] \in Item
          BY <1>3
        <5>. QED BY <3>1, <5>1, <5>2 DEF Before, Item
      <4>3. CASE j = Len(second)
        BY <3>1, <4>3 DEF Item
      <4>. QED BY <4>1, <4>2, <4>3
    <3>. QED BY <1>2, <3>1, <3>2 DEF Item
  <2>. QED BY <2>1, <2>2
<1>. HIDE DEF top
<1>8. down \in Nat /\ down + size <= top
  <2>1. top - size \in Nat
    BY <1>2, <1>5, <1>7
  <2>2. down \in Nat /\ down <= top - size
    BY <1>2, <2>1, AlignedDown DEF down
  <2>. QED BY <1>2, <1>7, <2>1, <2>2
<1>9. at \in Nat /\ at + size <= top
  <2>1. AlignDown(down, pageSize) \in Nat /\ AlignDown(down, pageSize) <= down
    BY <1>2, <1>8, AlignedDown
  <2>. QED BY <1>2, <1>7, <1>8, <2>1
<1>10. EndOf(first) <= at /\ lin.mode # "ring"
  BY <1>5
<1>. HIDE DEF at, fits
<1>11. item \in Item /\ ~ IsNull(item)
  BY <1>2, <1>6, <1>9 DEF Item, IsNull, size, type
<1>12. item.at + item.size <= LinearSize
  BY <1>2, <1>6, <1>7, <1>9
(* A byte is a page when the upper side is not used where pages matter.      *)
<1>13. ASSUME NEW r \in Item, NEW s \in Item, Before(r, s) PROVE LeftOf(r, s)
  <2>1. ASSUME pageSize = 1 PROVE ~ OnSamePage(r.at, r.size, s.at)
    <3>1. r.at \in Nat /\ s.at \in Nat /\ r.size \in Nat /\ r.at + r.size <= s.at
      BY <1>13 DEF Before, Item
    <3>2. PICK k \in Int : s.at = k * pageSize
      BY <2>1, <3>1, MultipleOfOne
    <3>. QED BY <1>2, <3>1, <3>2, NotOnPageOf
  <2>. QED BY <1>13, <2>1 DEF LeftOf
<1>14. ASSUME NEW i \in DOMAIN first PROVE LeftOf(first[i], item)
  <2>1. first[i].at + first[i].size <= EndOf(first) /\ EndOf(first) \in Nat /\ first[i] \in Item
    BY <1>3, EndIs
  <2>2. Before(first[i], item)
    BY <1>6, <1>9, <1>10, <2>1 DEF Before, Item
  <2>. QED BY <1>11, <1>13, <2>1, <2>2
<1>15. ASSUME NEW j \in DOMAIN second PROVE LeftOf(item, second[j])
  <2>1. second[j] \in Item /\ top <= second[j].at
    BY <1>3, <1>7
  <2>2. Before(item, second[j])
    BY <1>2, <1>6, <1>7, <1>9, <2>1 DEF Before, Item
  <2>. QED BY <1>11, <1>13, <2>1, <2>2
<1>. QED BY <1>6, <1>10, <1>11, <1>12, <1>14, <1>15 DEF first, second

LEMMA AppendedTyped ==
  ASSUME NEW l \in LinearRecord, NEW item \in Item, NEW size \in Nat, NEW mode \in {"ring", "double"},
         NEW m, \/ m = [l EXCEPT !.first = Append(@, item), !.sumFree = @ - size]
                \/ m = [l EXCEPT !.second = Append(@, item), !.mode = mode, !.sumFree = @ - size]
  PROVE  m \in LinearRecord
<1>1. /\ Append(l.first, item) \in Seq(Item) /\ Append(l.second, item) \in Seq(Item)
      /\ l.sumFree - size \in Int /\ mode \in {"empty", "ring", "double"}
  BY RecordIs
<1>2. ASSUME NEW s \in Seq(Item), NEW n \in Int, NEW k \in {"empty", "ring", "double"}
      PROVE  /\ [l EXCEPT !.first = s, !.sumFree = n] \in LinearRecord
             /\ [l EXCEPT !.second = s, !.mode = k, !.sumFree = n] \in LinearRecord
  BY DEF LinearRecord
<1>3. [l EXCEPT !.first = Append(@, item), !.sumFree = @ - size] \in LinearRecord
  BY ONLY <1>1, <1>2, Zenon
<1>4. [l EXCEPT !.second = Append(@, item), !.mode = mode, !.sumFree = @ - size] \in LinearRecord
  BY ONLY <1>1, <1>2, Zenon
<1>. QED BY <1>3, <1>4, Zenon

(* Room in l for item, as the request chose it                               *)
Placed(item, l) ==
  /\ item \in Item /\ ~ IsNull(item) /\ item.at + item.size <= LinearSize
  /\ \A r \in Live(l) : LeftOf(r, item) \/ LeftOf(item, r)

LEMMA AllocatedIs ==
  ASSUME LinearInvariant, NEW a \in Asked, AllocateLinear(a)
  PROVE  \E item : /\ Placed(item, lin)
                   /\ Loose(lin') /\ NoneToDrop(lin') /\ Live(lin') = Live(lin) \union {item}
                   /\ lin'.sumFree = lin.sumFree - item.size
                   /\ pageSize' = pageSize
<1>1. a.size <= LinearSize /\ (a.upper => UpperOnPages \/ pageSize = 1) /\ pageSize' = pageSize
  BY DEF AllocateLinear
<1>2. PICK c \in IF a.upper THEN UpperAddress(a.size, a.align, a.type)
                 ELSE LowerAddress(a.size, a.align, a.type) :
        lin' = IF c.vector = "first"
               THEN [lin EXCEPT !.first = Append(@, [at |-> c.to, size |-> a.size, type |-> a.type]),
                                !.sumFree = @ - a.size]
               ELSE [lin EXCEPT !.second = Append(@, [at |-> c.to, size |-> a.size, type |-> a.type]),
                                !.mode = c.vector, !.sumFree = @ - a.size]
  BY DEF AllocateLinear
<1>. DEFINE item == [at |-> c.to, size |-> a.size, type |-> a.type]
<1>3. /\ item \in Item /\ ~ IsNull(item) /\ item.at + item.size <= LinearSize
      /\ \/ /\ c.vector = "first" /\ lin.mode # "ring" /\ EndOf(lin.first) <= item.at
            /\ \A i \in DOMAIN lin.first : LeftOf(lin.first[i], item)
            /\ \A j \in DOMAIN lin.second : LeftOf(item, lin.second[j])
         \/ /\ c.vector = "ring" /\ lin.mode # "double" /\ lin.first # <<>>
            /\ EndOf(lin.second) <= item.at
            /\ \A j \in DOMAIN lin.second : LeftOf(lin.second[j], item)
            /\ \A i \in lin.nullBegin + 1 .. Len(lin.first) : LeftOf(item, lin.first[i])
         \/ /\ c.vector = "double" /\ lin.mode # "ring" /\ EndOf(lin.first) <= item.at
            /\ \A i \in DOMAIN lin.first : LeftOf(lin.first[i], item)
            /\ \A j \in DOMAIN lin.second : LeftOf(item, lin.second[j])
  <2>1. CASE a.upper
    <3>1. c \in UpperAddress(a.size, a.align, a.type) /\ (UpperOnPages \/ pageSize = 1)
      BY <1>1, <1>2, <2>1
    <3>. QED BY <3>1, UpperIs
  <2>2. CASE ~ a.upper
    <3>1. c \in LowerAddress(a.size, a.align, a.type)
      BY <1>2, <2>2
    <3>. QED BY <1>1, <3>1, LowerIs
  <2>. QED BY <2>1, <2>2
<1>4. /\ lin \in LinearRecord /\ InOrder(lin) /\ Counted(lin) /\ NoneToDrop(lin) /\ Loose(lin)
      /\ lin.mode \in {"empty", "ring", "double"}
  BY RecordIs DEF LinearInvariant, Loose
<1>5. item.size = a.size /\ item.size \in Nat
  BY <1>3 DEF Item
<1>6. lin' = IF c.vector = "first"
             THEN [lin EXCEPT !.first = Append(@, item), !.sumFree = @ - item.size]
             ELSE [lin EXCEPT !.second = Append(@, item), !.mode = c.vector, !.sumFree = @ - item.size]
  BY <1>2
<1>. HIDE DEF item
<1>7. Placed(item, lin)
  <2>1. ASSUME NEW r \in Live(lin) PROVE LeftOf(r, item) \/ LeftOf(item, r)
    <3>1. \/ \E i \in lin.nullBegin + 1 .. Len(lin.first) : i \in DOMAIN lin.first /\ r = lin.first[i]
          \/ \E i \in DOMAIN lin.second : r = lin.second[i]
      BY <1>4, ItemAt DEF Live
    <3>. QED BY <1>3, <3>1
  <2>. QED BY <1>3, <2>1 DEF Placed
<1>8. CASE c.vector = "first"
  <2>1. lin' = [lin EXCEPT !.first = Append(@, item), !.sumFree = @ - item.size]
    BY <1>6, <1>8
  <2>2. lin' \in LinearRecord
    BY <1>3, <1>4, <1>5, <2>1, AppendedTyped
  <2>3. /\ lin'.first = Append(lin.first, item) /\ lin'.second = lin.second /\ lin'.mode = lin.mode
        /\ lin'.nullBegin = lin.nullBegin /\ lin'.nullMiddle = lin.nullMiddle
        /\ lin'.nullSecond = lin.nullSecond /\ lin'.sumFree = lin.sumFree - item.size
    BY <1>4, <2>1 DEF LinearRecord
  <2>4. /\ lin.mode # "ring" /\ EndOf(lin.first) <= item.at
        /\ \A j \in DOMAIN lin.second : Before(item, lin.second[j])
    BY <1>3, <1>8 DEF LeftOf
  <2>5. Loose(lin') /\ NoneToDrop(lin') /\ Live(lin') = Live(lin) \union {item}
    BY <1>3, <1>4, <2>2, <2>3, <2>4, AppendedFirst
  <2>. QED BY <1>1, <1>7, <2>3, <2>5
<1>9. CASE c.vector \in {"ring", "double"}
  <2>1. lin' = [lin EXCEPT !.second = Append(@, item), !.mode = c.vector, !.sumFree = @ - item.size]
    BY <1>6, <1>9
  <2>2. lin' \in LinearRecord
    BY <1>3, <1>4, <1>5, <1>9, <2>1, AppendedTyped
  <2>3. /\ lin'.second = Append(lin.second, item) /\ lin'.first = lin.first /\ lin'.mode = c.vector
        /\ lin'.nullBegin = lin.nullBegin /\ lin'.nullMiddle = lin.nullMiddle
        /\ lin'.nullSecond = lin.nullSecond /\ lin'.sumFree = lin.sumFree - item.size
    BY <1>4, <2>1 DEF LinearRecord
  <2>4. /\ lin.mode \in {"empty", c.vector}
        /\ c.vector = "ring" =>
             /\ lin.first # <<>> /\ EndOf(lin.second) <= item.at
             /\ \A j \in lin.nullBegin + 1 .. Len(lin.first) : Before(item, lin.first[j])
        /\ c.vector = "double" =>
             /\ EndOf(lin.first) <= item.at /\ \A j \in DOMAIN lin.second : Before(item, lin.second[j])
    BY <1>3, <1>4, <1>9 DEF LeftOf
  <2>5. Loose(lin') /\ NoneToDrop(lin') /\ Live(lin') = Live(lin) \union {item}
    BY <1>3, <1>4, <1>9, <2>2, <2>3, <2>4, AppendedSecond
  <2>. QED BY <1>1, <1>7, <2>3, <2>5
<1>. QED BY <1>3, <1>8, <1>9

LEMMA InvariantPrimed ==
  ASSUME pageSize' \in Pages, Loose(lin'), SumRight(lin'), NoneToDrop(lin')
  PROVE  LinearInvariant'
BY DEF LinearInvariant, Loose, LinearRecord, InOrder, Counted, SumRight, NoneToDrop

LEMMA LivePrimed == ItemsLive = Live(lin) /\ ItemsLive' = Live(lin')
BY DEF ItemsLive, Live

(* An allocation is added to the others, apart from each of them.            *)
LEMMA AllocateKeeps ==
  ASSUME LinearInvariant, NEW a \in Asked, AllocateLinear(a)
  PROVE  /\ LinearInvariant' /\ pageSize' = pageSize
         /\ \E item : Placed(item, lin) /\ item \notin ItemsLive /\ ItemsLive' = ItemsLive \union {item}
<1>1. PICK item : /\ Placed(item, lin)
                  /\ Loose(lin') /\ NoneToDrop(lin') /\ Live(lin') = Live(lin) \union {item}
                  /\ lin'.sumFree = lin.sumFree - item.size
                  /\ pageSize' = pageSize
  BY AllocatedIs
<1>2. item \in Item /\ item.size \in Nat /\ lin \in LinearRecord /\ SumRight(lin) /\ LinearSize \in Nat
      /\ lin.sumFree \in Int
  BY <1>1, LinearAssumption, RecordIs DEF Placed, Item, LinearInvariant, Loose
<1>3. item \notin Live(lin)
  <2>1. ~ LeftOf(item, item)
    BY <1>2 DEF LeftOf, Before, Item
  <2>. QED BY <1>1, <2>1 DEF Placed
<1>4. SumRight(lin')
  <2>1. Sizing(SizesOf(Live(lin)))
    BY <1>2, LiveIs
  <2>2. /\ SumFunction(SizesOf(Live(lin) \union {item})) = SumFunction(SizesOf(Live(lin))) + item.size
        /\ SumFunction(SizesOf(Live(lin))) \in Nat
    BY <1>2, <1>3, <2>1, SumWith
  <2>3. lin.sumFree = LinearSize - SumFunction(SizesOf(Live(lin)))
    BY <1>2 DEF SumRight
  <2>4. lin'.sumFree = LinearSize - SumFunction(SizesOf(Live(lin) \union {item}))
    BY <1>1, <1>2, <2>2, <2>3
  <2>. QED BY <1>1, <2>4 DEF SumRight
<1>5. LinearInvariant'
  BY <1>1, <1>4, InvariantPrimed DEF LinearInvariant
<1>. QED BY <1>1, <1>3, <1>5, LivePrimed

-----------------------------------------------------------------------------
(* The invariant of the block                                                *)

LEMMA FreshIs ==
  ASSUME NEW l, l = Fresh
  PROVE  Loose(l) /\ NoneToDrop(l) /\ SumRight(l) /\ Live(l) = {}
<1>1. LinearSize \in Int /\ Fresh = [Fresh EXCEPT !.sumFree = LinearSize] /\ Fresh \in LinearRecord
  <2>1. LinearSize \in Int
    BY LinearAssumption
  <2>2. Fresh = [Fresh EXCEPT !.sumFree = LinearSize] /\ [Fresh EXCEPT !.sumFree = LinearSize] \in LinearRecord
    BY <2>1, FreshTyped
  <2>. QED BY <2>1, <2>2, Zenon
<1>2. Loose(l) /\ NoneToDrop(l) /\ Live(l) = {} /\ l.sumFree = LinearSize
  BY <1>1, EmptiedIs
<1>3. SumFunction(SizesOf({})) = 0
  BY SumOfNone DEF SizesOf
<1>. QED BY <1>1, <1>2, <1>3 DEF SumRight

LEMMA InvariantInit == LinearInit => LinearInvariant
BY FreshIs DEF LinearInit, LinearInvariant

LEMMA InvariantNext == LinearInvariant /\ [LinearNext]_linearVars => LinearInvariant'
<1>. SUFFICES ASSUME LinearInvariant, [LinearNext]_linearVars PROVE LinearInvariant'
  OBVIOUS
<1>1. ASSUME NEW a \in Asked, AllocateLinear(a) PROVE LinearInvariant'
  BY <1>1, AllocateKeeps
<1>2. ASSUME NEW r \in ItemsLive, FreeLinear(r.at) PROVE LinearInvariant'
  BY <1>2, FreeKeeps
<1>3. CASE ClearLinear
  BY <1>3, FreshIs, InvariantPrimed DEF ClearLinear, LinearInvariant
<1>4. CASE UNCHANGED linearVars
  BY <1>4, InvariantPrimed DEF linearVars, LinearInvariant
<1>. QED BY <1>1, <1>2, <1>3, <1>4 DEF LinearNext

(* Whatever is allocated and freed, in whatever order, the items are in the  *)
(* order of their offsets, the null ones are counted and none is left where  *)
(* it could be dropped, and the free bytes add up. (Alloc, Free,             *)
(* CleanupAfterFree)                                                         *)
THEOREM LinearAlwaysInOrder == LinearSpec => []LinearInvariant
BY InvariantInit, InvariantNext, PTL DEF LinearSpec

-----------------------------------------------------------------------------
(* What the invariant says                                                   *)

LEMMA InvariantIs ==
  ASSUME LinearInvariant
  PROVE  /\ lin \in LinearRecord /\ Loose(lin) /\ InOrder(lin) /\ Counted(lin) /\ NoneToDrop(lin) /\ SumRight(lin)
         /\ pageSize \in Pages /\ pageSize \in Nat \ {0} /\ LinearSize \in Nat
         /\ lin.first \in Seq(Item) /\ lin.second \in Seq(Item) /\ lin.mode \in {"empty", "ring", "double"}
         /\ lin.nullBegin \in Nat /\ lin.nullMiddle \in Nat /\ lin.nullSecond \in Nat
         /\ Len(lin.first) \in Nat /\ Len(lin.second) \in Nat
         /\ Ascending(lin.first) /\ Inside(lin.first) /\ Inside(lin.second)
<1>1. lin \in LinearRecord /\ Loose(lin) /\ InOrder(lin) /\ Counted(lin) /\ NoneToDrop(lin) /\ SumRight(lin)
  BY DEF LinearInvariant, Loose
<1>. QED BY <1>1, RecordIs, LinearAssumption DEF LinearInvariant, InOrder

LEMMA TypeFollows == LinearInvariant => LinearTypeOK
<1>. SUFFICES ASSUME LinearInvariant PROVE LinearTypeOK
  OBVIOUS
<1>1. /\ Cardinality(NullsIn(lin.first)) <= Len(lin.first)
      /\ Cardinality(NullsIn(lin.second)) <= Len(lin.second)
  BY InvariantIs, NullsFinite
<1>2. /\ lin.nullBegin \in 0 .. Len(lin.first)
      /\ lin.nullBegin + lin.nullMiddle \in 0 .. Len(lin.first)
      /\ lin.nullSecond \in 0 .. Len(lin.second)
  BY <1>1, InvariantIs DEF Counted
<1>3. ASSUME NEW items \in {lin.first, lin.second}, NEW i \in DOMAIN items
      PROVE  items[i].type \in SuballocationTypes /\ items[i].at \in Nat /\ items[i].size \in Nat
  <2>1. items[i] \in Item
    BY <1>3, InvariantIs
  <2>. QED BY <2>1 DEF Item
<1>. QED BY <1>2, <1>3, InvariantIs DEF LinearTypeOK

LEMMA SortedIs ==
  ASSUME NEW s \in Seq(Item), Ascending(s)
  PROVE  Sorted(s)
<1>1. ASSUME NEW i \in 1 .. Len(s) - 1 PROVE s[i].at < s[i + 1].at
  <2>1. i \in DOMAIN s /\ i + 1 \in DOMAIN s /\ i < i + 1
    BY <1>1, LenProperties
  <2>2. s[i] \in Item /\ s[i + 1] \in Item
    BY <2>1
  <2>3. Before(s[i], s[i + 1])
    BY <2>1 DEF Ascending
  <2>. QED BY <2>2, <2>3 DEF Before, Item
<1>. QED BY <1>1 DEF Sorted

LEMMA AscendingFrom ==
  ASSUME NEW s \in Seq(Item), Ascending(s), NEW n \in 0 .. Len(s)
  PROVE  Ascending(WithoutFirst(s, n)) /\ WithoutFirst(s, n) \in Seq(Item)
<1>1. /\ WithoutFirst(s, n) \in Seq(Item) /\ Len(WithoutFirst(s, n)) = Len(s) - n /\ Len(s) \in Nat
      /\ \A i \in 1 .. Len(s) - n : WithoutFirst(s, n)[i] = s[i + n]
  BY FirstDropped
<1>. DEFINE r == WithoutFirst(s, n)
<1>. HIDE DEF r
<1>2. ASSUME NEW i \in 1 .. Len(s) - n, NEW j \in 1 .. Len(s) - n, i < j PROVE Before(r[i], r[j])
  <2>1. i + n \in DOMAIN s /\ j + n \in DOMAIN s /\ i + n < j + n
    BY <1>1, <1>2, LenProperties
  <2>2. Before(s[i + n], s[j + n])
    BY <2>1 DEF Ascending
  <2>. QED BY <1>1, <2>2 DEF r
<1>3. DOMAIN r = 1 .. Len(s) - n
  BY <1>1, LenProperties DEF r
<1>. QED BY <1>1, <1>2, <1>3 DEF Ascending, r

LEMMA FoundFollows == LinearInvariant => ItemsFound
<1>. SUFFICES ASSUME LinearInvariant PROVE ItemsFound
  OBVIOUS
<1>1. Sorted(WithoutFirst(lin.first, lin.nullBegin))
  <2>1. lin.nullBegin \in 0 .. Len(lin.first)
    BY InvariantIs DEF Counted
  <2>. QED BY <2>1, InvariantIs, AscendingFrom, SortedIs
<1>2. lin.mode = "ring" => Sorted(lin.second)
  BY InvariantIs, SortedIs DEF InOrder
<1>3. lin.mode = "double" => Sorted(Reverse(lin.second))
  BY InvariantIs, ReversedIs, SortedIs DEF InOrder
<1>. QED BY <1>1, <1>2, <1>3 DEF ItemsFound

LEMMA FreshFollows == LinearInvariant => EmptyIsFresh
<1>. SUFFICES ASSUME LinearInvariant, ItemsLive = {} PROVE lin = Fresh
  BY DEF EmptyIsFresh
<1>1. Items(lin.first) = {} /\ Items(lin.second) = {} /\ Live(lin) = {}
  BY DEF ItemsLive, Live
<1>2. lin.first = <<>>
  <2>1. ASSUME lin.first # <<>> PROVE FALSE
    <3>1. lin.nullBegin + 1 \in DOMAIN lin.first /\ ~ IsNull(lin.first[lin.nullBegin + 1])
      BY <2>1, InvariantIs, LenProperties DEF NoneToDrop
    <3>. QED BY <1>1, <3>1 DEF Items
  <2>. QED BY <2>1
<1>3. lin.second = <<>>
  <2>1. ASSUME lin.second # <<>> PROVE FALSE
    <3>1. Len(lin.second) \in DOMAIN lin.second /\ ~ IsNull(lin.second[Len(lin.second)])
      BY <2>1, InvariantIs, LastIs DEF NoneToDrop
    <3>. QED BY <1>1, <3>1 DEF Items
  <2>. QED BY <2>1
<1>4. lin.mode = "empty"
  BY <1>3, InvariantIs DEF NoneToDrop
<1>5. lin.nullBegin = 0 /\ lin.nullMiddle = 0 /\ lin.nullSecond = 0
  <2>1. NullsIn(<<>>) = {} /\ Cardinality({}) = 0
    BY FS_EmptySet DEF NullsIn
  <2>2. lin.nullBegin + lin.nullMiddle = 0 /\ lin.nullSecond = 0
    BY <1>2, <1>3, <2>1, InvariantIs DEF Counted
  <2>. QED BY <2>2, InvariantIs
<1>6. lin.sumFree = LinearSize
  <2>1. SumFunction(SizesOf({})) = 0
    BY SumOfNone DEF SizesOf
  <2>. QED BY <1>1, <2>1, InvariantIs DEF SumRight
<1>7. lin = [first |-> lin.first, second |-> lin.second, mode |-> lin.mode, nullBegin |-> lin.nullBegin,
             nullMiddle |-> lin.nullMiddle, nullSecond |-> lin.nullSecond, sumFree |-> lin.sumFree]
  <2>1. lin \in LinearRecord
    BY InvariantIs
  <2>. QED BY <2>1 DEF LinearRecord
<1>. QED BY <1>2, <1>3, <1>4, <1>5, <1>6, <1>7 DEF Fresh

(* One part after another                                                    *)
LEMMA JoinedIs ==
  ASSUME NEW s \in Seq(Item), NEW t \in Seq(Item), Ascending(s), Ascending(t), Inside(s), Inside(t),
         \A i \in DOMAIN s : \A j \in DOMAIN t : Before(s[i], t[j])
  PROVE  /\ s \o t \in Seq(Item) /\ Ascending(s \o t) /\ Inside(s \o t)
         /\ Items(s \o t) = Items(s) \union Items(t)
         /\ \A i \in DOMAIN (s \o t) : \/ \E k \in DOMAIN s : (s \o t)[i] = s[k]
                                       \/ \E k \in DOMAIN t : (s \o t)[i] = t[k]
<1>. DEFINE r == s \o t
            n == Len(s)
            p == Len(t)
<1>1. /\ r \in Seq(Item) /\ DOMAIN r = 1 .. n + p /\ DOMAIN s = 1 .. n /\ DOMAIN t = 1 .. p
      /\ n \in Nat /\ p \in Nat
      /\ \A i \in 1 .. n + p : r[i] = IF i <= n THEN s[i] ELSE t[i - n]
  BY ConcatProperties, LenProperties
<1>. HIDE DEF r, n, p
<1>2. \A i \in 1 .. n : r[i] = s[i] /\ i \in DOMAIN r
  BY <1>1
<1>3. \A j \in 1 .. p : r[n + j] = t[j] /\ n + j \in DOMAIN r
  BY <1>1
<1>4. \A i \in DOMAIN r : i \in 1 .. n \/ \E j \in 1 .. p : i = n + j
  <2>1. ASSUME NEW i \in 1 .. n + p, i \notin 1 .. n PROVE i - n \in 1 .. p /\ i = n + (i - n)
    BY <1>1, <2>1
  <2>. QED BY <1>1, <2>1
<1>5. ASSUME NEW i \in DOMAIN r, NEW j \in DOMAIN r, i < j PROVE Before(r[i], r[j])
  <2>1. CASE j \in 1 .. n
    <3>1. i \in 1 .. n
      BY <1>1, <1>5, <2>1
    <3>. QED BY <1>1, <1>2, <1>5, <2>1, <3>1 DEF Ascending
  <2>2. ASSUME NEW k \in 1 .. p, j = n + k PROVE Before(r[i], r[j])
    <3>1. CASE i \in 1 .. n
      BY <1>1, <1>2, <1>3, <2>2, <3>1
    <3>2. ASSUME NEW h \in 1 .. p, i = n + h PROVE Before(r[i], r[j])
      <4>1. h < k
        BY <1>1, <1>5, <2>2, <3>2
      <4>. QED BY <1>1, <1>3, <2>2, <3>2, <4>1 DEF Ascending
    <3>. QED BY <1>4, <3>1, <3>2
  <2>. QED BY <1>4, <2>1, <2>2
<1>5a. ASSUME NEW i \in DOMAIN r
      PROVE  (\E k \in DOMAIN s : r[i] = s[k]) \/ (\E k \in DOMAIN t : r[i] = t[k])
  <2>1. CASE i \in 1 .. n
    BY <1>1, <1>2, <2>1
  <2>2. ASSUME NEW k \in 1 .. p, i = n + k PROVE \E h \in DOMAIN t : r[i] = t[h]
    BY <1>1, <1>3, <2>2
  <2>. QED BY <1>4, <1>5a, <2>1, <2>2
<1>6. Inside(r)
  BY <1>5a DEF Inside
<1>7. Items(r) = Items(s) \union Items(t)
  <2>1. Items(r) \subseteq Items(s) \union Items(t)
    BY <1>5a DEF Items
  <2>2. Items(s) \subseteq Items(r)
    BY <1>1, <1>2 DEF Items
  <2>3. Items(t) \subseteq Items(r)
    BY <1>1, <1>3 DEF Items
  <2>. QED BY <2>1, <2>2, <2>3
<1>9. Ascending(r)
  BY <1>5 DEF Ascending
<1>. QED BY <1>1, <1>6, <1>7, <1>5a, <1>9 DEF r

(* The sizes of the items that are not null, added up along the vector        *)
LEMMA SumAlong ==
  ASSUME NEW s \in Seq(Item), Ascending(s), NEW used, used = {i \in DOMAIN s : ~ IsNull(s[i])}
  PROVE  SumFunction([i \in used |-> s[i].size]) = SumFunction(SizesOf(Items(s)))
<1>. DEFINE f == [i \in used |-> s[i].size]
            g == SizesOf(Items(s))
            name == [i \in used |-> s[i]]
<1>1. DOMAIN f = used /\ DOMAIN g = Items(s) /\ \A r \in Items(s) : g[r] = r.size
  BY DEF SizesOf
<1>2. Sizing(g)
  <2>1. IsFiniteSet(Items(s)) /\ Items(s) \subseteq Item
    BY ItemsFinite
  <2>2. \A r \in Items(s) : r.size \in Nat
    BY <2>1 DEF Item
  <2>. HIDE DEF g
  <2>. QED BY <1>1, <2>1, <2>2 DEF Sizing
<1>3. Items(s) = {s[i] : i \in used}
  BY DEF Items
<1>4. name \in [used -> Items(s)] /\ (\A i \in used : name[i] = s[i] /\ f[i] = s[i].size)
      /\ \A r \in Items(s) : \E i \in used : name[i] = r
  BY <1>3
<1>5. \A i, j \in used : s[i] = s[j] => i = j
  BY Distinct
<1>. HIDE DEF f, g, name
<1>6. \A i, j \in used : name[i] = name[j] => i = j
  BY <1>4, <1>5
<1>7. \A i \in used : f[i] = g[name[i]]
  BY <1>1, <1>3, <1>4
<1>7a. /\ name \in [DOMAIN f -> DOMAIN g]
       /\ \A x, y \in DOMAIN f : name[x] = name[y] => x = y
       /\ \A y \in DOMAIN g : \E x \in DOMAIN f : name[x] = y
       /\ \A x \in DOMAIN f : f[x] = g[name[x]]
  BY ONLY <1>1, <1>4, <1>6, <1>7, Zenon
<1>8. SumFunction(f) = SumFunction(g)
  BY ONLY <1>2, <1>7a, SumRenamed
<1>. QED BY <1>8 DEF f, g

LEMMA ValidFollows == LinearInvariant => LinearValid
<1>. SUFFICES ASSUME LinearInvariant PROVE ValidLinear(lin)
  BY DEF LinearValid
<1>. DEFINE first == WithoutFirst(lin.first, lin.nullBegin)
            ring == IF lin.mode = "ring" THEN lin.second ELSE <<>>
            upper == IF lin.mode = "double" THEN Reverse(lin.second) ELSE <<>>
            inOrder == ring \o first \o upper
            used == {i \in DOMAIN inOrder : ~ IsNull(inOrder[i])}
<1>1. /\ first \in Seq(Item) /\ Ascending(first) /\ Inside(first)
      /\ Items(first) = Items(lin.first)
      /\ \A i \in DOMAIN first : \E k \in lin.nullBegin + 1 .. Len(lin.first) :
           k \in DOMAIN lin.first /\ first[i] = lin.first[k]
  <2>1. lin.nullBegin \in 0 .. Len(lin.first)
    BY InvariantIs DEF Counted
  <2>2. /\ first \in Seq(Item) /\ Len(first) = Len(lin.first) - lin.nullBegin
        /\ \A i \in 1 .. Len(lin.first) - lin.nullBegin : first[i] = lin.first[i + lin.nullBegin]
    BY <2>1, InvariantIs, FirstDropped
  <2>3. Ascending(first)
    BY <2>1, InvariantIs, AscendingFrom
  <2>4. Items(first) = Items(lin.first)
    BY <2>1, InvariantIs, NullsWithoutFirst DEF Counted
  <2>. HIDE DEF first
  <2>5. ASSUME NEW i \in DOMAIN first
        PROVE  \E k \in lin.nullBegin + 1 .. Len(lin.first) : k \in DOMAIN lin.first /\ first[i] = lin.first[k]
    <3>1. i \in 1 .. Len(lin.first) - lin.nullBegin
      BY <2>2, LenProperties
    <3>2. i + lin.nullBegin \in lin.nullBegin + 1 .. Len(lin.first) /\ i + lin.nullBegin \in DOMAIN lin.first
      BY <3>1, InvariantIs, LenProperties
    <3>. QED BY <2>2, <3>1, <3>2
  <2>6. Inside(first)
    BY <2>5, InvariantIs DEF Inside
  <2>. QED BY <2>2, <2>3, <2>4, <2>5, <2>6
<1>2. /\ <<>> \in Seq(Item) /\ Ascending(<<>>) /\ Inside(<<>>) /\ Items(<<>>) = {} /\ DOMAIN <<>> = {}
  BY DEF Ascending, Inside, Items
<1>3. lin.mode # "empty" <=> lin.second # <<>>
  BY InvariantIs DEF NoneToDrop
<1>. HIDE DEF first
<1>4. /\ ring \in Seq(Item) /\ Ascending(ring) /\ Inside(ring)
      /\ \A i \in DOMAIN ring : \A j \in DOMAIN first : Before(ring[i], first[j])
  <2>1. CASE lin.mode = "ring"
    <3>1. ring = lin.second /\ Ascending(ring)
      BY <2>1, InvariantIs DEF InOrder
    <3>2. \A i \in DOMAIN lin.second : \A j \in lin.nullBegin + 1 .. Len(lin.first) :
            Before(lin.second[i], lin.first[j])
      BY <2>1, InvariantIs DEF InOrder
    <3>. QED BY <1>1, <3>1, <3>2, InvariantIs
  <2>2. CASE lin.mode # "ring"
    BY <1>2, <2>2
  <2>. QED BY <2>1, <2>2
<1>5. /\ upper \in Seq(Item) /\ Ascending(upper) /\ Inside(upper)
      /\ lin.mode = "double" => Items(upper) = Items(lin.second)
      /\ \A i \in DOMAIN first : \A j \in DOMAIN upper : Before(first[i], upper[j])
  <2>1. CASE lin.mode = "double"
    <3>1. upper = Reverse(lin.second) /\ Descending(lin.second)
      BY <2>1, InvariantIs DEF InOrder
    <3>2. /\ upper \in Seq(Item) /\ Len(upper) = Len(lin.second) /\ Ascending(upper)
          /\ \A i \in 1 .. Len(lin.second) : upper[i] = lin.second[Len(lin.second) - i + 1]
      BY <3>1, InvariantIs, ReversedIs
    <3>. HIDE DEF upper
    <3>3. ASSUME NEW i \in DOMAIN upper PROVE \E k \in DOMAIN lin.second : upper[i] = lin.second[k]
      <4>1. i \in 1 .. Len(lin.second) /\ Len(lin.second) - i + 1 \in DOMAIN lin.second
        BY <3>2, InvariantIs, LenProperties
      <4>. QED BY <3>2, <4>1
    <3>4. ASSUME NEW k \in DOMAIN lin.second PROVE \E i \in DOMAIN upper : upper[i] = lin.second[k]
      <4>1. /\ Len(lin.second) - k + 1 \in 1 .. Len(lin.second)
            /\ Len(lin.second) - k + 1 \in DOMAIN upper
            /\ Len(lin.second) - (Len(lin.second) - k + 1) + 1 = k
        <5>1. /\ Len(lin.second) \in Nat /\ DOMAIN lin.second = 1 .. Len(lin.second)
              /\ DOMAIN upper = 1 .. Len(lin.second)
          BY <3>2, InvariantIs, LenProperties
        <5>2. k \in 1 .. Len(lin.second)
          BY <5>1
        <5>. QED BY ONLY <5>1, <5>2
      <4>2. upper[Len(lin.second) - k + 1] = lin.second[Len(lin.second) - (Len(lin.second) - k + 1) + 1]
        BY <3>2, <4>1
      <4>. QED BY <4>1, <4>2
    <3>5. Items(upper) = Items(lin.second)
      BY <3>3, <3>4 DEF Items
    <3>6. \A i \in DOMAIN lin.first : \A j \in DOMAIN lin.second : Before(lin.first[i], lin.second[j])
      BY <2>1, InvariantIs DEF InOrder
    <3>7. \A i \in DOMAIN first : \A j \in DOMAIN upper : Before(first[i], upper[j])
      BY <1>1, <3>3, <3>6
    <3>8. Inside(upper)
      BY <3>3, InvariantIs DEF Inside
    <3>. QED BY <3>2, <3>5, <3>7, <3>8
  <2>2. CASE lin.mode # "double"
    BY <1>2, <2>2
  <2>. QED BY <2>1, <2>2
<1>6. Items(ring) \union Items(lin.first) \union Items(upper) = Live(lin)
  <2>1. CASE lin.mode = "ring"
    BY <1>2, <2>1 DEF Live
  <2>2. CASE lin.mode = "double"
    BY <1>2, <1>5, <2>2 DEF Live
  <2>3. CASE lin.mode = "empty"
    BY <1>2, <1>3, <2>3 DEF Live
  <2>. QED BY <2>1, <2>2, <2>3, InvariantIs
<1>7. \A i \in DOMAIN ring : \A j \in DOMAIN upper : Before(ring[i], upper[j])
  BY <1>2
<1>. HIDE DEF ring, upper
<1>8. /\ ring \o first \in Seq(Item) /\ Ascending(ring \o first) /\ Inside(ring \o first)
      /\ Items(ring \o first) = Items(ring) \union Items(first)
      /\ \A i \in DOMAIN (ring \o first) : \/ \E k \in DOMAIN ring : (ring \o first)[i] = ring[k]
                                           \/ \E k \in DOMAIN first : (ring \o first)[i] = first[k]
  BY <1>1, <1>4, JoinedIs
<1>9. \A i \in DOMAIN (ring \o first) : \A j \in DOMAIN upper : Before((ring \o first)[i], upper[j])
  BY <1>5, <1>7, <1>8
<1>10. /\ inOrder \in Seq(Item) /\ Ascending(inOrder) /\ Inside(inOrder)
       /\ Items(inOrder) = Items(ring) \union Items(first) \union Items(upper)
  BY <1>5, <1>8, <1>9, JoinedIs
<1>. HIDE DEF inOrder
<1>11. Items(inOrder) = Live(lin)
  BY <1>1, <1>6, <1>10
<1>12. \A i \in 1 .. Len(inOrder) - 1 : inOrder[i].at + inOrder[i].size <= inOrder[i + 1].at
  <2>1. ASSUME NEW i \in 1 .. Len(inOrder) - 1 PROVE Before(inOrder[i], inOrder[i + 1])
    <3>1. i \in DOMAIN inOrder /\ i + 1 \in DOMAIN inOrder /\ i < i + 1
      BY <1>10, LenProperties
    <3>. QED BY <1>10, <3>1 DEF Ascending
  <2>. QED BY <2>1 DEF Before
<1>13. EndOf(inOrder) <= LinearSize
  <2>1. EndOf(<<>>) = 0
    BY DEF EndOf
  <2>. QED BY <1>10, <2>1, EndIs, InvariantIs
<1>14. lin.sumFree = LinearSize - SumFunction([i \in used |-> inOrder[i].size])
  BY <1>10, <1>11, SumAlong, InvariantIs DEF SumRight
<1>15. /\ lin.nullBegin + lin.nullMiddle <= Len(lin.first) /\ lin.nullSecond <= Len(lin.second)
  BY InvariantIs, NullsFinite DEF Counted
<1>16. /\ Cardinality({i \in DOMAIN lin.first : IsNull(lin.first[i])}) = lin.nullBegin + lin.nullMiddle
       /\ Cardinality({i \in DOMAIN lin.second : IsNull(lin.second[i])}) = lin.nullSecond
  BY InvariantIs DEF Counted, NullsIn
<1>17. /\ lin.second = <<>> <=> lin.mode = "empty"
       /\ lin.first # <<>> \/ lin.second = <<>> \/ lin.mode # "ring"
       /\ lin.first # <<>> => ~ IsNull(lin.first[lin.nullBegin + 1]) /\ ~ IsNull(Last(lin.first))
       /\ lin.second # <<>> => ~ IsNull(Last(lin.second))
       /\ \A i \in 1 .. lin.nullBegin : IsNull(lin.first[i])
  BY InvariantIs DEF NoneToDrop, Counted
<1>. HIDE DEF used
<1>18. ValidLinear(lin) <=>
         /\ lin.second = <<>> <=> lin.mode = "empty"
         /\ lin.first # <<>> \/ lin.second = <<>> \/ lin.mode # "ring"
         /\ lin.first # <<>> => ~ IsNull(lin.first[lin.nullBegin + 1]) /\ ~ IsNull(Last(lin.first))
         /\ lin.second # <<>> => ~ IsNull(Last(lin.second))
         /\ lin.nullBegin + lin.nullMiddle <= Len(lin.first)
         /\ lin.nullSecond <= Len(lin.second)
         /\ \A i \in 1 .. lin.nullBegin : IsNull(lin.first[i])
         /\ Cardinality({i \in DOMAIN lin.first : IsNull(lin.first[i])}) = lin.nullBegin + lin.nullMiddle
         /\ Cardinality({i \in DOMAIN lin.second : IsNull(lin.second[i])}) = lin.nullSecond
         /\ \A i \in 1 .. Len(inOrder) - 1 :
              inOrder[i].at + inOrder[i].size <= inOrder[i + 1].at
         /\ EndOf(inOrder) <= LinearSize
         /\ lin.sumFree = LinearSize - SumFunction([i \in used |-> inOrder[i].size])
  BY Zenon DEF ValidLinear, inOrder, ring, upper, first, used
<1>. QED BY <1>12, <1>13, <1>14, <1>15, <1>16, <1>17, <1>18, Zenon

(* The block is what the code takes it for, whatever is asked of it.         *)
THEOREM LinearAlwaysSound == LinearSpec => []LinearSound
<1>1. LinearInvariant => LinearSound
  BY TypeFollows, ValidFollows, FoundFollows, FreshFollows DEF LinearSound
<1>. QED BY <1>1, LinearAlwaysInOrder, PTL

-----------------------------------------------------------------------------
(* Heap.tla                                                                  *)

LEMMA ConflictEitherWay ==
  ASSUME NEW t, NEW u
  PROVE  Conflict(t, u) <=> Conflict(u, t)
<1>1. {t, u} = {u, t}
  OBVIOUS
<1>. QED BY <1>1, Zenon DEF Conflict

LEMMA ApartOnPages ==
  ASSUME pageSize \in Nat \ {0}, ~ UpperOnPages, NEW r \in Item, NEW s \in Item, LeftOf(r, s)
  PROVE  /\ HL!Apart(r, s) /\ HL!Apart(s, r) /\ HL!Compatible(r, s) /\ HL!Compatible(s, r)
<1>. DEFINE x == r.at + r.size - 1
<1>1. HL!Apart(r, s) /\ HL!Apart(s, r)
  BY DEF HL!Apart, LeftOf, Before
<1>2. x \in Int /\ s.at \in Int /\ x <= s.at
  BY DEF LeftOf, Before, Item
<1>. HIDE DEF x
<1>3. x \div pageSize \in Int /\ s.at \div pageSize \in Int /\ x \div pageSize <= s.at \div pageSize
  BY <1>2, DivMonotone, Quotient
<1>4. s.at \div pageSize <= x \div pageSize => x \div pageSize = s.at \div pageSize
  BY <1>3
<1>5. Conflict(r.type, s.type) => x \div pageSize # s.at \div pageSize
  BY DEF LeftOf, OnSamePage, x
<1>6. ~ (s.at \div pageSize <= x \div pageSize /\ Conflict(r.type, s.type))
  BY <1>4, <1>5
<1>7. HL!Compatible(r, s)
  BY <1>6 DEF HL!Compatible, HL!SharePage, x
<1>8. HL!Compatible(s, r)
  BY <1>6, ConflictEitherWay DEF HL!Compatible, HL!SharePage, x
<1>. QED BY <1>1, <1>7, <1>8

(* The allocations are ranges of the block apart from each other, and where    *)
(* the upper side is used only where pages do not matter, none shares a page *)
(* with one it conflicts with. (Alloc, Free, *Address)                       *)
THEOREM LinearImplementsHeap ==
  ASSUME ~ UpperOnPages
  PROVE  LinearSpec => LinearIsHeap
<1>1. LinearInit => HL!HeapInit
  BY FreshIs, LivePrimed, LinearAssumption DEF LinearInit, HL!HeapInit
<1>2. LinearInvariant /\ [LinearNext]_linearVars => [HL!HeapNext]_<<ItemsLive, pageSize>>
  <2>. SUFFICES ASSUME LinearInvariant, [LinearNext]_linearVars
                PROVE  HL!HeapNext \/ UNCHANGED <<ItemsLive, pageSize>>
    OBVIOUS
  <2>1. ASSUME NEW a \in Asked, AllocateLinear(a) PROVE HL!Allocate
    <3>1. PICK item : Placed(item, lin) /\ item \notin ItemsLive /\ ItemsLive' = ItemsLive \union {item}
      BY <2>1, AllocateKeeps
    <3>2. item \in HL!Range /\ HL!Within(item)
      <4>1. item \in Item /\ item.at + item.size <= LinearSize /\ LinearSize \in Nat
        BY <3>1, InvariantIs DEF Placed
      <4>. QED BY <4>1 DEF HL!Range, HL!Within, Item
    <3>3. ASSUME NEW s \in ItemsLive
          PROVE  HL!Apart(item, s) /\ HL!Compatible(item, s) /\ HL!Compatible(s, item)
      <4>1. s \in Item /\ item \in Item /\ (LeftOf(s, item) \/ LeftOf(item, s))
        BY <3>1, LiveIs, LivePrimed, InvariantIs DEF Placed
      <4>. QED BY <4>1, ApartOnPages, InvariantIs
    <3>4. item \in ItemsLive' \ ItemsLive /\ pageSize' = pageSize
      BY <2>1, <3>1, AllocateKeeps
    <3>. QED BY <3>1, <3>2, <3>3, <3>4 DEF HL!Allocate
  <2>2. ASSUME NEW r \in ItemsLive, FreeLinear(r.at) PROVE HL!Free
    <3>1. ItemsLive' = ItemsLive \ {r}
      BY <2>2, FreeKeeps
    <3>2. pageSize' = pageSize
      BY <2>2 DEF FreeLinear
    <3>. QED BY <3>1, <3>2 DEF HL!Free
  <2>3. CASE ClearLinear
    <3>1. ItemsLive' = {} /\ pageSize' = pageSize
      BY <2>3, FreshIs, LivePrimed DEF ClearLinear
    <3>. QED BY <3>1 DEF HL!Clear, HL!HeapNext
  <2>4. CASE UNCHANGED linearVars
    BY <2>4, LivePrimed DEF linearVars
  <2>. QED BY <2>1, <2>2, <2>3, <2>4 DEF LinearNext, HL!HeapNext
<1>. QED BY <1>1, <1>2, LinearAlwaysInOrder, PTL DEF LinearSpec, LinearIsHeap, HL!HeapSpec
=============================================================================
