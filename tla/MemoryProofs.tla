----------------------------- MODULE MemoryProofs -----------------------------
(***************************************************************************)
(* Proofs about Memory, for any number of threads, memory types, sizes and *)
(* drivers that refuse: every VkDeviceMemory has one owner, every mapping  *)
(* is held as long as it is used, only the driver can have a buffer or an  *)
(* image refused, and the budget is exact.                                 *)
(***************************************************************************)
EXTENDS Memory, CountingProofs

-----------------------------------------------------------------------------
(* Block vectors                                                             *)

(* A block vector never has two blocks of the same memory.                   *)
IdsDistinct(bs) == \A i, j \in DOMAIN bs : bs[i].id = bs[j].id => i = j

(* IncrementallySortBlocks swaps two neighbours at most.                     *)
LEMMA SortedSwaps ==
  ASSUME NEW S, NEW bs \in Seq(S), NEW v, NEW free
  PROVE  \/ SortedOnce(v, bs, free) = bs
         \/ \E i \in 2 .. Len(bs) :
              SortedOnce(v, bs, free) = [bs EXCEPT ![i - 1] = bs[i], ![i] = bs[i - 1]]
<1>. DEFINE wrong == {i \in 2 .. Len(bs) : free[bs[i - 1]] > free[bs[i]]}
            least == CHOOSE x \in wrong : \A y \in wrong : x <= y
<1>1. wrong \in SUBSET Nat /\ wrong \subseteq 2 .. Len(bs)
  OBVIOUS
<1>2. wrong # {} => least \in wrong
  BY <1>1, LeastOf
<1>3. SortedOnce(v, bs, free) =
        IF v = 0 \/ wrong = {} THEN bs
        ELSE [bs EXCEPT ![least - 1] = bs[least], ![least] = bs[least - 1]]
  BY DEF SortedOnce
<1>. HIDE DEF wrong, least
<1>. QED
  BY <1>1, <1>2, <1>3

LEMMA SortedKeeps ==
  ASSUME NEW S, NEW bs \in Seq(S), NEW v, NEW free
  PROVE  LET to == SortedOnce(v, bs, free)
         IN  /\ to \in Seq(S) /\ DOMAIN to = DOMAIN bs
             /\ Range(to) = Range(bs)
             /\ IdsDistinct(bs) => IdsDistinct(to)
<1>. DEFINE to == SortedOnce(v, bs, free)
<1>1. CASE to = bs
  BY <1>1
<1>2. ASSUME NEW i \in 2 .. Len(bs), to = [bs EXCEPT ![i - 1] = bs[i], ![i] = bs[i - 1]]
      PROVE  /\ to \in Seq(S) /\ DOMAIN to = DOMAIN bs
             /\ Range(to) = Range(bs)
             /\ IdsDistinct(bs) => IdsDistinct(to)
  <2>. HIDE DEF to
  <2>0. i \in 1 .. Len(bs) /\ i - 1 \in 1 .. Len(bs) /\ DOMAIN bs = 1 .. Len(bs)
    OBVIOUS
  <2>1. to \in Seq(S) /\ DOMAIN to = DOMAIN bs
    BY <1>2, <2>0
  <2>2. /\ to[i] = bs[i - 1] /\ to[i - 1] = bs[i]
        /\ \A k \in DOMAIN bs \ {i, i - 1} : to[k] = bs[k]
    BY <1>2, <2>0
  <2>3. Range(to) = Range(bs)
    BY <2>0, <2>1, <2>2 DEF Range
  <2>4. IdsDistinct(bs) => IdsDistinct(to)
    BY <2>0, <2>1, <2>2 DEF IdsDistinct
  <2>. QED BY <2>1, <2>3, <2>4
<1>. QED
  BY <1>1, <1>2, SortedSwaps

LEMMA ReplacedIn ==
  ASSUME NEW S, NEW bs \in Seq(S), IdsDistinct(bs), NEW i \in DOMAIN bs,
         NEW c \in S, c.id = bs[i].id
  PROVE  LET to == [bs EXCEPT ![i] = c]
         IN  /\ to \in Seq(S) /\ IdsDistinct(to) /\ Len(to) = Len(bs)
             /\ Range(to) = (Range(bs) \ {bs[i]}) \union {c}
<1>. DEFINE to == [bs EXCEPT ![i] = c]
<1>1. to \in Seq(S) /\ DOMAIN to = DOMAIN bs /\ Len(to) = Len(bs)
  OBVIOUS
<1>2. to[i] = c /\ \A k \in DOMAIN bs \ {i} : to[k] = bs[k] /\ bs[k] # bs[i]
  BY DEF IdsDistinct
<1>3. IdsDistinct(to)
  BY <1>1, <1>2 DEF IdsDistinct
<1>. HIDE DEF to
<1>4. Range(to) = (Range(bs) \ {bs[i]}) \union {c}
  BY <1>1, <1>2 DEF Range
<1>. QED
  BY <1>1, <1>3, <1>4 DEF to

LEMMA AppendedTo ==
  ASSUME NEW S, NEW bs \in Seq(S), IdsDistinct(bs), NEW c \in S,
         \A b \in Range(bs) : b.id # c.id
  PROVE  LET to == Append(bs, c)
         IN  /\ to \in Seq(S) /\ IdsDistinct(to)
             /\ Range(to) = Range(bs) \union {c}
<1>. DEFINE to == Append(bs, c)
<1>1. /\ to \in Seq(S) /\ DOMAIN to = 1 .. Len(bs) + 1 /\ DOMAIN bs = 1 .. Len(bs)
      /\ Len(bs) \in Nat
  OBVIOUS
<1>2. to[Len(bs) + 1] = c /\ \A k \in DOMAIN bs : to[k] = bs[k]
  OBVIOUS
<1>3. \A k \in DOMAIN bs : bs[k].id # c.id
  BY DEF Range
<1>. HIDE DEF to
<1>4. IdsDistinct(to)
  BY <1>1, <1>2, <1>3 DEF IdsDistinct
<1>5. Range(to) = Range(bs) \union {c}
  BY <1>1, <1>2 DEF Range
<1>. QED
  BY <1>1, <1>4, <1>5 DEF to

LEMMA RemovedFrom ==
  ASSUME NEW S, NEW bs \in Seq(S), IdsDistinct(bs), NEW j \in DOMAIN bs
  PROVE  LET to == RemoveAt(bs, j)
         IN  /\ to \in Seq(S) /\ IdsDistinct(to)
             /\ Range(to) = Range(bs) \ {bs[j]}
<1>. DEFINE to == RemoveAt(bs, j)
            At(k) == IF k < j THEN k ELSE k + 1
<1>1. /\ j \in 1 .. Len(bs) /\ Len(bs) \in Nat /\ DOMAIN bs = 1 .. Len(bs)
  OBVIOUS
<1>2. to = SubSeq(bs, 1, j - 1) \o SubSeq(bs, j + 1, Len(bs))
  BY DEF RemoveAt
<1>3. /\ SubSeq(bs, 1, j - 1) \in Seq(S) /\ Len(SubSeq(bs, 1, j - 1)) = j - 1
      /\ \A k \in 1 .. j - 1 : SubSeq(bs, 1, j - 1)[k] = bs[k]
  BY <1>1
<1>4. /\ SubSeq(bs, j + 1, Len(bs)) \in Seq(S) /\ Len(SubSeq(bs, j + 1, Len(bs))) = Len(bs) - j
      /\ \A k \in 1 .. Len(bs) - j : SubSeq(bs, j + 1, Len(bs))[k] = bs[k + j]
  BY <1>1
<1>5. to \in Seq(S) /\ DOMAIN to = 1 .. Len(bs) - 1
  <2>. DEFINE front == SubSeq(bs, 1, j - 1)
              back == SubSeq(bs, j + 1, Len(bs))
  <2>1. front \in Seq(S) /\ back \in Seq(S) /\ Len(front) = j - 1 /\ Len(back) = Len(bs) - j
    BY <1>3, <1>4
  <2>2. to = front \o back
    BY <1>2
  <2>. HIDE DEF front, back, to
  <2>3. to \in Seq(S) /\ Len(to) = Len(front) + Len(back)
    <3>1. front \o back \in Seq(S) /\ Len(front \o back) = Len(front) + Len(back)
      BY <2>1, ConcatProperties
    <3>. QED BY <3>1, <2>2
  <2>4. Len(to) = Len(bs) - 1
    BY <2>1, <2>3, <1>1
  <2>. QED BY <2>3, <2>4
<1>6. \A k \in DOMAIN to : to[k] = bs[At(k)]
  <2>. DEFINE front == SubSeq(bs, 1, j - 1)
              back == SubSeq(bs, j + 1, Len(bs))
  <2>. TAKE k \in DOMAIN to
  <2>0. k \in 1 .. Len(bs) - 1
    BY <1>5
  <2>1. front \in Seq(S) /\ back \in Seq(S) /\ Len(front) = j - 1 /\ Len(back) = Len(bs) - j
    BY <1>3, <1>4
  <2>2. to = front \o back
    BY <1>2
  <2>3. \A m \in 1 .. j - 1 : front[m] = bs[m]
    BY <1>3
  <2>4. \A m \in 1 .. Len(bs) - j : back[m] = bs[m + j]
    BY <1>4
  <2>. HIDE DEF front, back, to
  <2>5. CASE k < j
    <3>1. k \in 1 .. j - 1
      BY <2>0, <2>5, <1>1
    <3>2. to[k] = front[k]
      BY <3>1, <2>1, <2>2, <1>1
    <3>. QED BY <3>1, <3>2, <2>3, <2>5
  <2>6. CASE ~ k < j
    <3>1. k - (j - 1) \in 1 .. Len(bs) - j
      BY <2>0, <2>6, <1>1
    <3>2. to[k] = back[k - (j - 1)]
      BY <3>1, <2>0, <2>1, <2>2, <2>6, <1>1
    <3>3. k - (j - 1) + j = k + 1
      BY <2>0, <1>1
    <3>. QED BY <3>1, <3>2, <3>3, <2>4, <2>6
  <2>. QED BY <2>5, <2>6
<1>. HIDE DEF to
<1>7. IdsDistinct(to)
  <2>1. \A k, m \in DOMAIN to : At(k) \in DOMAIN bs /\ (At(k) = At(m) => k = m)
    BY <1>1, <1>5
  <2>. HIDE DEF At
  <2>. QED BY <2>1, <1>6 DEF IdsDistinct
<1>8. \A k \in DOMAIN bs \ {j} : bs[k] # bs[j]
  BY DEF IdsDistinct
<1>9. Range(to) = Range(bs) \ {bs[j]}
  <2>1. \A k \in DOMAIN to : At(k) \in DOMAIN bs \ {j}
    BY <1>1, <1>5
  <2>2. \A k \in DOMAIN bs \ {j} : \E m \in DOMAIN to : At(m) = k
    <3>. TAKE k \in DOMAIN bs \ {j}
    <3>1. CASE k < j
      BY <3>1, <1>1, <1>5
    <3>2. CASE k > j
      <4>1. k - 1 \in DOMAIN to /\ At(k - 1) = k
        BY <3>2, <1>1, <1>5
      <4>. QED BY <4>1
    <3>. QED BY <3>1, <3>2, <1>1
  <2>. HIDE DEF At
  <2>. QED BY <2>1, <2>2, <1>6, <1>8 DEF Range
<1>. QED
  BY <1>5, <1>7, <1>9 DEF to

(* FindMemoryTypeIndex finds a type whenever one suits, and only such a one.  *)
LEMMA FindTypeFinds ==
  ASSUME NEW kind, NEW tried
  PROVE  LET suiting == {m \in Types \ tried : Suits(m, kind)}
         IN  /\ FindType(kind, tried) \subseteq suiting
             /\ suiting # {} => FindType(kind, tried) # {}
<1>. DEFINE suiting == {m \in Types \ tried : Suits(m, kind)}
<1>1. FindType(kind, tried) = {m \in suiting : \A n \in suiting :
         Cost(m, kind) < Cost(n, kind) \/ (Cost(m, kind) = Cost(n, kind) /\ m <= n)}
  BY DEF FindType
<1>2. ASSUME suiting # {} PROVE FindType(kind, tried) # {}
  <2>1. suiting \in SUBSET Nat /\ suiting \subseteq Types
    BY MemoryAssumption DEF Types
  <2>2. \A m \in suiting : Cost(m, kind) \in Nat
    <3>. TAKE m \in suiting
    <3>0. MemoryTypes[m] \in [flags : SUBSET MemoryFlags, heap : Heaps]
      <4>. HIDE DEF suiting
      <4>1. m \in 1 .. Len(MemoryTypes)
        BY <2>1 DEF Types
      <4>2. MemoryTypes \in Seq([flags : SUBSET MemoryFlags, heap : Heaps])
        BY MemoryAssumption
      <4>. QED BY <4>1, <4>2, ElementOfSeq
    <3>1. MemoryTypes[m].flags \subseteq MemoryFlags
      BY <3>0
    <3>2. IsFiniteSet(MemoryFlags)
      <4>1. \A x, y : IsFiniteSet({x, y})
        <5>. TAKE x, y
        <5>1. IsFiniteSet({x}) /\ IsFiniteSet({y})
          BY FS_Singleton
        <5>2. IsFiniteSet({x} \union {y})
          BY <5>1, FS_Union
        <5>3. {x, y} = {x} \union {y}
          OBVIOUS
        <5>. QED BY <5>2, <5>3
      <4>2. IsFiniteSet({"device", "visible"} \union {"cached", "coherent"})
        BY <4>1, FS_Union
      <4>3. IsFiniteSet(({"device", "visible"} \union {"cached", "coherent"}) \union {"uncached"})
        BY <4>2, FS_AddElement
      <4>4. MemoryFlags = ({"device", "visible"} \union {"cached", "coherent"}) \union {"uncached"}
        BY DEF MemoryFlags
      <4>. QED BY <4>3, <4>4
    <3>3. IsFiniteSet(MemoryTypes[m].flags)
      BY <3>1, <3>2, FS_Subset
    <3>4. IsFiniteSet(MemoryTypes[m].flags \intersect
             IF kind = "device" THEN {"uncached"} ELSE {"cached", "device", "uncached"})
      BY <3>3, FS_Intersection
    <3>. QED BY <3>4, FS_CardinalityType DEF Cost
  <2>. DEFINE costs == {Cost(m, kind) : m \in suiting}
  <2>3. costs \in SUBSET Nat /\ costs # {}
    BY <1>2, <2>2
  <2>4. PICK c \in costs : \A d \in costs : c <= d
    BY <2>3, LeastOf
  <2>. DEFINE cheapest == {m \in suiting : Cost(m, kind) = c}
  <2>5. cheapest \in SUBSET Nat /\ cheapest # {}
    BY <2>1, <2>4
  <2>6. PICK m \in cheapest : \A n \in cheapest : m <= n
    BY <2>5, LeastOf
  <2>7. \A n \in suiting : c <= Cost(n, kind)
    BY <2>4
  <2>8. c \in Nat
    BY <2>3, <2>4
  <2>9. \A n \in suiting :
          Cost(m, kind) < Cost(n, kind) \/ (Cost(m, kind) = Cost(n, kind) /\ m <= n)
    BY <2>2, <2>6, <2>7, <2>8
  <2>. QED BY <2>6, <2>9, <1>1
<1>. QED
  BY <1>1, <1>2

(* vkAllocateMemory gives a handle no other memory has.                       *)
Fresh(id) == id \in 1 .. MaxMemoryCount /\ \A m \in memory : m.id # id

LEMMA NewIdFresh ==
  ASSUME IsFiniteSet(memory), Cardinality(memory) < MaxMemoryCount
  PROVE  Fresh(NewId)
<1>. DEFINE taken == {m.id : m \in memory}
            free == (1 .. MaxMemoryCount) \ taken
<1>1. IsFiniteSet(taken) /\ Cardinality(taken) <= Cardinality(memory)
  <2>. DEFINE Id == [m \in memory |-> m.id]
  <2>1. Id \in Surjection(memory, taken)
    BY DEF Surjection
  <2>. QED BY <2>1, FS_Surjection
<1>2. /\ IsFiniteSet(1 .. MaxMemoryCount)
      /\ Cardinality(1 .. MaxMemoryCount) = MaxMemoryCount
      /\ Cardinality(memory) \in Nat /\ Cardinality(taken) \in Nat
  BY <1>1, FS_Interval, FS_CardinalityType, MemoryAssumption
<1>3. free # {}
  <2>1. SUFFICES ASSUME 1 .. MaxMemoryCount \subseteq taken PROVE FALSE
    OBVIOUS
  <2>2. Cardinality(1 .. MaxMemoryCount) <= Cardinality(taken)
    BY <2>1, <1>1, FS_Subset
  <2>. QED BY <2>2, <1>1, <1>2, MemoryAssumption
<1>4. free \in SUBSET Nat
  BY MemoryAssumption
<1>5. PICK i \in free : \A j \in free : i <= j
  BY <1>3, <1>4, LeastOf
<1>6. \A j \in 1 .. i - 1 : j \in taken
  BY <1>5, <1>4, MemoryAssumption
<1>7. \E k \in 1 .. MaxMemoryCount :
         /\ \A m \in memory : m.id # k
         /\ \A j \in 1 .. k - 1 : \E m \in memory : m.id = j
  BY <1>5, <1>6
<1>8. /\ NewId \in 1 .. MaxMemoryCount
      /\ \A m \in memory : m.id # NewId
  BY <1>7 DEF NewId
<1>. QED
  BY <1>8 DEF Fresh

(* No block is larger than the preferred size, and none is empty.             *)
LEMMA BlockSizesBounded ==
  ASSUME NEW v, NEW size \in Sizes, NEW left, NEW s \in NewBlockSizes(v, size, left), s # 0
  PROVE  s \in 1 .. Preferred /\ TRUE \in Granted(v, s)
<1>. DEFINE Size(k) == Preferred \div <<1, 2, 4, 8>>[k + 1]
            Small(k) == k = 0 \/ (/\ \A i \in DOMAIN blocks[v] : Size(k) > blocks[v][i].size
                                  /\ Size(k) >= size * 2)
            start == CHOOSE k \in 0 .. 3 : Small(k) /\ \A j \in k + 1 .. 3 : ~ Small(j)
<1>1. \A k \in 0 .. 3 : Size(k) \in Nat /\ Size(k) <= Preferred /\ Size(0) = Preferred
  BY MemoryAssumption
<1>2. s \in BlockSizes(v, size) /\ TRUE \in Granted(v, s)
  BY DEF NewBlockSizes
<1>3. start \in 0 .. 3 /\ Small(start)
  <2>1. Small(0)
    OBVIOUS
  <2>. HIDE DEF Small
  <2>2. \E k \in 0 .. 3 : Small(k) /\ \A j \in k + 1 .. 3 : ~ Small(j)
    <3>1. CASE Small(3)
      BY <3>1
    <3>2. CASE ~ Small(3) /\ Small(2)
      <4>1. \A j \in 2 + 1 .. 3 : j = 3
        OBVIOUS
      <4>. QED BY <4>1, <3>2
    <3>3. CASE ~ Small(3) /\ ~ Small(2) /\ Small(1)
      <4>1. \A j \in 1 + 1 .. 3 : j = 2 \/ j = 3
        OBVIOUS
      <4>. QED BY <4>1, <3>3
    <3>4. CASE ~ Small(3) /\ ~ Small(2) /\ ~ Small(1)
      <4>1. \A j \in 0 + 1 .. 3 : j = 1 \/ j = 2 \/ j = 3
        OBVIOUS
      <4>. QED BY <4>1, <3>4, <2>1
    <3>. QED BY <3>1, <3>2, <3>3, <3>4
  <2>. QED BY <2>2
<1>4. BlockSizes(v, size) = {Size(k) : k \in {j \in start .. 3 : j = start \/ Size(j) >= size}}
  BY DEF BlockSizes
<1>5. PICK k \in start .. 3 : s = Size(k) /\ (k = start \/ Size(k) >= size)
  BY <1>2, <1>4
<1>6. k \in 0 .. 3
  <2>. HIDE DEF start, Size, Small
  <2>. QED BY <1>3, <1>5
<1>7. size \in Nat /\ size > 0
  BY MemoryAssumption
<1>. HIDE DEF Size
<1>8. Size(k) > 0
  <2>1. CASE k = 0
    BY <2>1, <1>1, MemoryAssumption
  <2>2. CASE Size(k) >= size
    BY <2>2, <1>1, <1>6, <1>7
  <2>3. CASE Size(k) >= size * 2
    BY <2>3, <1>1, <1>6, <1>7
  <2>. QED BY <2>1, <2>2, <2>3, <1>3, <1>5
<1>9. Size(k) \in 1 .. Preferred
  BY <1>1, <1>6, <1>8, MemoryAssumption
<1>. QED
  BY <1>2, <1>5, <1>9
-----------------------------------------------------------------------------
(* VmaDeviceMemoryBlock: the mapping follows the count and the hysteresis,    *)
(* and the counters of the hysteresis do not wrap.                           *)

BlockType ==
  [id : 1 .. MaxMemoryCount, size : 1 .. Preferred, used : SUBSET Handles, mapCount : Nat,
   mapped : BOOLEAN, extra : 0 .. 1, major : Nat, minor : Nat]

(* The hysteresis does not wrap below zero.                                  *)
Steady(b) == b \in BlockType /\ b.minor <= b.major

BlockSound(b) == Steady(b) /\ (b.mapped <=> b.mapCount + b.extra # 0)

(* The same block, but for what the hysteresis counts                        *)
SameBlock(b, c) == c.id = b.id /\ c.size = b.size /\ c.used = b.used

Relaxed(b, c) == Steady(c) /\ SameBlock(b, c) /\ c.mapCount = b.mapCount /\ c.mapped = b.mapped

WithCounters(b, extra, major, minor) ==
  [b EXCEPT !.extra = extra, !.major = major, !.minor = minor]

WithMapping(b, count, m) == [b EXCEPT !.mapCount = count, !.mapped = m]

LEMMA CountersChanged ==
  ASSUME NEW b \in BlockType, NEW extra \in 0 .. 1, NEW major \in Nat, NEW minor \in Nat,
         minor <= major
  PROVE  /\ Relaxed(b, WithCounters(b, extra, major, minor))
         /\ WithCounters(b, extra, major, minor).extra = extra
<1>. DEFINE c == WithCounters(b, extra, major, minor)
<1>1. c \in BlockType
  BY DEF BlockType, WithCounters
<1>2. /\ c.id = b.id /\ c.size = b.size /\ c.used = b.used /\ c.mapCount = b.mapCount
      /\ c.mapped = b.mapped /\ c.extra = extra /\ c.major = major /\ c.minor = minor
  BY DEF BlockType, WithCounters
<1>. QED
  BY <1>1, <1>2 DEF Relaxed, Steady, SameBlock

LEMMA MappingChanged ==
  ASSUME NEW b \in BlockType, NEW count \in Nat, NEW m \in BOOLEAN
  PROVE  LET c == WithMapping(b, count, m)
         IN  /\ c \in BlockType /\ SameBlock(b, c) /\ c.mapCount = count /\ c.mapped = m
             /\ c.extra = b.extra /\ c.major = b.major /\ c.minor = b.minor
BY DEF BlockType, SameBlock, WithMapping

LEMMA PostMinorRelaxed ==
  ASSUME NEW b, Steady(b)
  PROVE  Relaxed(b, PostMinor(b)) /\ PostMinor(b).extra = b.extra
<1>1. b \in BlockType /\ b.minor <= b.major
  BY DEF Steady
<1>2. b.minor \in Nat /\ b.major \in Nat /\ b.extra \in 0 .. 1
  BY <1>1 DEF BlockType
<1>3. PICK major \in Nat, minor \in Nat :
         /\ PostMinor(b) = WithCounters(b, b.extra, major, minor)
         /\ minor <= major
  <2>1. CASE b.minor < b.major
    <3>1. PostMinor(b) = WithCounters(b, b.extra, b.major, b.minor + 1)
      BY <1>1, <2>1 DEF PostMinor, BlockType, WithCounters
    <3>2. b.minor + 1 \in Nat /\ b.minor + 1 <= b.major
      BY <1>2, <2>1
    <3>. QED BY <3>1, <3>2, <1>2
  <2>2. CASE ~ b.minor < b.major /\ b.major > 0
    <3>1. PostMinor(b) = WithCounters(b, b.extra, b.major - 1, b.minor - 1)
      BY <1>1, <2>2 DEF PostMinor, BlockType, WithCounters
    <3>2. b.major - 1 \in Nat /\ b.minor - 1 \in Nat /\ b.minor - 1 <= b.major - 1
      BY <2>2, <1>1, <1>2
    <3>. QED BY <3>1, <3>2
  <2>3. CASE ~ b.minor < b.major /\ ~ b.major > 0
    <3>1. PostMinor(b) = WithCounters(b, b.extra, b.major, b.minor)
      BY <1>1, <2>3 DEF PostMinor, BlockType, WithCounters
    <3>. QED BY <3>1, <1>1, <1>2
  <2>. QED BY <2>1, <2>2, <2>3
<1>. QED
  BY <1>1, <1>2, <1>3, CountersChanged

(* One more on the major side                                                *)
LEMMA MajorRelaxed ==
  ASSUME NEW b, Steady(b)
  PROVE  LET c == [b EXCEPT !.major = @ + 1] IN Relaxed(b, c) /\ c.extra = b.extra
<1>1. /\ b \in BlockType /\ b.minor <= b.major
      /\ b.minor \in Nat /\ b.major \in Nat /\ b.extra \in 0 .. 1
  BY DEF Steady, BlockType
<1>2. [b EXCEPT !.major = @ + 1] =
         WithCounters(b, b.extra, b.major + 1, b.minor)
  BY <1>1 DEF BlockType, WithCounters
<1>3. b.major + 1 \in Nat /\ b.minor <= b.major + 1
  BY <1>1
<1>. QED
  BY <1>1, <1>2, <1>3, CountersChanged

LEMMA PostMapRelaxed ==
  ASSUME NEW b, Steady(b)
  PROVE  Relaxed(b, PostMap(b))
<1>1. b \in BlockType
  BY DEF Steady
<1>2. CASE b.extra = 1
  BY <1>2, PostMinorRelaxed DEF PostMap
<1>3. CASE b.extra # 1 /\ b.major + 1 >= MinExtra
  <2>1. PostMap(b) = WithCounters(b, 1, 0, 0)
    BY <1>3 DEF PostMap, WithCounters
  <2>2. 1 \in 0 .. 1 /\ 0 \in Nat /\ 0 <= 0
    OBVIOUS
  <2>. QED BY <1>1, <2>1, <2>2, CountersChanged
<1>4. CASE b.extra # 1 /\ ~ b.major + 1 >= MinExtra
  BY <1>4, MajorRelaxed DEF PostMap
<1>. QED BY <1>2, <1>3, <1>4

LEMMA PostUnmapRelaxed ==
  ASSUME NEW b, Steady(b)
  PROVE  Relaxed(b, PostUnmap(b)) /\ PostUnmap(b).extra = b.extra
BY PostMinorRelaxed, MajorRelaxed DEF PostUnmap

(* CommitAllocationRequest does not touch the mapping.                       *)
LEMMA PlacedSound ==
  ASSUME NEW b, BlockSound(b), NEW h \in Handles
  PROVE  LET c == Placed(b, h)
         IN  /\ BlockSound(c) /\ c.id = b.id /\ c.size = b.size
             /\ c.used = b.used \union {h} /\ c.mapCount = b.mapCount
<1>. DEFINE p == PostAlloc(b)
            c == [p EXCEPT !.used = @ \union {h}]
<1>1. Relaxed(b, p) /\ p.extra = b.extra
  BY PostMinorRelaxed, MajorRelaxed DEF PostAlloc, BlockSound
<1>. HIDE DEF p
<1>2. p \in BlockType
  BY <1>1 DEF Relaxed, Steady
<1>3. c \in BlockType
  BY <1>2 DEF BlockType
<1>4. /\ c.used = p.used \union {h} /\ c.id = p.id /\ c.size = p.size
      /\ c.mapCount = p.mapCount /\ c.mapped = p.mapped
      /\ c.extra = p.extra /\ c.major = p.major /\ c.minor = p.minor
  BY <1>2 DEF BlockType
<1>. HIDE DEF c
<1>5. /\ BlockSound(c) /\ c.id = b.id /\ c.size = b.size
      /\ c.used = b.used \union {h} /\ c.mapCount = b.mapCount
  BY <1>1, <1>3, <1>4 DEF BlockSound, Relaxed, Steady, SameBlock
<1>6. Placed(b, h) = c
  BY DEF Placed, c, p
<1>. QED
  BY <1>5, <1>6

LEMMA MappedSound ==
  ASSUME NEW b, BlockSound(b)
  PROVE  LET c == Mapped(b)
         IN  BlockSound(c) /\ c.id = b.id /\ c.size = b.size /\ c.used = b.used /\ c.mapCount = b.mapCount + 1
<1>. DEFINE p == PostMap(b)
            c == Mapped(b)
<1>1. Relaxed(b, p)
  BY PostMapRelaxed DEF BlockSound
<1>2. c = WithMapping(p, p.mapCount + 1, TRUE)
  BY DEF Mapped, WithMapping
<1>. HIDE DEF p, c
<1>3. /\ p \in BlockType /\ p.mapCount \in Nat /\ p.extra \in 0 .. 1
      /\ p.mapCount + 1 \in Nat /\ TRUE \in BOOLEAN
  BY <1>1 DEF Relaxed, Steady, BlockType
<1>4. /\ c \in BlockType /\ SameBlock(p, c) /\ c.mapCount = p.mapCount + 1 /\ c.mapped = TRUE
      /\ c.extra = p.extra /\ c.major = p.major /\ c.minor = p.minor
  BY <1>2, <1>3, MappingChanged
<1>5. c.mapCount + c.extra # 0
  BY <1>3, <1>4
<1>6. BlockSound(c) /\ c.id = b.id /\ c.size = b.size /\ c.used = b.used /\ c.mapCount = b.mapCount + 1
  BY <1>1, <1>4, <1>5 DEF BlockSound, Relaxed, Steady, SameBlock
<1>. QED
  BY <1>6 DEF c

(* A mapping that is counted is there to be given up.                         *)
LEMMA UnmappedSound ==
  ASSUME NEW b, BlockSound(b), b.mapCount > 0
  PROVE  LET c == Unmapped(b)
         IN  BlockSound(c) /\ c.id = b.id /\ c.size = b.size /\ c.used = b.used /\ c.mapCount = b.mapCount - 1
<1>. DEFINE m == b.mapCount - 1 + b.extra # 0
            p == WithMapping(b, b.mapCount - 1, m)
            c == PostUnmap(p)
<1>1. /\ b \in BlockType /\ b.minor <= b.major /\ b.mapCount \in Nat /\ b.extra \in 0 .. 1
      /\ b.mapped = TRUE
  <2>1. b \in BlockType /\ b.minor <= b.major /\ b.mapCount \in Nat /\ b.extra \in 0 .. 1
    BY DEF BlockSound, Steady, BlockType
  <2>2. b.mapCount + b.extra # 0
    BY <2>1
  <2>3. b.mapped \in BOOLEAN /\ b.mapped
    BY <2>1, <2>2 DEF BlockSound, BlockType
  <2>. QED BY <2>1, <2>3
<1>2. m \in BOOLEAN /\ b.mapCount - 1 \in Nat /\ (m <=> b.mapCount - 1 + b.extra # 0)
  BY <1>1
<1>3. Unmapped(b) = c
  BY <1>1, <1>2 DEF Unmapped, WithMapping
<1>. HIDE DEF m
<1>4. /\ p \in BlockType /\ SameBlock(b, p) /\ p.mapCount = b.mapCount - 1 /\ p.mapped = m
      /\ p.extra = b.extra /\ p.major = b.major /\ p.minor = b.minor
  BY <1>1, <1>2, MappingChanged
<1>. HIDE DEF p
<1>7. Steady(p)
  BY <1>1, <1>4 DEF Steady
<1>8. Relaxed(p, c) /\ c.extra = p.extra
  BY <1>7, PostUnmapRelaxed
<1>. HIDE DEF c
<1>9. BlockSound(c) /\ c.id = b.id /\ c.size = b.size /\ c.used = b.used /\ c.mapCount = b.mapCount - 1
  BY <1>2, <1>4, <1>8 DEF BlockSound, Relaxed, SameBlock
<1>. QED
  BY <1>3, <1>9

(* The hysteresis gives the mapping up only when nothing else counts it.      *)
LEMMA PostFreeSound ==
  ASSUME NEW b, BlockSound(b)
  PROVE  LET c == PostFree(b)
         IN  BlockSound(c) /\ c.id = b.id /\ c.size = b.size /\ c.used = b.used /\ c.mapCount = b.mapCount
<1>1. b \in BlockType /\ Steady(b) /\ b.mapCount \in Nat /\ b.extra \in 0 .. 1
  BY DEF BlockSound, Steady, BlockType
<1>2. CASE b.extra = 0
  BY <1>1, <1>2, PostMinorRelaxed DEF PostFree, BlockSound, Relaxed, SameBlock
<1>3. CASE b.extra # 0 /\ b.major + 1 >= MinExtra /\ b.major > b.minor
  <2>. DEFINE m == b.mapCount # 0
              p == WithCounters(b, 0, 0, 0)
              c == WithMapping(p, b.mapCount, m)
  <2>1. b.mapped = TRUE
    <3>1. b.mapCount + b.extra # 0
      BY <1>1, <1>3
    <3>. QED BY <3>1, <1>1 DEF BlockSound, BlockType
  <2>2. PostFree(b) = c
    BY <1>1, <1>3, <2>1 DEF PostFree, BlockType, WithCounters, WithMapping
  <2>3. m \in BOOLEAN /\ (m <=> b.mapCount + 0 # 0)
    BY <1>1
  <2>. HIDE DEF m
  <2>4. 0 \in 0 .. 1 /\ 0 \in Nat /\ 0 <= 0
    OBVIOUS
  <2>5. Relaxed(b, p) /\ p.extra = 0
    BY <1>1, <2>4, CountersChanged
  <2>. HIDE DEF p
  <2>6. p \in BlockType
    BY <2>5 DEF Relaxed, Steady
  <2>7. /\ c \in BlockType /\ SameBlock(p, c) /\ c.mapCount = b.mapCount /\ c.mapped = m
        /\ c.extra = p.extra /\ c.major = p.major /\ c.minor = p.minor
    BY <1>1, <2>3, <2>6, MappingChanged
  <2>. HIDE DEF c
  <2>8. BlockSound(c) /\ c.id = b.id /\ c.size = b.size /\ c.used = b.used /\ c.mapCount = b.mapCount
    BY <2>3, <2>5, <2>7 DEF BlockSound, Relaxed, Steady, SameBlock
  <2>. QED BY <2>2, <2>8
<1>4. CASE b.extra # 0 /\ ~ (b.major + 1 >= MinExtra /\ b.major > b.minor)
  BY <1>1, <1>4, MajorRelaxed DEF PostFree, BlockSound, Relaxed, SameBlock
<1>. QED BY <1>2, <1>3, <1>4

LEMMA NewBlockSound ==
  ASSUME NEW id \in 1 .. MaxMemoryCount, NEW size \in 1 .. Preferred
  PROVE  LET b == NewBlock(id, size)
         IN  BlockSound(b) /\ b.id = id /\ b.size = size /\ b.used = {} /\ b.mapCount = 0
<1>. DEFINE b == NewBlock(id, size)
<1>1. b \in BlockType
  BY DEF NewBlock, BlockType
<1>2. /\ b.minor = 0 /\ b.major = 0 /\ b.mapped = FALSE /\ b.mapCount = 0 /\ b.extra = 0
      /\ b.id = id /\ b.size = size /\ b.used = {}
  BY DEF NewBlock
<1>3. b.minor <= b.major /\ (b.mapped <=> b.mapCount + b.extra # 0)
  BY <1>2
<1>. QED BY <1>1, <1>2, <1>3 DEF BlockSound, Steady
-----------------------------------------------------------------------------
(* The inductive invariant                                                   *)

SoundBlocks == {b \in BlockType : BlockSound(b)}

(* The vectors a request may be tried in                                     *)
Candidates(kind) == IF kind = "scratch" THEN {0} ELSE {m \in Types : Suits(m, kind)}

RequestType ==
  [pc : {"dedicated", "block"}, handle : Handles, kind : Kinds, size : Sizes,
   driver : Dedications, vector : Vectors, first : BOOLEAN, tried : SUBSET Vectors,
   refused : SUBSET Vectors]

(* A request before its first attempt has no place in the program yet.       *)
Attempted ==
  [pc : {"", "dedicated", "block"}, handle : Handles, kind : Kinds, size : Sizes,
   driver : Dedications, vector : Vectors, first : BOOLEAN, tried : SUBSET Vectors,
   refused : SUBSET Vectors]

RequestTyped(r) == r \in RequestType /\ r.vector \in Candidates(r.kind)

(* What the driver refused so far: memory of its own in each vector tried, and *)
(* in this one, when that is tried before the blocks.                        *)
InTurn(r) ==
  /\ r.tried \subseteq Candidates(r.kind) /\ r.vector \notin r.tried
  /\ r.refused = IF r.pc = "block" /\ r.first THEN r.tried \union {r.vector} ELSE r.tried
  /\ r.driver = "requires" => r.pc = "dedicated"

Requesting(t) == thread[t].pc \in {"dedicated", "block"}
Holding(t) == thread[t].pc \in {"map", "free"}
Deletes(t) == thread[t].pc = "delete"

ThreadTyped(r) ==
  /\ r.pc \in {"idle", "dedicated", "block", "map", "free", "delete"}
  /\ r.pc \in {"dedicated", "block"} => RequestTyped(r)
  /\ r.pc \in {"map", "free"} => r.handle \in Handles
  /\ r.pc = "delete" => r.handle = None /\ r.vector \in Vectors /\ r.block \in SoundBlocks

Typed ==
  /\ blocks \in [Vectors -> Seq(SoundBlocks)]
  /\ DOMAIN allocs = Handles
  /\ \A h \in Handles : allocs[h] # None => allocs[h] \in Allocations
  /\ DOMAIN thread = Threads
  /\ \A t \in Threads : ThreadTyped(thread[t])
  /\ IsFiniteSet(memory)
  /\ died \in {"no", "unsuited", "refused", "unmappable"}

(* What a thread is in the middle of is nobody else's.                       *)
InFlight ==
  /\ \A t \in Threads : Requesting(t) => allocs[thread[t].handle] = None
  /\ \A t \in Threads : Holding(t) => allocs[thread[t].handle] # None
  /\ \A t \in Threads : thread[t].pc = "map" => allocs[thread[t].handle].kind # "device"
  /\ \A t, u \in Threads :
       /\ Requesting(t) \/ Holding(t)
       /\ Requesting(u) \/ Holding(u)
       /\ thread[t].handle = thread[u].handle
       => t = u

(* An allocation is in the block it names, and in no other.                   *)
Located ==
  /\ \A v \in Vectors : IdsDistinct(blocks[v])
  /\ \A v \in Vectors : \A b \in Range(blocks[v]) : \A h \in b.used :
       /\ allocs[h] # None /\ ~ allocs[h].dedicated
       /\ allocs[h].vector = v /\ allocs[h].id = b.id
  /\ \A h \in Live : ~ allocs[h].dedicated =>
       \E b \in Range(blocks[allocs[h].vector]) : b.id = allocs[h].id /\ h \in b.used
  /\ \A h \in Live : allocs[h].vector = 0 <=> allocs[h].kind = "scratch"

(* A request is answered as long as the driver has not refused it everywhere. *)
Trying ==
  /\ died = "no" => \A t \in Threads : Requesting(t) => InTurn(thread[t])
  /\ died = "refused" =>
       \E t \in Threads : Requesting(t) /\ thread[t].refused = Candidates(thread[t].kind)

(* A host buffer is mapped, but while a thread creates or destroys it.        *)
MapsKept ==
  \A h \in Live :
    allocs[h].maps = IF \/ allocs[h].kind = "device"
                        \/ \E t \in Threads : Holding(t) /\ thread[t].handle = h
                     THEN 0 ELSE 1

MappedAmong(S) == {h \in S : allocs[h].maps = 1}
MappedIn(b) == MappedAmong(b.used)

Counted == \A v \in Vectors : \A b \in Range(blocks[v]) : b.mapCount = Cardinality(MappedIn(b))

OneEmpty ==
  \A v \in Vectors : \A b, c \in Range(blocks[v]) : b.used = {} /\ c.used = {} => b.id = c.id

Unused == \A t \in Threads : Deletes(t) => thread[t].block.used = {} /\ thread[t].block.mapCount = 0

(* The memory each vector, thread and dedicated allocation owns               *)
VectorOwns(v, id) == \E b \in Range(blocks[v]) : b.id = id
ThreadOwns(t, id) == Deletes(t) /\ thread[t].block.id = id
HandleOwns(h, id) == h \in DedicatedHandles /\ allocs[h].id = id

OwnedOnce ==
  /\ \A id : \A v, w \in Vectors : VectorOwns(v, id) /\ VectorOwns(w, id) => v = w
  /\ \A id : \A t, u \in Threads : ThreadOwns(t, id) /\ ThreadOwns(u, id) => t = u
  /\ \A id : \A g, h \in Handles : HandleOwns(g, id) /\ HandleOwns(h, id) => g = h
  /\ \A id : \A v \in Vectors, t \in Threads : ~ (VectorOwns(v, id) /\ ThreadOwns(t, id))
  /\ \A id : \A v \in Vectors, h \in Handles : ~ (VectorOwns(v, id) /\ HandleOwns(h, id))
  /\ \A id : \A t \in Threads, h \in Handles : ~ (ThreadOwns(t, id) /\ HandleOwns(h, id))

Owned(id) ==
  \/ \E v \in Vectors : VectorOwns(v, id)
  \/ \E t \in Threads : ThreadOwns(t, id)
  \/ \E h \in Handles : HandleOwns(h, id)

Allotted(id) == \E m \in memory : m.id = id

AllOwned ==
  /\ \A m, n \in memory : m.id = n.id => m = n
  /\ \A m \in memory : m.id \in 1 .. MaxMemoryCount
  /\ \A id : Allotted(id) <=> Owned(id)

MemoryInvariant ==
  /\ Typed /\ InFlight /\ Trying /\ Located
  /\ MapsKept /\ Counted /\ OneEmpty /\ Unused
  /\ OwnedOnce /\ AllOwned

LEMMA InitInvariant == MemoryInit => MemoryInvariant
<1>. SUFFICES ASSUME MemoryInit PROVE MemoryInvariant
  OBVIOUS
<1>1. /\ blocks = [v \in Vectors |-> <<>>] /\ allocs = [h \in Handles |-> None]
      /\ thread = [t \in Threads |-> Idle] /\ memory = {} /\ died = "no"
  BY DEF MemoryInit
<1>2. /\ \A v \in Vectors : blocks[v] = <<>> /\ Range(blocks[v]) = {}
      /\ \A t \in Threads : thread[t].pc = "idle"
      /\ \A h \in Handles : allocs[h] = None
      /\ Live = {}
  BY <1>1 DEF Range, Idle, Live
<1>3. Typed
  <2>1. IsFiniteSet(memory)
    BY <1>1, FS_EmptySet
  <2>. QED BY <1>1, <1>2, <2>1 DEF Typed, ThreadTyped
<1>4. InFlight /\ Trying /\ Unused
  BY <1>1, <1>2 DEF InFlight, Trying, Unused, Requesting, Holding, Deletes
<1>6. Located
  BY <1>2 DEF Located, IdsDistinct
<1>7. MapsKept /\ Counted /\ OneEmpty
  BY <1>2 DEF MapsKept, Counted, OneEmpty
<1>5. OwnedOnce /\ AllOwned
  BY <1>1, <1>2 DEF OwnedOnce, AllOwned, Owned, Allotted, VectorOwns, ThreadOwns, HandleOwns,
     Deletes, DedicatedHandles
<1>. QED
  BY <1>3, <1>4, <1>5, <1>6, <1>7 DEF MemoryInvariant
-----------------------------------------------------------------------------
(* What a step does, apart from how it comes to it                           *)

ThreadTo(t, r) ==
  /\ t \in Threads /\ DOMAIN thread' = Threads
  /\ thread'[t] = r /\ \A u \in Threads \ {t} : thread'[u] = thread[u]

AllocTo(h, a) ==
  /\ h \in Handles /\ DOMAIN allocs' = Handles
  /\ allocs'[h] = a /\ \A g \in Handles \ {h} : allocs'[g] = allocs[g]

(* Nobody is in the middle of what is done with h.                            *)
Untouched(h) == \A t \in Threads : Requesting(t) \/ Holding(t) => thread[t].handle # h

OtherVectors(v) ==
  /\ v \in Vectors
  /\ blocks' \in [Vectors -> Seq(SoundBlocks)]
  /\ \A w \in Vectors \ {v} : blocks'[w] = blocks[w]
  /\ IdsDistinct(blocks'[v])

(* In vector v, block b becomes c.                                           *)
BlockTo(v, b, c) ==
  /\ OtherVectors(v)
  /\ b \in Range(blocks[v]) /\ c \in SoundBlocks /\ c.id = b.id /\ c.size = b.size
  /\ Range(blocks'[v]) = (Range(blocks[v]) \ {b}) \union {c}

BlockAdded(v, c) ==
  /\ OtherVectors(v)
  /\ c \in SoundBlocks
  /\ Range(blocks'[v]) = Range(blocks[v]) \union {c}

(* A block with b's memory, or another, leaves vector v after b becomes c.    *)
BlockRemoved(v, b, c, gone) ==
  /\ OtherVectors(v)
  /\ b \in Range(blocks[v]) /\ c \in SoundBlocks /\ c.id = b.id /\ c.size = b.size
  /\ gone \in (Range(blocks[v]) \ {b}) \union {c}
  /\ Range(blocks'[v]) = ((Range(blocks[v]) \ {b}) \union {c}) \ {gone}

RequestStep(t) ==
  /\ \E r \in RequestType :
       /\ RequestTyped(r) /\ ThreadTo(t, r)
       /\ \/ Requesting(t) /\ r.handle = thread[t].handle
          \/ thread[t].pc = "idle" /\ allocs[r.handle] = None /\ Untouched(r.handle)
       /\ \/ died' = "no" /\ InTurn(r)
          \/ died' = "refused" /\ r.refused = Candidates(r.kind)
  /\ UNCHANGED <<blocks, allocs, memory, counts>>

(* What a request comes to                                                   *)
NewAllocation(r, dedicated, id) ==
  [kind |-> r.kind, size |-> r.size, vector |-> r.vector,
   dedicated |-> dedicated, id |-> id, maps |-> 0]

Answered(t, dedicated, id) ==
  LET r == thread[t]
  IN  /\ AllocTo(r.handle, NewAllocation(r, dedicated, id))
      /\ ThreadTo(t, IF r.kind = "device" THEN Idle ELSE [pc |-> "map", handle |-> r.handle])

MemoryAdded(id, size, v) == Fresh(id) /\ memory' = memory \union {MemoryOf(id, size, v)}

LEMMA ThreadExcept ==
  ASSUME Typed, NEW t \in Threads, NEW r, thread' = [thread EXCEPT ![t] = r]
  PROVE  ThreadTo(t, r)
BY DEF Typed, ThreadTo

LEMMA AllocExcept ==
  ASSUME Typed, NEW h \in Handles, NEW a, allocs' = [allocs EXCEPT ![h] = a]
  PROVE  AllocTo(h, a)
BY DEF Typed, AllocTo

LEMMA AllocatedAnswers ==
  ASSUME Typed, NEW t \in Threads, Requesting(t), NEW dedicated, NEW id, Allocated(t, dedicated, id)
  PROVE  Answered(t, dedicated, id)
<1>1. thread[t].handle \in Handles
  BY DEF Typed, ThreadTyped, Requesting, RequestTyped, RequestType
<1>2. /\ allocs' = [allocs EXCEPT ![thread[t].handle] = NewAllocation(thread[t], dedicated, id)]
      /\ thread' = [thread EXCEPT ![t] = IF thread[t].kind = "device" THEN Idle
                                         ELSE [pc |-> "map", handle |-> thread[t].handle]]
  BY DEF Allocated, NewAllocation
<1>. QED
  BY <1>1, <1>2, ThreadExcept, AllocExcept DEF Answered

LEMMA AttemptTyped ==
  ASSUME NEW r \in Attempted, NEW v \in Candidates(r.kind), v \notin r.tried,
         r.tried \subseteq Candidates(r.kind), r.refused = r.tried
  PROVE  LET q == Attempt(r, v)
         IN  q \in RequestType /\ RequestTyped(q) /\ InTurn(q) /\ q.handle = r.handle
<1>1. PICK first \in BOOLEAN, pc \in {"dedicated", "block"} :
        /\ Attempt(r, v) = [r EXCEPT !.vector = v, !.first = first, !.pc = pc]
        /\ pc = "block" => ~ first /\ r.driver # "requires"
  BY DEF Attempt
<1>. DEFINE q == [r EXCEPT !.vector = v, !.first = first, !.pc = pc]
<1>2. v \in Vectors
  BY MemoryAssumption DEF Candidates, Types, Vectors
<1>3. q \in RequestType
  BY <1>2 DEF RequestType, Attempted
<1>4. /\ q.handle = r.handle /\ q.kind = r.kind /\ q.vector = v /\ q.pc = pc /\ q.first = first
      /\ q.refused = r.refused /\ q.tried = r.tried /\ q.driver = r.driver
  BY DEF Attempted
<1>. HIDE DEF q
<1>5. RequestTyped(q) /\ InTurn(q)
  BY <1>1, <1>3, <1>4 DEF RequestTyped, InTurn
<1>. QED
  BY <1>1, <1>3, <1>4, <1>5 DEF q

LEMMA CreateEffect ==
  ASSUME Typed, NEW t \in Threads, NEW kind \in Kinds, NEW size \in Sizes,
         NEW driver \in Dedications, NEW h \in Handles, Create(t, kind, size, driver, h)
  PROVE  \/ RequestStep(t)
         \/ died' = "unsuited" /\ UNCHANGED <<allocs, blocks, thread, memory, counts>>
<1>1. CASE FirstTypes(kind) = {}
  BY <1>1 DEF Create
<1>2. CASE FirstTypes(kind) # {}
  <2>1. PICK v \in FirstTypes(kind) :
          thread' = [thread EXCEPT ![t] =
           Attempt([pc |-> "", handle |-> h, kind |-> kind, size |-> size, driver |-> driver,
                    vector |-> v, first |-> FALSE, tried |-> {}, refused |-> {}], v)]
    BY <1>2 DEF Create
  <2>. DEFINE r == [pc |-> "", handle |-> h, kind |-> kind, size |-> size, driver |-> driver,
                    vector |-> v, first |-> FALSE, tried |-> {}, refused |-> {}]
              q == Attempt(r, v)
  <2>2. v \in Candidates(kind)
    BY FindTypeFinds DEF FirstTypes, Candidates
  <2>3. /\ q \in RequestType /\ RequestTyped(q) /\ InTurn(q) /\ q.handle = h
    <3>1. v \in Vectors
      BY <2>2, MemoryAssumption DEF Candidates, Types, Vectors
    <3>2. r \in Attempted
      BY <3>1 DEF Attempted
    <3>3. r.handle = h /\ r.kind = kind /\ r.tried = {} /\ r.refused = {}
      OBVIOUS
    <3>. HIDE DEF r
    <3>. QED BY <2>2, <3>2, <3>3, AttemptTyped
  <2>4. ThreadTo(t, q)
    BY <2>1, ThreadExcept
  <2>5. /\ thread[t].pc = "idle" /\ allocs[h] = None /\ Untouched(h)
        /\ UNCHANGED <<blocks, allocs, memory, counts>> /\ died' = "no"
    BY <1>2 DEF Create, Untouched, Requesting, Holding
  <2>. HIDE DEF q
  <2>. QED
    BY <2>3, <2>4, <2>5 DEF RequestStep
<1>. QED
  BY <1>1, <1>2

(* The next memory type that suits, or the refusal when each was tried        *)
LEMMA NextOrRefusedEffect ==
  ASSUME Typed, died = "no", NEW t \in Threads, Requesting(t),
         NEW r \in RequestType, RequestTyped(r), r.handle = thread[t].handle,
         r.tried \subseteq Candidates(r.kind), r.refused = r.tried \union {r.vector},
         NextOrRefused(t, r), UNCHANGED <<blocks, allocs, memory, counts>>
  PROVE  RequestStep(t)
<1>. DEFINE tried == r.tried \union {r.vector}
<1>1. r.vector \in Candidates(r.kind)
  BY DEF RequestTyped
<1>2. CASE NextType(r) = {}
  <2>1. died' = "refused" /\ ThreadTo(t, r)
    BY <1>2, ThreadExcept DEF NextOrRefused
  <2>2. Candidates(r.kind) \subseteq tried
    <3>1. CASE r.kind = "scratch"
      BY <3>1, <1>1 DEF Candidates
    <3>2. CASE r.kind # "scratch"
      <4>1. FindType(r.kind, tried) = {}
        BY <1>2, <3>2 DEF NextType
      <4>2. {m \in Types \ tried : Suits(m, r.kind)} = {}
        BY <4>1, FindTypeFinds
      <4>. QED BY <4>2, <3>2 DEF Candidates
    <3>. QED BY <3>1, <3>2
  <2>3. r.refused = Candidates(r.kind)
    BY <1>1, <2>2
  <2>. QED BY <2>1, <2>3 DEF RequestStep
<1>3. CASE NextType(r) # {}
  <2>. DEFINE s == [r EXCEPT !.tried = tried]
              v == CHOOSE x \in NextType(r) : TRUE
              q == Attempt(s, v)
  <2>1. died' = "no" /\ ThreadTo(t, q)
    <3>1. UNCHANGED died /\ thread' = [thread EXCEPT ![t] = q]
      BY <1>3 DEF NextOrRefused
    <3>. QED BY <3>1, ThreadExcept
  <2>2. v \in NextType(r)
    BY <1>3
  <2>3. v \in Candidates(r.kind) /\ v \notin tried
    <3>1. r.kind # "scratch" /\ v \in FindType(r.kind, tried)
      BY <2>2 DEF NextType
    <3>2. v \in {m \in Types \ tried : Suits(m, r.kind)}
      BY <3>1, FindTypeFinds
    <3>. QED BY <3>1, <3>2 DEF Candidates
  <2>. HIDE DEF v
  <2>4. /\ s.handle = r.handle /\ s.kind = r.kind /\ s.tried = tried /\ s.refused = r.refused
        /\ s \in Attempted
    BY DEF RequestType, Attempted
  <2>. HIDE DEF s
  <2>5. q \in RequestType /\ RequestTyped(q) /\ InTurn(q) /\ q.handle = r.handle
    <3>1. tried \subseteq Candidates(s.kind) /\ v \in Candidates(s.kind) /\ v \notin s.tried
          /\ s.refused = s.tried
      BY <1>1, <2>3, <2>4
    <3>. QED BY <3>1, <2>4, AttemptTyped
  <2>. HIDE DEF q
  <2>. QED BY <2>1, <2>5 DEF RequestStep
<1>. QED BY <1>2, <1>3

LEMMA RequestsTyped ==
  ASSUME Typed, NEW t \in Threads, Requesting(t)
  PROVE  /\ thread[t] \in RequestType /\ RequestTyped(thread[t])
         /\ thread[t].handle \in Handles /\ thread[t].vector \in Vectors /\ thread[t].size \in Sizes
BY DEF Typed, ThreadTyped, Requesting, RequestTyped, RequestType

(* AllocateVulkanMemory *)
LEMMA GrantedFresh ==
  ASSUME Typed, NEW v, NEW size, TRUE \in Granted(v, size)
  PROVE  Fresh(NewId)
<1>1. Cardinality(memory) < MaxMemoryCount
  BY DEF Granted
<1>. QED
  BY <1>1, NewIdFresh DEF Typed

(* AllocateDedicatedMemory makes an allocation with memory of its own.        *)
DedicatedMade(t) ==
  LET v == thread[t].vector  size == thread[t].size
  IN  /\ Requesting(t)
      /\ \E id : Answered(t, TRUE, id) /\ MemoryAdded(id, size, v)
      /\ counts' = WithAllocation(WithMemory(counts, v, size), v, size)
      /\ died' = "no" /\ UNCHANGED blocks

LEMMA DedicatedEffect ==
  ASSUME Typed, Trying, NEW t \in Threads, Dedicated(t)
  PROVE  RequestStep(t) \/ DedicatedMade(t)
<1>. DEFINE r == thread[t]
            refused == [r EXCEPT !.refused = @ \union {r.vector}]
<1>1. died = "no" /\ r.pc = "dedicated" /\ Requesting(t) /\ InTurn(r)
  BY DEF Dedicated, Requesting, Trying
<1>2. r \in RequestType /\ RequestTyped(r)
  BY <1>1, RequestsTyped
<1>3. PICK yes \in Granted(r.vector, r.size) :
           IF yes
           THEN /\ memory' = memory \union {MemoryOf(NewId, r.size, r.vector)}
                /\ counts' = WithAllocation(WithMemory(counts, r.vector, r.size), r.vector, r.size)
                /\ Allocated(t, TRUE, NewId)
                /\ UNCHANGED died
           ELSE /\ IF r.first /\ r.driver # "requires"
                   THEN thread' = [thread EXCEPT ![t] = [refused EXCEPT !.pc = "block"]] /\ UNCHANGED died
                   ELSE NextOrRefused(t, refused)
                /\ UNCHANGED <<allocs, memory, counts>>
  BY DEF Dedicated
<1>4. UNCHANGED blocks /\ yes \in BOOLEAN
  BY <1>3 DEF Dedicated, Granted
<1>5. CASE yes
  <2>1. Fresh(NewId)
    BY <1>3, <1>4, <1>5, GrantedFresh
  <2>2. Answered(t, TRUE, NewId)
    BY <1>1, <1>3, <1>5, AllocatedAnswers
  <2>3. MemoryAdded(NewId, r.size, r.vector)
    BY <1>3, <1>5, <2>1 DEF MemoryAdded
  <2>. QED BY <1>1, <1>3, <1>4, <1>5, <2>2, <2>3 DEF DedicatedMade
<1>6. /\ refused \in RequestType /\ RequestTyped(refused)
      /\ refused.handle = r.handle /\ refused.kind = r.kind /\ refused.tried = r.tried
      /\ refused.vector = r.vector /\ refused.first = r.first /\ refused.driver = r.driver
      /\ refused.refused = r.tried \union {r.vector}
  <2>1. r.refused \union {r.vector} \in SUBSET Vectors /\ r.refused = r.tried
    BY <1>1, <1>2 DEF RequestType, InTurn
  <2>2. refused \in RequestType
    BY <1>2, <2>1 DEF RequestType
  <2>3. /\ refused.handle = r.handle /\ refused.kind = r.kind /\ refused.tried = r.tried
        /\ refused.vector = r.vector /\ refused.first = r.first /\ refused.driver = r.driver
        /\ refused.refused = r.tried \union {r.vector}
    BY <1>2, <2>1 DEF RequestType
  <2>. HIDE DEF refused
  <2>. QED BY <1>2, <2>2, <2>3 DEF RequestTyped
<1>. HIDE DEF refused
<1>7. CASE ~ yes /\ r.first /\ r.driver # "requires"
  <2>. DEFINE q == [refused EXCEPT !.pc = "block"]
  <2>1. ThreadTo(t, q) /\ died' = "no" /\ UNCHANGED <<allocs, memory, counts>>
    BY <1>1, <1>3, <1>7, ThreadExcept
  <2>2. q \in RequestType
    BY <1>6 DEF RequestType
  <2>3. /\ q.handle = refused.handle /\ q.kind = refused.kind /\ q.tried = refused.tried
        /\ q.vector = refused.vector /\ q.first = refused.first /\ q.driver = refused.driver
        /\ q.refused = refused.refused /\ q.pc = "block"
    BY <1>6 DEF RequestType
  <2>. HIDE DEF q
  <2>4. InTurn(q) /\ RequestTyped(q)
    BY <1>1, <1>2, <1>6, <1>7, <2>2, <2>3 DEF InTurn, RequestTyped
  <2>. QED BY <1>1, <1>4, <1>6, <2>1, <2>2, <2>3, <2>4 DEF RequestStep
<1>8. CASE ~ yes /\ ~ (r.first /\ r.driver # "requires")
  <2>1. NextOrRefused(t, refused) /\ UNCHANGED <<blocks, allocs, memory, counts>>
    BY <1>3, <1>4, <1>8
  <2>2. refused.tried \subseteq Candidates(refused.kind)
    BY <1>1, <1>6 DEF InTurn
  <2>. QED BY <1>1, <1>6, <2>1, <2>2, NextOrRefusedEffect
<1>. QED
  BY <1>4, <1>5, <1>7, <1>8

LEMMA AfterBlocksEffect ==
  ASSUME Typed, Trying, died = "no", NEW t \in Threads, thread[t].pc = "block",
         AfterBlocks(t), UNCHANGED <<blocks, allocs, memory, counts>>
  PROVE  RequestStep(t)
<1>. DEFINE r == thread[t]
            q == [r EXCEPT !.pc = "dedicated"]
<1>1. Requesting(t) /\ InTurn(r)
  BY DEF Requesting, Trying
<1>2. r \in RequestType /\ RequestTyped(r)
  BY <1>1, RequestsTyped
<1>3. CASE r.first
  <2>1. NextOrRefused(t, r)
    BY <1>3 DEF AfterBlocks
  <2>2. r.tried \subseteq Candidates(r.kind) /\ r.refused = r.tried \union {r.vector}
    BY <1>1, <1>3 DEF InTurn
  <2>. QED BY <1>1, <1>2, <2>1, <2>2, NextOrRefusedEffect
<1>4. CASE ~ r.first
  <2>1. ThreadTo(t, q) /\ died' = "no"
    <3>1. thread' = [thread EXCEPT ![t] = q] /\ UNCHANGED died
      BY <1>4 DEF AfterBlocks
    <3>. QED BY <3>1, ThreadExcept
  <2>2. q \in RequestType
    BY <1>2 DEF RequestType
  <2>3. /\ q.handle = r.handle /\ q.kind = r.kind /\ q.tried = r.tried
        /\ q.vector = r.vector /\ q.refused = r.refused /\ q.pc = "dedicated"
    BY <1>2 DEF RequestType
  <2>. HIDE DEF q
  <2>4. InTurn(q) /\ RequestTyped(q)
    BY <1>1, <1>2, <1>4, <2>2, <2>3 DEF InTurn, RequestTyped
  <2>. QED BY <1>1, <2>1, <2>2, <2>3, <2>4 DEF RequestStep
<1>. QED BY <1>3, <1>4

LEMMA BlocksTyped ==
  ASSUME Typed, NEW v \in Vectors
  PROVE  /\ blocks[v] \in Seq(SoundBlocks)
         /\ \A i \in DOMAIN blocks[v] : blocks[v][i] \in SoundBlocks /\ blocks[v][i] \in Range(blocks[v])
         /\ \A b \in Range(blocks[v]) : b \in SoundBlocks
<1>1. blocks[v] \in Seq(SoundBlocks)
  BY DEF Typed
<1>2. \A i \in DOMAIN blocks[v] : blocks[v][i] \in SoundBlocks
  BY <1>1
<1>. QED
  BY <1>1, <1>2 DEF Range

(* One vector is written, with one block changed, sorted or not.              *)
LEMMA VectorReplaced ==
  ASSUME Typed, Located, NEW v \in Vectors, NEW i \in DOMAIN blocks[v],
         NEW c \in SoundBlocks, c.id = blocks[v][i].id, c.size = blocks[v][i].size,
         NEW to, blocks' = [blocks EXCEPT ![v] = to],
         \/ to = [blocks[v] EXCEPT ![i] = c]
         \/ \E free : to = SortedOnce(v, [blocks[v] EXCEPT ![i] = c], free)
  PROVE  BlockTo(v, blocks[v][i], c)
<1>. DEFINE bs == [blocks[v] EXCEPT ![i] = c]
<1>1. blocks[v] \in Seq(SoundBlocks) /\ IdsDistinct(blocks[v]) /\ blocks[v][i] \in Range(blocks[v])
  BY BlocksTyped DEF Located
<1>2. /\ bs \in Seq(SoundBlocks) /\ IdsDistinct(bs)
      /\ Range(bs) = (Range(blocks[v]) \ {blocks[v][i]}) \union {c}
  BY <1>1, ReplacedIn
<1>3. to = bs \/ \E free : to = SortedOnce(v, bs, free)
  OBVIOUS
<1>. HIDE DEF bs
<1>4. to \in Seq(SoundBlocks) /\ IdsDistinct(to) /\ Range(to) = Range(bs)
  BY <1>2, <1>3, SortedKeeps
<1>5. /\ blocks' \in [Vectors -> Seq(SoundBlocks)] /\ blocks'[v] = to
      /\ \A w \in Vectors \ {v} : blocks'[w] = blocks[w]
  BY <1>4 DEF Typed
<1>. QED
  BY <1>1, <1>2, <1>4, <1>5 DEF BlockTo, OtherVectors

(* An allocation finds its block.                                             *)
LEMMA WhereIsFinds ==
  ASSUME Typed, Located, NEW h \in Live, ~ allocs[h].dedicated
  PROVE  LET a == allocs[h]
             i == WhereIs(a.vector, a.id)
         IN  /\ a.vector \in Vectors /\ i \in DOMAIN blocks[a.vector]
             /\ blocks[a.vector][i].id = a.id /\ h \in blocks[a.vector][i].used
             /\ BlockOf(a) = blocks[a.vector][i]
<1>. DEFINE a == allocs[h]
            i == WhereIs(a.vector, a.id)
<1>1. a.vector \in Vectors
  BY DEF Live, Typed, Allocations
<1>2. PICK b \in Range(blocks[a.vector]) : b.id = a.id /\ h \in b.used
  BY DEF Located
<1>3. PICK j \in DOMAIN blocks[a.vector] : blocks[a.vector][j] = b
  BY <1>2 DEF Range
<1>4. i \in DOMAIN blocks[a.vector] /\ blocks[a.vector][i].id = a.id
  BY <1>2, <1>3 DEF WhereIs
<1>5. i = j
  BY <1>1, <1>2, <1>3, <1>4 DEF Located, IdsDistinct
<1>. QED
  BY <1>1, <1>2, <1>3, <1>4, <1>5 DEF BlockOf

LEMMA VectorGrown ==
  ASSUME Typed, Located, NEW v \in Vectors,
         NEW c \in SoundBlocks, \A b \in Range(blocks[v]) : b.id # c.id,
         NEW free, blocks' = [blocks EXCEPT ![v] = SortedOnce(v, Append(blocks[v], c), free)]
  PROVE  BlockAdded(v, c)
<1>. DEFINE bs == Append(blocks[v], c)
            to == SortedOnce(v, bs, free)
<1>1. blocks[v] \in Seq(SoundBlocks) /\ IdsDistinct(blocks[v])
  BY BlocksTyped DEF Located
<1>2. /\ bs \in Seq(SoundBlocks) /\ IdsDistinct(bs) /\ Range(bs) = Range(blocks[v]) \union {c}
  BY <1>1, AppendedTo
<1>. HIDE DEF bs
<1>3. to \in Seq(SoundBlocks) /\ IdsDistinct(to) /\ Range(to) = Range(bs)
  BY <1>2, SortedKeeps
<1>4. blocks' = [blocks EXCEPT ![v] = to]
  BY DEF bs
<1>. HIDE DEF to
<1>5. /\ blocks' \in [Vectors -> Seq(SoundBlocks)] /\ blocks'[v] = to
      /\ \A w \in Vectors \ {v} : blocks'[w] = blocks[w]
  BY <1>3, <1>4 DEF Typed
<1>. QED
  BY <1>2, <1>3, <1>5 DEF BlockAdded, OtherVectors

PlacedInBlock(t) ==
  /\ Requesting(t)
  /\ \E b, c : /\ BlockTo(thread[t].vector, b, c)
               /\ c.used = b.used \union {thread[t].handle} /\ c.mapCount = b.mapCount
               /\ Answered(t, FALSE, b.id)
  /\ counts' = WithAllocation(counts, thread[t].vector, thread[t].size)
  /\ died' = "no" /\ UNCHANGED memory

PlacedInNew(t) ==
  LET v == thread[t].vector
  IN  /\ Requesting(t)
      /\ \E id, c :
           /\ BlockAdded(v, c) /\ c.id = id
           /\ c.used = {thread[t].handle} /\ c.mapCount = 0
           /\ Answered(t, FALSE, id) /\ MemoryAdded(id, c.size, v)
           /\ counts' = WithAllocation(WithMemory(counts, v, c.size), v, thread[t].size)
      /\ died' = "no"

LEMMA FromBlocksEffect ==
  ASSUME Typed, Trying, Located, AllOwned, NEW t \in Threads, FromBlocks(t)
  PROVE  RequestStep(t) \/ PlacedInBlock(t) \/ PlacedInNew(t)
<1>. DEFINE r == thread[t]  v == r.vector  h == r.handle
            bs == blocks[v]
            Free(b) == b.size - SumFunction([g \in b.used |-> IF g = r.handle THEN r.size ELSE allocs[g].size])
            SetBlocks(to) == blocks' = [blocks EXCEPT ![v] = SortedOnce(v, to, [b \in Range(to) |-> Free(b)])]
            Able(refusing) == {i \in Asked(v) \ refusing : FreeIn(bs[i]) >= r.size}
<1>1. died = "no" /\ r.pc = "block" /\ Requesting(t)
  BY DEF FromBlocks, Requesting
<1>2. r \in RequestType /\ v \in Vectors /\ h \in Handles /\ r.size \in Sizes
  BY <1>1, RequestsTyped
<1>3. PICK refusing :
        IF r.size <= Preferred /\ Able(refusing) # {}
        THEN \E i \in {k \in Able(refusing) : \A j \in Able(refusing) : AskedFirst(v, r.kind, k, j)} :
               /\ SetBlocks([bs EXCEPT ![i] = Placed(@, h)])
               /\ Allocated(t, FALSE, bs[i].id)
               /\ counts' = WithAllocation(counts, v, r.size)
               /\ UNCHANGED <<memory, died>>
        ELSE \E s \in IF r.size > Preferred THEN {0}
                      ELSE UNION {NewBlockSizes(v, r.size, left) : left \in Estimates} :
               IF s = 0
               THEN AfterBlocks(t) /\ UNCHANGED <<blocks, allocs, memory, counts>>
               ELSE /\ memory' = memory \union {MemoryOf(NewId, s, v)}
                    /\ SetBlocks(Append(bs, Placed(NewBlock(NewId, s), h)))
                    /\ Allocated(t, FALSE, NewId)
                    /\ counts' = WithAllocation(WithMemory(counts, v, s), v, r.size)
                    /\ UNCHANGED died
  BY DEF FromBlocks
<1>. HIDE DEF Free
<1>4. CASE r.size <= Preferred /\ Able(refusing) # {}
  <2>1. PICK i \in Able(refusing) :
               /\ SetBlocks([bs EXCEPT ![i] = Placed(@, h)])
               /\ Allocated(t, FALSE, bs[i].id)
               /\ counts' = WithAllocation(counts, v, r.size)
               /\ UNCHANGED <<memory, died>>
    BY <1>3, <1>4
  <2>2. i \in DOMAIN bs
    BY DEF Asked
  <2>. DEFINE b == bs[i]  c == Placed(b, h)
  <2>3. b \in SoundBlocks /\ BlockSound(b)
    BY <1>2, <2>2, BlocksTyped DEF SoundBlocks
  <2>4. BlockSound(c) /\ c.id = b.id /\ c.size = b.size /\ c.used = b.used \union {h}
        /\ c.mapCount = b.mapCount
    BY <1>2, <2>3, PlacedSound
  <2>5. c \in SoundBlocks
    BY <2>4 DEF SoundBlocks, BlockSound, Steady
  <2>6. [bs EXCEPT ![i] = Placed(@, h)] = [bs EXCEPT ![i] = c]
    OBVIOUS
  <2>. HIDE DEF c
  <2>7. BlockTo(v, b, c)
    BY <1>2, <2>1, <2>2, <2>4, <2>5, <2>6, VectorReplaced
  <2>8. Answered(t, FALSE, b.id)
    BY <1>1, <2>1, AllocatedAnswers
  <2>. QED BY <1>1, <2>1, <2>4, <2>7, <2>8 DEF PlacedInBlock
<1>5. CASE ~ (r.size <= Preferred /\ Able(refusing) # {})
  <2>1. PICK s \in IF r.size > Preferred THEN {0}
                   ELSE UNION {NewBlockSizes(v, r.size, left) : left \in Estimates} :
               IF s = 0
               THEN AfterBlocks(t) /\ UNCHANGED <<blocks, allocs, memory, counts>>
               ELSE /\ memory' = memory \union {MemoryOf(NewId, s, v)}
                    /\ SetBlocks(Append(bs, Placed(NewBlock(NewId, s), h)))
                    /\ Allocated(t, FALSE, NewId)
                    /\ counts' = WithAllocation(WithMemory(counts, v, s), v, r.size)
                    /\ UNCHANGED died
    BY <1>3, <1>5
  <2>2. CASE s = 0
    BY <1>1, <2>1, <2>2, AfterBlocksEffect
  <2>3. CASE s # 0
    <3>1. PICK left : s \in NewBlockSizes(v, r.size, left)
      BY <2>1, <2>3
    <3>2. s \in 1 .. Preferred /\ TRUE \in Granted(v, s)
      BY <1>2, <2>3, <3>1, BlockSizesBounded
    <3>3. Fresh(NewId)
      BY <3>2, GrantedFresh
    <3>. DEFINE b == NewBlock(NewId, s)  c == Placed(b, h)
    <3>4. BlockSound(b) /\ b.id = NewId /\ b.size = s /\ b.used = {} /\ b.mapCount = 0
      BY <3>2, <3>3, NewBlockSound DEF Fresh
    <3>5. BlockSound(c) /\ c.id = NewId /\ c.size = s /\ c.used = {h} /\ c.mapCount = 0
      <4>. HIDE DEF b
      <4>. QED BY <1>2, <3>4, PlacedSound
    <3>6. c \in SoundBlocks
      BY <3>5 DEF SoundBlocks, BlockSound, Steady
    <3>. HIDE DEF c
    <3>7. \A x \in Range(blocks[v]) : x.id # c.id
      BY <1>2, <3>3, <3>5 DEF AllOwned, Owned, VectorOwns, Allotted, Fresh
    <3>8. BlockAdded(v, c)
      <4>1. SetBlocks(Append(bs, c))
        BY <2>1, <2>3 DEF c
      <4>. QED BY <1>2, <3>6, <3>7, <4>1, VectorGrown
    <3>9. Answered(t, FALSE, NewId)
      BY <1>1, <2>1, <2>3, AllocatedAnswers
    <3>10. MemoryAdded(NewId, s, v)
      BY <2>1, <2>3, <3>3 DEF MemoryAdded
    <3>. QED BY <1>1, <2>1, <2>3, <3>5, <3>8, <3>9, <3>10 DEF PlacedInNew
  <2>. QED BY <2>2, <2>3
<1>. QED BY <1>4, <1>5

(* An allocation's own count of its mappings                                 *)
MapsTo(h, n) == AllocTo(h, [allocs[h] EXCEPT !.maps = n])

(* Of a live allocation in a block, the mappings become n and the count of    *)
(* its block changes as much.                                                *)
Remapped(h, n) ==
  /\ MapsTo(h, n)
  /\ IF allocs[h].dedicated THEN UNCHANGED blocks
     ELSE \E b, c : /\ BlockTo(allocs[h].vector, b, c) /\ h \in b.used
                    /\ c.used = b.used /\ c.mapCount = b.mapCount + n - allocs[h].maps

MappedNew(t) ==
  /\ thread[t].pc = "map" /\ ThreadTo(t, Idle)
  /\ Remapped(thread[t].handle, 1)
  /\ died' = "no" /\ UNCHANGED <<memory, counts>>

LEMMA LiveTyped ==
  ASSUME Typed, NEW h \in Live
  PROVE  h \in Handles /\ allocs[h] # None /\ allocs[h] \in Allocations /\ allocs[h].vector \in Vectors
BY DEF Typed, Live, Allocations

LEMMA MapNewEffect ==
  ASSUME Typed, InFlight, Located, MapsKept, NEW t \in Threads, MapNew(t)
  PROVE  \/ MappedNew(t)
         \/ died' = "unmappable" /\ UNCHANGED <<allocs, blocks, thread, memory, counts>>
<1>. DEFINE h == thread[t].handle  a == allocs[h]
            i == WhereIs(a.vector, a.id)
<1>1. died = "no" /\ thread[t].pc = "map" /\ Holding(t) /\ UNCHANGED <<memory, counts>>
  BY DEF MapNew, Holding
<1>2. h \in Live /\ a.kind # "device"
  BY <1>1 DEF Typed, ThreadTyped, InFlight, Live, Holding
<1>3. a \in Allocations /\ a.maps = 0
  BY <1>1, <1>2, LiveTyped DEF MapsKept
<1>4. CASE /\ allocs' = [allocs EXCEPT ![h].maps = @ + 1]
           /\ blocks' = IF a.dedicated THEN blocks
                        ELSE [blocks EXCEPT ![a.vector][WhereIs(a.vector, a.id)] = Mapped(@)]
           /\ thread' = [thread EXCEPT ![t] = Idle]
           /\ UNCHANGED died
  <2>1. ThreadTo(t, Idle)
    BY <1>4, ThreadExcept
  <2>2. allocs' = [allocs EXCEPT ![h] = [a EXCEPT !.maps = 1]]
    <3>1. allocs' = [allocs EXCEPT ![h] = [a EXCEPT !.maps = a.maps + 1]]
      BY <1>2, <1>4, LiveTyped DEF Typed
    <3>2. a.maps + 1 = 1
      BY <1>3
    <3>. QED BY <3>1, <3>2
  <2>3. MapsTo(h, 1)
    BY <1>2, <2>2, AllocExcept, LiveTyped DEF MapsTo
  <2>4. CASE ~ a.dedicated
    <3>1. /\ a.vector \in Vectors /\ i \in DOMAIN blocks[a.vector]
          /\ h \in blocks[a.vector][i].used
      BY <1>2, <2>4, WhereIsFinds
    <3>. DEFINE v == a.vector  b == blocks[v][i]  c == Mapped(b)
    <3>2. BlockSound(b)
      BY <3>1, BlocksTyped DEF SoundBlocks
    <3>3. BlockSound(c) /\ c.id = b.id /\ c.size = b.size /\ c.used = b.used /\ c.mapCount = b.mapCount + 1
      BY <3>2, MappedSound
    <3>4. c \in SoundBlocks
      BY <3>3 DEF SoundBlocks, BlockSound, Steady
    <3>5. blocks' = [blocks EXCEPT ![v] = [blocks[v] EXCEPT ![i] = c]]
      BY <1>4, <2>4, <3>1 DEF Typed
    <3>. HIDE DEF c
    <3>6. BlockTo(v, b, c)
      BY <3>1, <3>3, <3>4, <3>5, VectorReplaced
    <3>7. b.mapCount + 1 = b.mapCount + 1 - a.maps
      BY <1>3, <3>2 DEF BlockSound, Steady, BlockType
    <3>8. Remapped(h, 1)
      BY <2>3, <2>4, <3>1, <3>3, <3>6, <3>7 DEF Remapped
    <3>. QED BY <1>1, <1>4, <2>1, <3>8 DEF MappedNew
  <2>5. CASE a.dedicated
    <3>1. Remapped(h, 1)
      BY <1>4, <2>3, <2>5 DEF Remapped
    <3>. QED BY <1>1, <1>4, <2>1, <3>1 DEF MappedNew
  <2>. QED BY <2>4, <2>5
<1>5. CASE died' = "unmappable" /\ UNCHANGED <<allocs, blocks, thread>>
  BY <1>1, <1>5
<1>. QED
  BY <1>4, <1>5 DEF MapNew

LEMMA MappedInFinite ==
  ASSUME Typed, NEW b \in SoundBlocks
  PROVE  IsFiniteSet(MappedIn(b)) /\ Cardinality(MappedIn(b)) \in Nat
<1>1. MappedIn(b) \in SUBSET Handles
  BY DEF MappedIn, MappedAmong, SoundBlocks, BlockType
<1>. QED
  BY <1>1, MemoryAssumption, FS_Subset, FS_CardinalityType

Unmaps(t, h) ==
  /\ thread[t].pc = "idle" /\ h \in Live /\ Untouched(h)
  /\ ThreadTo(t, [pc |-> "free", handle |-> h])
  /\ IF allocs[h].kind = "device" THEN UNCHANGED <<allocs, blocks>> ELSE Remapped(h, 0)
  /\ died' = "no" /\ UNCHANGED <<memory, counts>>

LEMMA DestroyEffect ==
  ASSUME Typed, Located, MapsKept, Counted, NEW t \in Threads, NEW h \in Handles, Destroy(t, h)
  PROVE  Unmaps(t, h)
<1>. DEFINE a == allocs[h]
            i == WhereIs(a.vector, a.id)
<1>1. /\ died' = "no" /\ thread[t].pc = "idle" /\ h \in Live /\ Untouched(h)
      /\ UNCHANGED <<memory, counts>>
  BY DEF Destroy, Live, Untouched, Requesting, Holding
<1>2. ThreadTo(t, [pc |-> "free", handle |-> h])
  <2>1. thread' = [thread EXCEPT ![t] = [pc |-> "free", handle |-> h]]
    BY DEF Destroy
  <2>. QED BY <2>1, ThreadExcept
<1>3. CASE a.kind = "device"
  BY <1>1, <1>2, <1>3 DEF Destroy, Unmaps
<1>4. CASE a.kind # "device"
  <2>1. a \in Allocations /\ a.maps = 1
    BY <1>1, <1>4, LiveTyped DEF MapsKept, Untouched
  <2>2. /\ allocs' = [allocs EXCEPT ![h].maps = @ - 1]
        /\ blocks' = IF a.dedicated THEN blocks
                     ELSE [blocks EXCEPT ![a.vector][WhereIs(a.vector, a.id)] = Unmapped(@)]
    BY <1>4 DEF Destroy
  <2>3. allocs' = [allocs EXCEPT ![h] = [a EXCEPT !.maps = 0]]
    <3>1. allocs' = [allocs EXCEPT ![h] = [a EXCEPT !.maps = a.maps - 1]]
      BY <2>2 DEF Typed
    <3>2. a.maps - 1 = 0
      BY <2>1
    <3>. QED BY <3>1, <3>2
  <2>4. MapsTo(h, 0)
    BY <2>3, AllocExcept DEF MapsTo
  <2>5. CASE ~ a.dedicated
    <3>1. /\ a.vector \in Vectors /\ i \in DOMAIN blocks[a.vector]
          /\ h \in blocks[a.vector][i].used
      BY <1>1, <2>5, WhereIsFinds
    <3>. DEFINE v == a.vector  b == blocks[v][i]  c == Unmapped(b)
    <3>2. BlockSound(b) /\ b \in SoundBlocks /\ b \in Range(blocks[v])
      BY <3>1, BlocksTyped DEF SoundBlocks
    <3>3. b.mapCount > 0
      <4>1. h \in MappedIn(b)
        BY <2>1, <3>1 DEF MappedIn, MappedAmong
      <4>2. IsFiniteSet(MappedIn(b)) /\ Cardinality(MappedIn(b)) \in Nat
        BY <3>2, MappedInFinite
      <4>3. Cardinality(MappedIn(b)) # 0
        BY <4>1, <4>2, FS_EmptySet
      <4>4. b.mapCount = Cardinality(MappedIn(b))
        BY <3>1, <3>2 DEF Counted
      <4>. QED BY <4>2, <4>3, <4>4
    <3>4. BlockSound(c) /\ c.id = b.id /\ c.size = b.size /\ c.used = b.used /\ c.mapCount = b.mapCount - 1
      BY <3>2, <3>3, UnmappedSound
    <3>5. c \in SoundBlocks
      BY <3>4 DEF SoundBlocks, BlockSound, Steady
    <3>6. blocks' = [blocks EXCEPT ![v] = [blocks[v] EXCEPT ![i] = c]]
      BY <2>2, <2>5, <3>1 DEF Typed
    <3>. HIDE DEF c
    <3>7. BlockTo(v, b, c)
      BY <3>1, <3>4, <3>5, <3>6, VectorReplaced
    <3>8. b.mapCount - 1 = b.mapCount + 0 - a.maps
      BY <2>1, <3>2 DEF BlockSound, Steady, BlockType
    <3>9. Remapped(h, 0)
      BY <2>4, <2>5, <3>1, <3>4, <3>7, <3>8 DEF Remapped
    <3>. QED BY <1>1, <1>2, <1>4, <3>9 DEF Unmaps
  <2>6. CASE a.dedicated
    <3>1. Remapped(h, 0)
      BY <2>2, <2>4, <2>6 DEF Remapped
    <3>. QED BY <1>1, <1>2, <1>4, <3>1 DEF Unmaps
  <2>. QED BY <2>5, <2>6
<1>. QED BY <1>3, <1>4

(* Whoever frees is the only one who has the allocation in hand.              *)
Frees(t) ==
  /\ thread[t].pc = "free" /\ thread[t].handle \in Live
  /\ AllocTo(thread[t].handle, None)
  /\ died' = "no"

MemoryReturned(ids) == memory' = {m \in memory : m.id \notin ids}

DedicatedFreed(t) ==
  LET a == allocs[thread[t].handle]
  IN  /\ Frees(t) /\ a.dedicated
      /\ ThreadTo(t, Idle) /\ UNCHANGED blocks
      /\ MemoryReturned({a.id})
      /\ counts' = WithoutAllocation(WithoutMemory(counts, a.vector, a.size), a.vector, a.size)

FreedInBlock(t) ==
  LET h == thread[t].handle
  IN  /\ Frees(t) /\ ~ allocs[h].dedicated
      /\ ThreadTo(t, Idle) /\ UNCHANGED memory
      /\ counts' = WithoutAllocation(counts, allocs[h].vector, allocs[h].size)
      /\ \E b, c : /\ BlockTo(allocs[h].vector, b, c) /\ h \in b.used
                   /\ c.used = b.used \ {h} /\ c.mapCount = b.mapCount
                   /\ c.used = {} => \A x \in Range(blocks[allocs[h].vector]) : x.used # {}

FreedAndRemoved(t) ==
  LET h == thread[t].handle
  IN  /\ Frees(t) /\ ~ allocs[h].dedicated
      /\ UNCHANGED memory
      /\ counts' = WithoutAllocation(counts, allocs[h].vector, allocs[h].size)
      /\ \E b, c, gone :
           /\ BlockRemoved(allocs[h].vector, b, c, gone) /\ h \in b.used
           /\ c.used = b.used \ {h} /\ c.mapCount = b.mapCount
           /\ gone.used = {} /\ (c.used = {} => gone = c)
           /\ ThreadTo(t, [pc |-> "delete", handle |-> None, vector |-> allocs[h].vector,
                           block |-> gone])

LEMMA FreeDedicatedEffect ==
  ASSUME Typed, InFlight, NEW t \in Threads, FreeDedicated(t)
  PROVE  DedicatedFreed(t)
<1>1. /\ died' = "no" /\ thread[t].pc = "free" /\ allocs[thread[t].handle].dedicated
      /\ UNCHANGED blocks
      /\ memory' = {m \in memory : m.id # allocs[thread[t].handle].id}
      /\ LET a == allocs[thread[t].handle]
         IN  counts' = WithoutAllocation(WithoutMemory(counts, a.vector, a.size), a.vector, a.size)
      /\ allocs' = [allocs EXCEPT ![thread[t].handle] = None]
      /\ thread' = [thread EXCEPT ![t] = Idle]
  BY DEF FreeDedicated
<1>2. thread[t].handle \in Live /\ thread[t].handle \in Handles
  BY <1>1 DEF Typed, ThreadTyped, InFlight, Live, Holding
<1>3. ThreadTo(t, Idle) /\ AllocTo(thread[t].handle, None)
  BY <1>1, <1>2, ThreadExcept, AllocExcept
<1>. QED
  BY <1>1, <1>2, <1>3 DEF DedicatedFreed, Frees, MemoryReturned

LEMMA FreeInBlockEffect ==
  ASSUME Typed, InFlight, Located, NEW t \in Threads, FreeInBlock(t)
  PROVE  FreedInBlock(t) \/ FreedAndRemoved(t)
<1>. DEFINE h == thread[t].handle  a == allocs[h]  v == a.vector
            i == WhereIs(v, a.id)
            b == blocks[v][i]
            less == [b EXCEPT !.used = b.used \ {h}]
            c == PostFree(less)
            bs == [blocks[v] EXCEPT ![i] = c]
            SetBlocks(to) == blocks' = [blocks EXCEPT ![v] = SortedOnce(v, to, [x \in Range(to) |-> FreeIn(x)])]
<1>1. died' = "no" /\ thread[t].pc = "free" /\ ~ a.dedicated /\ UNCHANGED memory
      /\ allocs' = [allocs EXCEPT ![h] = None]
      /\ counts' = WithoutAllocation(counts, v, a.size)
  BY DEF FreeInBlock
<1>2. h \in Live /\ h \in Handles
  BY <1>1 DEF Typed, ThreadTyped, InFlight, Live, Holding
<1>3. v \in Vectors /\ i \in DOMAIN blocks[v] /\ h \in b.used
  BY <1>1, <1>2, WhereIsFinds
<1>4. /\ blocks[v] \in Seq(SoundBlocks) /\ IdsDistinct(blocks[v])
      /\ BlockSound(b) /\ b \in BlockType /\ b \in Range(blocks[v])
  BY <1>3, BlocksTyped DEF SoundBlocks, Located
<1>5. BlockSound(less) /\ less.id = b.id /\ less.size = b.size /\ less.used = b.used \ {h} /\ less.mapCount = b.mapCount
  <2>1. less \in BlockType
    BY <1>4 DEF BlockType
  <2>2. /\ less.id = b.id /\ less.size = b.size /\ less.used = b.used \ {h} /\ less.mapCount = b.mapCount
        /\ less.mapped = b.mapped /\ less.extra = b.extra
        /\ less.major = b.major /\ less.minor = b.minor
    BY <1>4 DEF BlockType
  <2>. HIDE DEF less
  <2>. QED BY <1>4, <2>1, <2>2 DEF BlockSound, Steady
<1>6. /\ BlockSound(c) /\ c \in SoundBlocks /\ c.id = b.id /\ c.size = b.size /\ c.used = b.used \ {h}
      /\ c.mapCount = b.mapCount
  <2>. HIDE DEF less
  <2>1. BlockSound(c) /\ c.id = less.id /\ c.size = less.size /\ c.used = less.used /\ c.mapCount = less.mapCount
    BY <1>5, PostFreeSound
  <2>. HIDE DEF c
  <2>. QED BY <1>5, <2>1 DEF SoundBlocks, BlockSound, Steady
<1>7. PICK exceeded \in BOOLEAN :
        LET gone == NotNeeded(bs, i, HadEmpty(blocks[v]), exceeded)
        IN  \/ /\ gone = {}
               /\ SetBlocks(bs)
               /\ thread' = [thread EXCEPT ![t] = Idle]
            \/ \E j \in gone :
               /\ SetBlocks(RemoveAt(bs, j))
               /\ thread' = [thread EXCEPT ![t] =
                    [pc |-> "delete", handle |-> None, vector |-> v, block |-> bs[j]]]
  BY DEF FreeInBlock
<1>8. /\ bs \in Seq(SoundBlocks) /\ IdsDistinct(bs) /\ Len(bs) = Len(blocks[v])
      /\ Range(bs) = (Range(blocks[v]) \ {b}) \union {c}
      /\ bs[i] = c /\ DOMAIN bs = DOMAIN blocks[v]
  <2>. HIDE DEF c
  <2>1. bs[i] = c /\ DOMAIN bs = DOMAIN blocks[v]
    BY <1>3, <1>4
  <2>. HIDE DEF h, v, i
  <2>. QED BY <1>3, <1>4, <1>6, <2>1, ReplacedIn
<1>. DEFINE gone == NotNeeded(bs, i, HadEmpty(blocks[v]), exceeded)
<1>9. Frees(t)
  BY <1>1, <1>2, AllocExcept DEF Frees
<1>. HIDE DEF c
<1>10. CASE gone = {} /\ SetBlocks(bs) /\ thread' = [thread EXCEPT ![t] = Idle]
  <2>1. BlockTo(v, b, c)
    BY <1>3, <1>6, <1>10, VectorReplaced
  <2>2. c.used = {} => \A x \in Range(blocks[v]) : x.used # {}
    BY <1>8, <1>10 DEF NotNeeded, HadEmpty
  <2>3. ThreadTo(t, Idle)
    BY <1>10, ThreadExcept
  <2>. QED BY <1>1, <1>3, <1>6, <1>9, <2>1, <2>2, <2>3 DEF FreedInBlock
<1>11. ASSUME NEW j \in gone, SetBlocks(RemoveAt(bs, j)),
              thread' = [thread EXCEPT ![t] =
                  [pc |-> "delete", handle |-> None, vector |-> v, block |-> bs[j]]]
       PROVE  FreedAndRemoved(t)
  <2>. HIDE DEF bs
  <2>1. j \in DOMAIN bs /\ bs[j].used = {} /\ (c.used = {} => bs[j] = c)
    <3>1. CASE bs[i].used = {}
      BY <3>1, <1>3, <1>8 DEF NotNeeded
    <3>2. CASE bs[i].used # {}
      <4>1. j = Len(bs) /\ Last(bs).used = {}
        BY <3>2 DEF NotNeeded
      <4>2. j \in DOMAIN bs /\ Last(bs) = bs[j]
        <5>1. i \in DOMAIN bs /\ bs \in Seq(SoundBlocks)
          BY <1>3, <1>8
        <5>2. DOMAIN bs = 1 .. Len(bs) /\ Len(bs) \in Nat
          BY <5>1
        <5>. HIDE DEF i
        <5>. QED BY <4>1, <5>1, <5>2 DEF Last
      <4>. QED BY <3>2, <4>1, <4>2, <1>8
    <3>. QED BY <3>1, <3>2
  <2>. DEFINE rest == RemoveAt(bs, j)
              to == SortedOnce(v, rest, [x \in Range(rest) |-> FreeIn(x)])
  <2>2. rest \in Seq(SoundBlocks) /\ IdsDistinct(rest) /\ Range(rest) = Range(bs) \ {bs[j]}
    BY <1>8, <2>1, RemovedFrom
  <2>3. blocks' = [blocks EXCEPT ![v] = to]
    BY <1>11
  <2>. HIDE DEF rest
  <2>4. to \in Seq(SoundBlocks) /\ IdsDistinct(to) /\ Range(to) = Range(rest)
    BY <2>2, SortedKeeps
  <2>. HIDE DEF to
  <2>5. /\ blocks' \in [Vectors -> Seq(SoundBlocks)] /\ blocks'[v] = to
        /\ \A w \in Vectors \ {v} : blocks'[w] = blocks[w]
    BY <1>3, <2>3, <2>4 DEF Typed
  <2>6. bs[j] \in Range(bs)
    BY <2>1 DEF Range
  <2>7. BlockRemoved(v, b, c, bs[j])
    BY <1>3, <1>4, <1>6, <1>8, <2>2, <2>4, <2>5, <2>6 DEF BlockRemoved, OtherVectors
  <2>8. ThreadTo(t, [pc |-> "delete", handle |-> None, vector |-> v, block |-> bs[j]])
    BY <1>11, ThreadExcept
  <2>. QED BY <1>1, <1>3, <1>6, <1>9, <2>1, <2>7, <2>8 DEF FreedAndRemoved
<1>. QED BY <1>7, <1>10, <1>11

BlockDeleted(t) ==
  /\ Deletes(t) /\ ThreadTo(t, Idle)
  /\ MemoryReturned({thread[t].block.id})
  /\ counts' = WithoutMemory(counts, thread[t].vector, thread[t].block.size)
  /\ died' = "no" /\ UNCHANGED <<blocks, allocs>>

LEMMA DeleteBlockEffect ==
  ASSUME Typed, NEW t \in Threads, DeleteBlock(t)
  PROVE  BlockDeleted(t)
<1>1. /\ Deletes(t) /\ thread' = [thread EXCEPT ![t] = Idle]
      /\ memory' = {m \in memory : m.id # thread[t].block.id}
      /\ counts' = WithoutMemory(counts, thread[t].vector, thread[t].block.size)
      /\ died' = "no" /\ UNCHANGED <<blocks, allocs>>
  BY DEF DeleteBlock, Deletes
<1>2. ThreadTo(t, Idle)
  BY <1>1, ThreadExcept
<1>. QED
  BY <1>1, <1>2 DEF BlockDeleted, MemoryReturned

PoolDestroyed ==
  /\ \A h \in Live : allocs[h].kind # "scratch"
  /\ blocks' = [blocks EXCEPT ![0] = <<>>]
  /\ MemoryReturned({b.id : b \in Range(blocks[0])})
  /\ counts' = WithoutMemories(counts, 0, [i \in DOMAIN blocks[0] |-> blocks[0][i].size])
  /\ died' = "no" /\ UNCHANGED <<allocs, thread>>

LEMMA DestroyPoolEffect ==
  ASSUME NEW t \in Threads, DestroyPool(t)
  PROVE  PoolDestroyed
<1>1. memory' = {m \in memory : m.id \notin {b.id : b \in Range(blocks[0])}}
  BY DEF DestroyPool
<1>. QED
  BY <1>1 DEF DestroyPool, PoolDestroyed, MemoryReturned, Live
-----------------------------------------------------------------------------
(* Parts of the invariant under parts of a step                              *)

AllocsTyped ==
  /\ DOMAIN allocs = Handles
  /\ \A h \in Handles : allocs[h] # None => allocs[h] \in Allocations

ThreadsTyped == DOMAIN thread = Threads /\ \A t \in Threads : ThreadTyped(thread[t])

VectorsOwnSame == \A v \in Vectors : \A id : VectorOwns(v, id)' <=> VectorOwns(v, id)
ThreadsOwnSame == \A t \in Threads : \A id : ThreadOwns(t, id)' <=> ThreadOwns(t, id)
HandlesOwnSame == \A h \in Handles : \A id : HandleOwns(h, id)' <=> HandleOwns(h, id)

LEMMA ReplacedOwnSame ==
  ASSUME NEW v, NEW b, NEW c, BlockTo(v, b, c)
  PROVE  VectorsOwnSame
BY DEF BlockTo, OtherVectors, VectorsOwnSame, VectorOwns

LEMMA IdleOwnSame ==
  ASSUME NEW t, NEW r, ThreadTo(t, r), ~ Deletes(t), r.pc # "delete"
  PROVE  ThreadsOwnSame
BY DEF ThreadTo, Deletes, ThreadsOwnSame, ThreadOwns

LEMMA ThreadsTypedStep ==
  ASSUME Typed, NEW t, NEW r, ThreadTo(t, r), ThreadTyped(r)
  PROVE  ThreadsTyped'
BY DEF Typed, ThreadTo, ThreadsTyped, ThreadTyped

LEMMA AllocsTypedStep ==
  ASSUME Typed, NEW h, NEW a, AllocTo(h, a), a = None \/ a \in Allocations
  PROVE  AllocsTyped'
BY DEF Typed, AllocTo, AllocsTyped

LEMMA TypedWhole ==
  ASSUME AllocsTyped', ThreadsTyped', (blocks \in [Vectors -> Seq(SoundBlocks)])',
         IsFiniteSet(memory'), died' \in {"no", "unsuited", "refused", "unmappable"}
  PROVE  Typed'
BY DEF Typed, AllocsTyped, ThreadsTyped

LEMMA IdleTyped == ThreadTyped(Idle) /\ Idle.pc = "idle"
BY DEF ThreadTyped, Idle

(* A request is answered: the handle is live, and mapped next if it is to be.  *)
LEMMA AnsweredKeeps ==
  ASSUME MemoryInvariant, NEW t \in Threads, Requesting(t), NEW dedicated \in BOOLEAN,
         NEW id \in 1 .. MaxMemoryCount, Answered(t, dedicated, id), died = "no", died' = "no"
  PROVE  /\ AllocsTyped' /\ ThreadsTyped' /\ InFlight' /\ Trying' /\ MapsKept' /\ Unused'
         /\ ThreadsOwnSame
         /\ thread[t].handle \notin Live /\ Live' = Live \union {thread[t].handle}
<1>. DEFINE r == thread[t]  h == r.handle
            a == NewAllocation(r, dedicated, id)
            q == IF r.kind = "device" THEN Idle ELSE [pc |-> "map", handle |-> h]
<1>. USE DEF MemoryInvariant
<1>1. /\ r \in RequestType /\ h \in Handles /\ allocs[h] = None
      /\ AllocTo(h, a) /\ ThreadTo(t, q)
  BY RequestsTyped DEF Answered, InFlight
<1>2. /\ a \in Allocations /\ a # None
      /\ a.kind = r.kind /\ a.maps = 0
  <2>1. a \in Allocations
    BY <1>1 DEF NewAllocation, Allocations, RequestType
  <2>. QED BY <2>1, MemoryAssumption DEF NewAllocation
<1>3. /\ ThreadTyped(q) /\ q.pc \in {"idle", "map"}
      /\ q.pc = "map" => q.handle = h /\ r.kind # "device"
      /\ r.kind # "device" => q.pc = "map"
  BY <1>1, IdleTyped DEF ThreadTyped
<1>. HIDE DEF q, a
<1>4. AllocsTyped' /\ ThreadsTyped'
  BY <1>1, <1>2, <1>3, AllocsTypedStep, ThreadsTypedStep
<1>5. h \notin Live /\ Live' = Live \union {h}
  BY <1>1, <1>2 DEF Live, AllocTo
<1>6. ThreadsOwnSame
  BY <1>1, <1>3, IdleOwnSame DEF Requesting, Deletes
<1>7. \A u \in Threads \ {t} : Requesting(u) \/ Holding(u) => thread[u].handle # h
  BY DEF InFlight
<1>8. InFlight'
  <2>1. \A u \in Threads \ {t} :
          /\ thread'[u] = thread[u]
          /\ Requesting(u) \/ Holding(u) => /\ thread[u].handle \in Handles \ {h}
                                          /\ allocs'[thread[u].handle] = allocs[thread[u].handle]
    BY <1>1, <1>7 DEF ThreadTo, AllocTo, Typed, ThreadTyped, RequestTyped, RequestType, Requesting, Holding
  <2>2. /\ thread'[t] = q /\ allocs'[h] = a /\ ~ Requesting(t)'
        /\ Holding(t)' => q.pc = "map" /\ thread'[t].handle = h
    BY <1>1, <1>3 DEF ThreadTo, AllocTo, Requesting, Holding
  <2>3. \A u \in Threads \ {t} : (Requesting(u)' <=> Requesting(u)) /\ (Holding(u)' <=> Holding(u))
    BY <2>1 DEF Requesting, Holding
  <2>4. \A u \in Threads : Requesting(u)' => allocs'[thread'[u].handle] = None
    BY <2>1, <2>2, <2>3 DEF InFlight
  <2>5. \A u \in Threads : Holding(u)' => allocs'[thread'[u].handle] # None
    BY <1>2, <2>1, <2>2, <2>3 DEF InFlight
  <2>6. \A u \in Threads : thread'[u].pc = "map" => allocs'[thread'[u].handle].kind # "device"
    BY <1>2, <1>3, <2>1, <2>2 DEF InFlight, Holding
  <2>7. \A u, w \in Threads :
          /\ Requesting(u)' \/ Holding(u)'
          /\ Requesting(w)' \/ Holding(w)'
          /\ thread'[u].handle = thread'[w].handle
          => u = w
    BY <1>7, <2>1, <2>2, <2>3 DEF InFlight
  <2>. QED BY <2>4, <2>5, <2>6, <2>7 DEF InFlight
<1>9. Trying'
  BY <1>1, <1>3 DEF Trying, ThreadTo, Requesting
<1>. DEFINE Held(g) == \E u \in Threads : Holding(u) /\ thread[u].handle = g
<1>10. MapsKept'
  <2>1. MapsKept <=> \A g \in Live : allocs[g].maps = IF allocs[g].kind = "device" \/ Held(g) THEN 0 ELSE 1
    BY DEF MapsKept
  <2>2. MapsKept' <=> \A g \in Live' : allocs'[g].maps = IF allocs'[g].kind = "device" \/ Held(g)' THEN 0 ELSE 1
    BY DEF MapsKept
  <2>3. \A g : g # h => (Held(g)' <=> Held(g))
    BY <1>1, <1>3 DEF ThreadTo, Holding, Requesting
  <2>4. \A g : g = h /\ r.kind # "device" => Held(g)'
    BY <1>1, <1>3 DEF ThreadTo, Holding
  <2>. HIDE DEF Held
  <2>5. \A g \in Live : g # h /\ allocs'[g] = allocs[g]
    BY <1>1, <1>5 DEF AllocTo, Live
  <2>6. allocs'[h].maps = 0 /\ allocs'[h].kind = r.kind
    BY <1>1, <1>2 DEF AllocTo
  <2>. QED BY <1>5, <2>1, <2>2, <2>3, <2>4, <2>5, <2>6
<1>11. Unused'
  BY <1>1, <1>3 DEF Unused, ThreadTo, Deletes
<1>. QED
  BY <1>4, <1>5, <1>6, <1>8, <1>9, <1>10, <1>11

-----------------------------------------------------------------------------
(* Who owns which memory, after a step                                       *)

VectorGains(v, new) ==
  \A w \in Vectors : \A id : VectorOwns(w, id)' <=> VectorOwns(w, id) \/ (w = v /\ id = new)
HandleGains(h, new) ==
  \A g \in Handles : \A id : HandleOwns(g, id)' <=> HandleOwns(g, id) \/ (g = h /\ id = new)
ThreadGains(t, new) ==
  \A u \in Threads : \A id : ThreadOwns(u, id)' <=> ThreadOwns(u, id) \/ (u = t /\ id = new)
VectorLoses(v, old) ==
  \A w \in Vectors : \A id : VectorOwns(w, id)' <=> VectorOwns(w, id) /\ ~ (w = v /\ id \in old)
HandleLoses(h, old) ==
  \A g \in Handles : \A id : HandleOwns(g, id)' <=> HandleOwns(g, id) /\ ~ (g = h /\ id \in old)
ThreadLoses(t, old) ==
  \A u \in Threads : \A id : ThreadOwns(u, id)' <=> ThreadOwns(u, id) /\ ~ (u = t /\ id \in old)

LEMMA OwnershipKept ==
  ASSUME OwnedOnce, AllOwned, IsFiniteSet(memory), VectorsOwnSame, ThreadsOwnSame, HandlesOwnSame,
         UNCHANGED memory
  PROVE  OwnedOnce' /\ AllOwned' /\ IsFiniteSet(memory')
<1>1. OwnedOnce'
  BY DEF OwnedOnce, VectorsOwnSame, ThreadsOwnSame, HandlesOwnSame
<1>2. \A id : Owned(id)' <=> Owned(id)
  BY DEF Owned, VectorsOwnSame, ThreadsOwnSame, HandlesOwnSame
<1>3. AllOwned'
  BY <1>2 DEF AllOwned, Allotted
<1>. QED BY <1>1, <1>3

(* New memory has an owner, and nobody had the same.                          *)
LEMMA OwnershipGained ==
  ASSUME OwnedOnce, AllOwned, IsFiniteSet(memory), ThreadsOwnSame, NEW new, NEW size, NEW of,
         MemoryAdded(new, size, of),
         \/ \E v \in Vectors : VectorGains(v, new) /\ HandlesOwnSame
         \/ \E h \in Handles : VectorsOwnSame /\ HandleGains(h, new)
  PROVE  OwnedOnce' /\ AllOwned' /\ IsFiniteSet(memory')
<1>1. PICK m : m.id = new /\ memory' = memory \union {m}
  BY DEF MemoryAdded, MemoryOf
<1>2. ~ Owned(new) /\ new \in 1 .. MaxMemoryCount /\ \A n \in memory : n.id # new
  BY DEF MemoryAdded, Fresh, AllOwned, Allotted
<1>3. IsFiniteSet(memory')
  BY <1>1, FS_AddElement
<1>4. \A id : Owned(id)' <=> Owned(id) \/ id = new
  BY DEF Owned, ThreadsOwnSame, VectorsOwnSame, HandlesOwnSame, VectorGains, HandleGains
<1>5. AllOwned'
  <2>1. \A id : Allotted(id)' <=> Allotted(id) \/ id = new
    BY <1>1 DEF Allotted
  <2>2. \A id : Allotted(id)' <=> Owned(id)'
    BY <1>4, <2>1 DEF AllOwned
  <2>. QED BY <1>1, <1>2, <2>2 DEF AllOwned
<1>6. OwnedOnce'
  <2>1. CASE \E v \in Vectors : VectorGains(v, new) /\ HandlesOwnSame
    BY <1>2, <2>1 DEF OwnedOnce, Owned, ThreadsOwnSame, HandlesOwnSame, VectorGains
  <2>2. CASE \E h \in Handles : VectorsOwnSame /\ HandleGains(h, new)
    BY <1>2, <2>2 DEF OwnedOnce, Owned, ThreadsOwnSame, VectorsOwnSame, HandleGains
  <2>. QED BY <2>1, <2>2
<1>. QED BY <1>3, <1>5, <1>6

(* A block that is not needed goes from its vector to the thread.             *)
LEMMA OwnershipMoved ==
  ASSUME OwnedOnce, AllOwned, IsFiniteSet(memory), NEW v \in Vectors, NEW t \in Threads, NEW old,
         VectorOwns(v, old), VectorLoses(v, {old}), ThreadGains(t, old), HandlesOwnSame,
         UNCHANGED memory
  PROVE  OwnedOnce' /\ AllOwned' /\ IsFiniteSet(memory')
<1>1. OwnedOnce'
  BY DEF OwnedOnce, VectorLoses, ThreadGains, HandlesOwnSame
<1>2. \A id : Owned(id)' <=> Owned(id)
  BY DEF Owned, VectorLoses, ThreadGains, HandlesOwnSame
<1>3. AllOwned'
  BY <1>2 DEF AllOwned, Allotted
<1>. QED BY <1>1, <1>3

(* Memory is given back by its owner, who was the only one.                   *)
LEMMA OwnershipLost ==
  ASSUME OwnedOnce, AllOwned, IsFiniteSet(memory), NEW old, MemoryReturned(old),
         \/ \E v \in Vectors : /\ VectorLoses(v, old) /\ ThreadsOwnSame /\ HandlesOwnSame
                               /\ \A id \in old : VectorOwns(v, id)
         \/ \E t \in Threads : /\ VectorsOwnSame /\ ThreadLoses(t, old) /\ HandlesOwnSame
                               /\ \A id \in old : ThreadOwns(t, id)
         \/ \E h \in Handles : /\ VectorsOwnSame /\ ThreadsOwnSame /\ HandleLoses(h, old)
                               /\ \A id \in old : HandleOwns(h, id)
  PROVE  OwnedOnce' /\ AllOwned' /\ IsFiniteSet(memory')
<1>1. memory' \subseteq memory /\ \A m \in memory : m \in memory' <=> m.id \notin old
  BY DEF MemoryReturned
<1>2. IsFiniteSet(memory')
  BY <1>1, FS_Subset
<1>3. /\ \A v \in Vectors : \A id : VectorOwns(v, id)' => VectorOwns(v, id)
      /\ \A t \in Threads : \A id : ThreadOwns(t, id)' => ThreadOwns(t, id)
      /\ \A h \in Handles : \A id : HandleOwns(h, id)' => HandleOwns(h, id)
  BY DEF VectorsOwnSame, ThreadsOwnSame, HandlesOwnSame, VectorLoses, ThreadLoses, HandleLoses
<1>4. OwnedOnce'
  BY <1>3 DEF OwnedOnce
<1>5. \A id : Owned(id)' <=> Owned(id) /\ id \notin old
  <2>1. CASE \E v \in Vectors : /\ VectorLoses(v, old) /\ ThreadsOwnSame /\ HandlesOwnSame
                                /\ \A id \in old : VectorOwns(v, id)
    BY <2>1 DEF OwnedOnce, Owned, VectorLoses, ThreadsOwnSame, HandlesOwnSame
  <2>2. CASE \E t \in Threads : /\ VectorsOwnSame /\ ThreadLoses(t, old) /\ HandlesOwnSame
                                /\ \A id \in old : ThreadOwns(t, id)
    BY <2>2 DEF OwnedOnce, Owned, VectorsOwnSame, ThreadLoses, HandlesOwnSame
  <2>3. CASE \E h \in Handles : /\ VectorsOwnSame /\ ThreadsOwnSame /\ HandleLoses(h, old)
                                /\ \A id \in old : HandleOwns(h, id)
    BY <2>3 DEF OwnedOnce, Owned, VectorsOwnSame, ThreadsOwnSame, HandleLoses
  <2>. QED BY <2>1, <2>2, <2>3
<1>6. \A id : Allotted(id)' <=> Allotted(id) /\ id \notin old
  BY <1>1 DEF Allotted
<1>7. AllOwned'
  <2>1. \A id : Allotted(id)' <=> Owned(id)'
    BY <1>5, <1>6 DEF AllOwned
  <2>. QED BY <1>1, <2>1 DEF AllOwned
<1>. QED BY <1>2, <1>4, <1>7

-----------------------------------------------------------------------------
(* Each step keeps the invariant.                                            *)

LEMMA OnlyLiveUsed ==
  ASSUME Located, Typed, NEW v \in Vectors, NEW b \in Range(blocks[v]), NEW g \in b.used
  PROVE  g \in Live /\ ~ allocs[g].dedicated /\ allocs[g].vector = v /\ allocs[g].id = b.id
<1>1. g \in Handles
  BY BlocksTyped DEF SoundBlocks, BlockType
<1>. QED
  BY <1>1 DEF Located, Live

(* As long as allocations keep their mappings, blocks keep their counts.      *)
LEMMA MappedInSame ==
  ASSUME NEW b, \A g \in b.used : allocs'[g] = allocs[g]
  PROVE  MappedIn(b)' = MappedIn(b)
BY DEF MappedIn, MappedAmong

LEMMA RequestKeeps ==
  ASSUME MemoryInvariant, died = "no", NEW t \in Threads, RequestStep(t)
  PROVE  MemoryInvariant'
<1>. USE DEF MemoryInvariant
<1>1. PICK r \in RequestType :
       /\ RequestTyped(r) /\ ThreadTo(t, r)
       /\ \/ Requesting(t) /\ r.handle = thread[t].handle
          \/ thread[t].pc = "idle" /\ allocs[r.handle] = None /\ Untouched(r.handle)
       /\ \/ died' = "no" /\ InTurn(r)
          \/ died' = "refused" /\ r.refused = Candidates(r.kind)
  BY DEF RequestStep
<1>2. UNCHANGED <<blocks, allocs, memory>> /\ Live' = Live
  BY DEF RequestStep, Live
<1>3. r.pc \in {"dedicated", "block"} /\ r.handle \in Handles /\ ThreadTyped(r)
  BY <1>1 DEF RequestType, ThreadTyped
<1>4. ~ Holding(t) /\ ~ Deletes(t) /\ allocs[r.handle] = None
  BY <1>1 DEF Requesting, Holding, Deletes, InFlight
<1>5. Typed'
  <2>1. ThreadsTyped' /\ AllocsTyped'
    BY <1>1, <1>2, <1>3, ThreadsTypedStep DEF Typed, AllocsTyped
  <2>. QED BY <1>1, <1>2, <2>1, TypedWhole DEF Typed
<1>6. /\ Requesting(t)' /\ ~ Holding(t)' /\ ~ Deletes(t)' /\ thread'[t] = r
      /\ \A u \in Threads \ {t} :
           /\ thread'[u] = thread[u]
           /\ (Requesting(u)' <=> Requesting(u)) /\ (Holding(u)' <=> Holding(u))
           /\ (Deletes(u)' <=> Deletes(u))
  BY <1>1, <1>3 DEF ThreadTo, Requesting, Holding, Deletes
<1>7. \A u \in Threads \ {t} : Requesting(u) \/ Holding(u) => thread[u].handle # r.handle
  BY <1>1 DEF InFlight, Untouched
<1>8. InFlight'
  <2>1. \A u \in Threads : Requesting(u)' => allocs'[thread'[u].handle] = None
    BY <1>2, <1>4, <1>6 DEF InFlight
  <2>2. \A u \in Threads : Holding(u)' => allocs'[thread'[u].handle] # None
    BY <1>2, <1>6 DEF InFlight
  <2>3. \A u \in Threads : thread'[u].pc = "map" => allocs'[thread'[u].handle].kind # "device"
    BY <1>2, <1>3, <1>6 DEF InFlight
  <2>4. \A u, w \in Threads :
          /\ Requesting(u)' \/ Holding(u)'
          /\ Requesting(w)' \/ Holding(w)'
          /\ thread'[u].handle = thread'[w].handle
          => u = w
    BY <1>6, <1>7 DEF InFlight
  <2>. QED BY <2>1, <2>2, <2>3, <2>4 DEF InFlight
<1>9. Trying'
  BY <1>1, <1>6 DEF Trying
<1>10. Located' /\ Counted' /\ OneEmpty'
  BY <1>2 DEF Located, Counted, OneEmpty, MappedIn, MappedAmong
<1>11. MapsKept'
  <2>1. \A g : (\E u \in Threads : Holding(u)' /\ thread'[u].handle = g)
                 <=> (\E u \in Threads : Holding(u) /\ thread[u].handle = g)
    BY <1>4, <1>6
  <2>. QED BY <1>2, <2>1 DEF MapsKept
<1>12. Unused'
  BY <1>6 DEF Unused
<1>13. VectorsOwnSame /\ ThreadsOwnSame /\ HandlesOwnSame
  BY <1>2, <1>4, <1>6 DEF VectorsOwnSame, ThreadsOwnSame, HandlesOwnSame, VectorOwns, ThreadOwns,
     HandleOwns, DedicatedHandles
<1>14. OwnedOnce' /\ AllOwned'
  BY <1>2, <1>13, OwnershipKept DEF Typed
<1>. QED
  BY <1>5, <1>8, <1>9, <1>10, <1>11, <1>12, <1>14

LEMMA DedicatedKeeps ==
  ASSUME MemoryInvariant, died = "no", NEW t \in Threads, DedicatedMade(t)
  PROVE  MemoryInvariant'
<1>. DEFINE r == thread[t]  h == r.handle
<1>. USE DEF MemoryInvariant
<1>1. PICK id : Answered(t, TRUE, id) /\ MemoryAdded(id, r.size, r.vector)
  BY DEF DedicatedMade
<1>2. Requesting(t) /\ UNCHANGED blocks /\ died' = "no" /\ id \in 1 .. MaxMemoryCount
  BY <1>1 DEF DedicatedMade, MemoryAdded, Fresh
<1>3. /\ AllocsTyped' /\ ThreadsTyped' /\ InFlight' /\ Trying' /\ MapsKept' /\ Unused'
      /\ ThreadsOwnSame
      /\ h \notin Live /\ Live' = Live \union {h}
  BY <1>1, <1>2, AnsweredKeeps
<1>4. /\ r \in RequestType /\ RequestTyped(r) /\ h \in Handles /\ AllocTo(h, NewAllocation(r, TRUE, id))
  BY <1>1, <1>2, RequestsTyped DEF Answered
<1>5. /\ allocs'[h].dedicated /\ allocs'[h].id = id
      /\ allocs'[h].vector = r.vector /\ allocs'[h].kind = r.kind
      /\ \A g \in Handles \ {h} : allocs'[g] = allocs[g]
  BY <1>4 DEF AllocTo, NewAllocation
<1>6. \A v \in Vectors : \A b \in Range(blocks[v]) : \A g \in b.used : g \in Live /\ allocs'[g] = allocs[g]
  BY <1>3, <1>5, OnlyLiveUsed DEF Live
<1>7. Located'
  <2>1. \A v \in Vectors : IdsDistinct(blocks'[v])
    BY <1>2 DEF Located
  <2>2. \A v \in Vectors : \A b \in Range(blocks'[v]) : \A g \in b.used :
           /\ allocs'[g] # None /\ ~ allocs'[g].dedicated
           /\ allocs'[g].vector = v /\ allocs'[g].id = b.id
    BY <1>2, <1>6 DEF Located
  <2>3. \A g \in Live' : ~ allocs'[g].dedicated =>
           \E b \in Range(blocks'[allocs'[g].vector]) : b.id = allocs'[g].id /\ g \in b.used
    BY <1>2, <1>3, <1>5 DEF Located, Live
  <2>4. \A g \in Live' : allocs'[g].vector = 0 <=> allocs'[g].kind = "scratch"
    <3>1. r.vector = 0 <=> r.kind = "scratch"
      BY <1>4 DEF RequestTyped, Candidates, Types
    <3>. QED BY <1>3, <1>5, <3>1 DEF Located, Live
  <2>. QED BY <2>1, <2>2, <2>3, <2>4 DEF Located
<1>8. Counted' /\ OneEmpty'
  BY <1>2, <1>6, MappedInSame DEF Counted, OneEmpty
<1>9. VectorsOwnSame /\ HandleGains(h, id)
  BY <1>2, <1>3, <1>5 DEF VectorsOwnSame, VectorOwns, HandleGains, HandleOwns, DedicatedHandles, Live
<1>10. OwnedOnce' /\ AllOwned' /\ IsFiniteSet(memory')
  BY <1>1, <1>3, <1>4, <1>9, OwnershipGained DEF Typed
<1>11. Typed'
  BY <1>2, <1>3, <1>10, TypedWhole DEF Typed
<1>. QED
  BY <1>3, <1>7, <1>8, <1>10, <1>11

(* A new allocation in block c of its vector, which was there (of allocations *)
(* old) or is new: all of the vector but this block stays.                    *)
PlacedWith(t, c, kept, old) ==
  LET v == thread[t].vector  h == thread[t].handle
  IN  /\ Requesting(t) /\ Answered(t, FALSE, c.id) /\ h \notin Live /\ Live' = Live \union {h}
      /\ OtherVectors(v) /\ c \in SoundBlocks
      /\ kept \subseteq Range(blocks[v]) /\ Range(blocks'[v]) = kept \union {c}
      /\ old \subseteq Handles /\ c.used = old \union {h}
      /\ \A x \in Range(blocks[v]) : x \notin kept => x.id = c.id /\ x.used = old
      /\ \A g \in old : \E x \in Range(blocks[v]) : x.id = c.id /\ g \in x.used
      /\ c.mapCount = Cardinality(MappedAmong(old))

LEMMA PlacedLocated ==
  ASSUME MemoryInvariant, NEW t \in Threads, NEW c, NEW kept, NEW old, PlacedWith(t, c, kept, old)
  PROVE  Located' /\ Counted' /\ OneEmpty'
<1>. DEFINE r == thread[t]  h == r.handle  v == r.vector  id == c.id
<1>. USE DEF MemoryInvariant
<1>0. /\ Requesting(t) /\ Answered(t, FALSE, c.id) /\ h \notin Live /\ Live' = Live \union {h}
      /\ OtherVectors(v) /\ c \in SoundBlocks
      /\ kept \subseteq Range(blocks[v]) /\ Range(blocks'[v]) = kept \union {c}
      /\ old \subseteq Handles /\ c.used = old \union {h}
      /\ \A x \in Range(blocks[v]) : x \notin kept => x.id = c.id /\ x.used = old
      /\ \A g \in old : \E x \in Range(blocks[v]) : x.id = c.id /\ g \in x.used
      /\ c.mapCount = Cardinality(MappedAmong(old))
  BY DEF PlacedWith
<1>1. r \in RequestType /\ RequestTyped(r) /\ h \in Handles /\ AllocTo(h, NewAllocation(r, FALSE, id))
  BY <1>0, RequestsTyped DEF Answered
<1>2. /\ allocs'[h].dedicated = FALSE /\ allocs'[h].id = id /\ allocs'[h].maps = 0
      /\ allocs'[h].vector = v /\ allocs'[h].kind = r.kind
      /\ \A g \in Handles \ {h} : allocs'[g] = allocs[g]
  BY <1>0, <1>1 DEF AllocTo, NewAllocation
<1>3. v \in Vectors /\ \A w \in Vectors \ {v} : blocks'[w] = blocks[w]
  BY <1>0 DEF OtherVectors
<1>4. \A w \in Vectors : \A b \in Range(blocks[w]) : \A g \in b.used :
        /\ g \in Live /\ g # h /\ allocs'[g] = allocs[g]
        /\ ~ allocs[g].dedicated /\ allocs[g].vector = w /\ allocs[g].id = b.id
  BY <1>0, <1>2, OnlyLiveUsed DEF Live
<1>5. \A g \in old : /\ g \in Live /\ g # h /\ allocs'[g] = allocs[g]
                     /\ ~ allocs[g].dedicated /\ allocs[g].vector = v /\ allocs[g].id = id
  BY <1>0, <1>3, <1>4
<1>6. \A g \in Live' : allocs'[g] # None /\ (g # h => g \in Live /\ allocs'[g] = allocs[g])
  BY <1>0, <1>2 DEF Live
<1>7. Located'
  <2>1. \A w \in Vectors : IdsDistinct(blocks'[w])
    BY <1>0, <1>3 DEF Located, OtherVectors
  <2>2. \A w \in Vectors : \A b \in Range(blocks'[w]) : \A g \in b.used :
           /\ allocs'[g] # None /\ ~ allocs'[g].dedicated
           /\ allocs'[g].vector = w /\ allocs'[g].id = b.id
    <3>. TAKE w \in Vectors
    <3>. TAKE b \in Range(blocks'[w])
    <3>. TAKE g \in b.used
    <3>1. CASE b \in Range(blocks[w])
      BY <1>0, <3>1, <1>4, <1>6
    <3>2. CASE b \notin Range(blocks[w])
      <4>1. w = v /\ b = c
        BY <1>0, <3>2, <1>3
      <4>. QED BY <1>0, <4>1, <1>2, <1>5, <1>6
    <3>. QED BY <3>1, <3>2
  <2>3. \A g \in Live' : ~ allocs'[g].dedicated =>
           \E b \in Range(blocks'[allocs'[g].vector]) : b.id = allocs'[g].id /\ g \in b.used
    <3>. TAKE g \in Live'
    <3>1. CASE g = h
      BY <1>0, <3>1, <1>2
    <3>2. CASE g # h /\ ~ allocs'[g].dedicated
      <4>1. g \in Live /\ allocs'[g] = allocs[g]
        BY <1>0, <3>2, <1>6
      <4>2. PICK b \in Range(blocks[allocs[g].vector]) : b.id = allocs[g].id /\ g \in b.used
        BY <1>0, <3>2, <4>1 DEF Located
      <4>3. allocs[g].vector \in Vectors
        BY <1>0, <4>1, LiveTyped
      <4>4. CASE allocs[g].vector # v \/ b \in kept
        BY <1>0, <4>1, <4>2, <4>3, <4>4, <1>3
      <4>5. CASE allocs[g].vector = v /\ b \notin kept
        <5>1. b.id = id /\ b.used = old
          BY <1>0, <4>2, <4>5
        <5>2. c.id = allocs'[g].id /\ g \in c.used /\ c \in Range(blocks'[allocs'[g].vector])
          BY <1>0, <4>1, <4>2, <4>5, <5>1
        <5>. QED BY <1>0, <5>2
      <4>. QED BY <1>0, <4>4, <4>5
    <3>. QED BY <3>1, <3>2
  <2>4. \A g \in Live' : allocs'[g].vector = 0 <=> allocs'[g].kind = "scratch"
    <3>1. r.vector = 0 <=> r.kind = "scratch"
      BY <1>0, <1>1 DEF RequestTyped, Candidates, Types
    <3>. QED BY <1>0, <1>2, <1>6, <3>1 DEF Located, Live
  <2>. QED BY <2>1, <2>2, <2>3, <2>4 DEF Located
<1>8. Counted'
  <2>1. \A w \in Vectors : \A b \in Range(blocks[w]) : MappedIn(b)' = MappedIn(b)
    BY <1>0, <1>4, MappedInSame
  <2>2. MappedIn(c)' = MappedAmong(old)
    BY <1>0, <1>2, <1>5 DEF MappedIn, MappedAmong
  <2>3. SUFFICES ASSUME NEW w \in Vectors, NEW b \in Range(blocks'[w])
                 PROVE  b.mapCount = Cardinality(MappedIn(b)')
    BY <1>0 DEF Counted
  <2>4. CASE b \in Range(blocks[w])
    BY <1>0, <2>1, <2>4 DEF Counted
  <2>5. CASE b \notin Range(blocks[w])
    <3>1. b = c
      BY <1>0, <2>5, <1>3
    <3>. QED BY <1>0, <2>2, <3>1
  <2>. QED BY <2>4, <2>5
<1>9. OneEmpty'
  <2>1. \A w \in Vectors : \A b \in Range(blocks'[w]) : b.used = {} => b \in Range(blocks[w])
    BY <1>0, <1>3
  <2>. QED BY <2>1 DEF OneEmpty
<1>. QED BY <1>7, <1>8, <1>9

LEMMA PlacedInBlockKeeps ==
  ASSUME MemoryInvariant, died = "no", NEW t \in Threads, PlacedInBlock(t)
  PROVE  MemoryInvariant'
<1>. DEFINE r == thread[t]  h == r.handle  v == r.vector
<1>. USE DEF MemoryInvariant
<1>1. PICK b, c : /\ BlockTo(v, b, c)
                  /\ c.used = b.used \union {h} /\ c.mapCount = b.mapCount
                  /\ Answered(t, FALSE, b.id)
  BY DEF PlacedInBlock
<1>2. Requesting(t) /\ UNCHANGED memory /\ died' = "no"
  BY DEF PlacedInBlock
<1>3. v \in Vectors /\ b \in SoundBlocks /\ b.id \in 1 .. MaxMemoryCount /\ b.used \in SUBSET Handles
  <2>1. v \in Vectors
    BY <1>2, RequestsTyped
  <2>. QED BY <1>1, <2>1, BlocksTyped DEF BlockTo, SoundBlocks, BlockType
<1>4. /\ AllocsTyped' /\ ThreadsTyped' /\ InFlight' /\ Trying' /\ MapsKept' /\ Unused'
      /\ ThreadsOwnSame
      /\ h \notin Live /\ Live' = Live \union {h}
  BY <1>1, <1>2, <1>3, AnsweredKeeps
<1>5. Located' /\ Counted' /\ OneEmpty'
  <2>. DEFINE kept == Range(blocks[v]) \ {b}
  <2>1. /\ OtherVectors(v) /\ c \in SoundBlocks /\ c.id = b.id /\ b \in Range(blocks[v])
        /\ Range(blocks'[v]) = kept \union {c}
    BY <1>1 DEF BlockTo
  <2>2. \A x \in Range(blocks[v]) : x \notin kept => x.id = b.id /\ x.used = b.used
    OBVIOUS
  <2>3. c.mapCount = Cardinality(MappedAmong(b.used))
    BY <1>1, <1>3, <2>1 DEF Counted, MappedIn
  <2>4. \A g \in b.used : \E x \in Range(blocks[v]) : x.id = b.id /\ g \in x.used
    BY <2>1
  <2>5. kept \subseteq Range(blocks[v]) /\ b.used \subseteq Handles
    BY <1>3
  <2>6. PlacedWith(t, c, kept, b.used)
    BY <1>1, <1>2, <1>3, <1>4, <2>1, <2>2, <2>3, <2>4, <2>5 DEF PlacedWith
  <2>. HIDE DEF kept
  <2>. QED
    BY <2>6, PlacedLocated
<1>6. HandlesOwnSame
  <2>1. AllocTo(h, NewAllocation(r, FALSE, b.id))
    BY <1>1 DEF Answered
  <2>2. ~ allocs'[h].dedicated /\ \A g \in Handles \ {h} : allocs'[g] = allocs[g]
    BY <2>1 DEF AllocTo, NewAllocation
  <2>. QED BY <1>4, <2>2 DEF HandlesOwnSame, HandleOwns, DedicatedHandles, Live
<1>7. OwnedOnce' /\ AllOwned' /\ IsFiniteSet(memory')
  BY <1>1, <1>2, <1>4, <1>6, ReplacedOwnSame, OwnershipKept DEF Typed
<1>8. Typed'
  <2>1. (blocks \in [Vectors -> Seq(SoundBlocks)])'
    BY <1>1 DEF BlockTo, OtherVectors
  <2>. QED BY <1>2, <1>4, <1>7, <2>1, TypedWhole
<1>. QED
  BY <1>4, <1>5, <1>7, <1>8

LEMMA PlacedInNewKeeps ==
  ASSUME MemoryInvariant, died = "no", NEW t \in Threads, PlacedInNew(t)
  PROVE  MemoryInvariant'
<1>. DEFINE r == thread[t]  h == r.handle  v == r.vector
<1>. USE DEF MemoryInvariant
<1>1. PICK id, c : /\ BlockAdded(v, c) /\ c.id = id
                   /\ c.used = {h} /\ c.mapCount = 0
                   /\ Answered(t, FALSE, id) /\ MemoryAdded(id, c.size, v)
  BY DEF PlacedInNew
<1>2. Requesting(t) /\ died' = "no" /\ id \in 1 .. MaxMemoryCount /\ v \in Vectors
  BY <1>1, RequestsTyped DEF PlacedInNew, MemoryAdded, Fresh
<1>3. /\ AllocsTyped' /\ ThreadsTyped' /\ InFlight' /\ Trying' /\ MapsKept' /\ Unused'
      /\ ThreadsOwnSame
      /\ h \notin Live /\ Live' = Live \union {h}
  BY <1>1, <1>2, AnsweredKeeps
<1>4. Located' /\ Counted' /\ OneEmpty'
  <2>1. /\ OtherVectors(v) /\ c \in SoundBlocks
        /\ Range(blocks'[v]) = Range(blocks[v]) \union {c}
    BY <1>1 DEF BlockAdded
  <2>2. c.mapCount = Cardinality(MappedAmong({}))
    <3>1. MappedAmong({}) = {}
      BY DEF MappedAmong
    <3>. QED BY <1>1, <3>1, FS_EmptySet
  <2>3. PlacedWith(t, c, Range(blocks[v]), {})
    BY <1>1, <1>2, <1>3, <2>1, <2>2 DEF PlacedWith
  <2>. QED
    BY <2>3, PlacedLocated
<1>5. HandlesOwnSame
  <2>1. AllocTo(h, NewAllocation(r, FALSE, id))
    BY <1>1 DEF Answered
  <2>2. ~ allocs'[h].dedicated /\ \A g \in Handles \ {h} : allocs'[g] = allocs[g]
    BY <2>1 DEF AllocTo, NewAllocation
  <2>. QED BY <1>3, <2>2 DEF HandlesOwnSame, HandleOwns, DedicatedHandles, Live
<1>6. VectorGains(v, id)
  BY <1>1 DEF BlockAdded, OtherVectors, VectorGains, VectorOwns
<1>7. OwnedOnce' /\ AllOwned' /\ IsFiniteSet(memory')
  BY <1>1, <1>2, <1>3, <1>5, <1>6, OwnershipGained DEF Typed
<1>8. Typed'
  <2>1. (blocks \in [Vectors -> Seq(SoundBlocks)])'
    BY <1>1 DEF BlockAdded, OtherVectors
  <2>. QED BY <1>2, <1>3, <1>7, <2>1, TypedWhole
<1>. QED
  BY <1>3, <1>4, <1>7, <1>8

(* An allocation is in one block only.                                       *)
LEMMA UsedOnce ==
  ASSUME Located, Typed, NEW v \in Vectors, NEW b \in Range(blocks[v]),
         NEW w \in Vectors, NEW x \in Range(blocks[w]), NEW h, h \in b.used, h \in x.used
  PROVE  v = w /\ b = x
<1>1. v = w /\ b.id = x.id
  BY DEF Located
<1>2. PICK i \in DOMAIN blocks[v], j \in DOMAIN blocks[v] : blocks[v][i] = b /\ blocks[v][j] = x
  BY <1>1 DEF Range
<1>3. i = j
  BY <1>1, <1>2 DEF Located, IdsDistinct
<1>. QED BY <1>1, <1>2, <1>3

(* The count of a block follows the mappings of what is in it. (Map, Unmap)   *)
LEMMA RemappedKeeps ==
  ASSUME MemoryInvariant, NEW h \in Live, NEW n \in 0 .. 1, n # allocs[h].maps, Remapped(h, n)
  PROVE  /\ AllocsTyped' /\ (blocks \in [Vectors -> Seq(SoundBlocks)])'
         /\ Located' /\ Counted' /\ OneEmpty' /\ VectorsOwnSame /\ HandlesOwnSame
         /\ Live' = Live /\ allocs'[h].maps = n /\ allocs'[h].kind = allocs[h].kind
<1>. DEFINE a == allocs[h]  v == a.vector
            to == [a EXCEPT !.maps = n]
<1>. USE DEF MemoryInvariant
<1>1. h \in Handles /\ a # None /\ a \in Allocations /\ v \in Vectors
  BY LiveTyped
<1>2. /\ to \in Allocations /\ to.maps = n /\ to.kind = a.kind /\ to.vector = a.vector
      /\ to.dedicated = a.dedicated /\ to.id = a.id
  BY <1>1 DEF Allocations
<1>3. AllocTo(h, to)
  BY DEF Remapped, MapsTo
<1>. HIDE DEF to
<1>4. AllocsTyped'
  BY <1>2, <1>3, AllocsTypedStep
<1>5. to # None
  BY <1>2, MemoryAssumption
<1>6. \A g \in Handles : /\ g # h => allocs'[g] = allocs[g]
                         /\ allocs'[g] # None <=> allocs[g] # None
  BY <1>1, <1>3, <1>5 DEF AllocTo
<1>7. Live' = Live
  BY <1>6 DEF Live
<1>8. \A g \in Live : /\ allocs'[g].kind = allocs[g].kind /\ allocs'[g].vector = allocs[g].vector
                      /\ allocs'[g].dedicated = allocs[g].dedicated /\ allocs'[g].id = allocs[g].id
  BY <1>2, <1>3, <1>6 DEF AllocTo, Live
<1>9. HandlesOwnSame
  BY <1>7, <1>8 DEF HandlesOwnSame, HandleOwns, DedicatedHandles
<1>10. allocs'[h].maps = n
  BY <1>2, <1>3 DEF AllocTo
<1>11. \A w \in Vectors : \A x \in Range(blocks[w]) : \A g \in x.used :
         g \in Live /\ ~ allocs[g].dedicated /\ allocs[g].vector = w /\ allocs[g].id = x.id
  BY OnlyLiveUsed
<1>12. CASE a.dedicated
  <2>1. UNCHANGED blocks
    BY <1>12 DEF Remapped
  <2>2. Located'
    <3>1. \A w \in Vectors : IdsDistinct(blocks'[w])
      BY <2>1 DEF Located
    <3>2. \A w \in Vectors : \A b \in Range(blocks'[w]) : \A g \in b.used :
             /\ allocs'[g] # None /\ ~ allocs'[g].dedicated
             /\ allocs'[g].vector = w /\ allocs'[g].id = b.id
      BY <1>6, <1>8, <1>11, <2>1 DEF Live
    <3>3. \A g \in Live' : ~ allocs'[g].dedicated =>
             \E b \in Range(blocks'[allocs'[g].vector]) : b.id = allocs'[g].id /\ g \in b.used
      BY <1>7, <1>8, <2>1 DEF Located
    <3>4. \A g \in Live' : allocs'[g].vector = 0 <=> allocs'[g].kind = "scratch"
      BY <1>7, <1>8 DEF Located
    <3>. QED BY <3>1, <3>2, <3>3, <3>4 DEF Located
  <2>3. \A w \in Vectors : \A x \in Range(blocks[w]) : MappedIn(x)' = MappedIn(x)
    <3>1. \A w \in Vectors : \A x \in Range(blocks[w]) : \A g \in x.used : allocs'[g] = allocs[g]
      BY <1>6, <1>11, <1>12 DEF Live
    <3>. QED BY <3>1, MappedInSame
  <2>4. Counted' /\ OneEmpty' /\ VectorsOwnSame /\ (blocks \in [Vectors -> Seq(SoundBlocks)])'
    BY <2>1, <2>3 DEF Counted, OneEmpty, VectorsOwnSame, VectorOwns, Typed
  <2>. QED BY <1>1, <1>4, <1>7, <1>8, <1>9, <1>10, <2>2, <2>4
<1>13. CASE ~ a.dedicated
  <2>1. PICK b, c : /\ BlockTo(v, b, c) /\ h \in b.used
                    /\ c.used = b.used /\ c.mapCount = b.mapCount + n - a.maps
    BY <1>13 DEF Remapped
  <2>2. /\ b \in Range(blocks[v]) /\ b \in SoundBlocks /\ c.id = b.id
        /\ Range(blocks'[v]) = (Range(blocks[v]) \ {b}) \union {c}
        /\ \A w \in Vectors \ {v} : blocks'[w] = blocks[w]
        /\ (blocks \in [Vectors -> Seq(SoundBlocks)])'
        /\ IdsDistinct(blocks'[v])
    BY <1>1, <2>1, BlocksTyped DEF BlockTo, OtherVectors
  <2>3. \A w \in Vectors : \A x \in Range(blocks'[w]) :
           (x \in Range(blocks[w]) /\ x # b) \/ (w = v /\ x = c) \/ (w # v /\ x \in Range(blocks[w]))
    BY <2>2
  <2>4. Located'
    <3>1. \A w \in Vectors : IdsDistinct(blocks'[w])
      BY <2>2 DEF Located
    <3>2. \A w \in Vectors : \A x \in Range(blocks'[w]) : \A g \in x.used :
             /\ allocs'[g] # None /\ ~ allocs'[g].dedicated
             /\ allocs'[g].vector = w /\ allocs'[g].id = x.id
      <4>. TAKE w \in Vectors
      <4>. TAKE x \in Range(blocks'[w])
      <4>. TAKE g \in x.used
      <4>1. PICK y \in Range(blocks[w]) : y.id = x.id /\ g \in y.used
        BY <2>1, <2>2, <2>3
      <4>2. g \in Live /\ ~ allocs[g].dedicated /\ allocs[g].vector = w /\ allocs[g].id = x.id
        BY <1>11, <4>1
      <4>. QED BY <1>6, <1>8, <4>2 DEF Live
    <3>3. \A g \in Live' : ~ allocs'[g].dedicated =>
             \E x \in Range(blocks'[allocs'[g].vector]) : x.id = allocs'[g].id /\ g \in x.used
      <4>. TAKE g \in Live'
      <4>1. g \in Live /\ allocs'[g].dedicated = allocs[g].dedicated
            /\ allocs'[g].vector = allocs[g].vector /\ allocs'[g].id = allocs[g].id
            /\ allocs[g].vector \in Vectors
        BY <1>7, <1>8, LiveTyped
      <4>2. ASSUME ~ allocs[g].dedicated
            PROVE  \E x \in Range(blocks'[allocs[g].vector]) : x.id = allocs[g].id /\ g \in x.used
        <5>1. PICK x \in Range(blocks[allocs[g].vector]) : x.id = allocs[g].id /\ g \in x.used
          BY <4>1, <4>2 DEF Located
        <5>2. CASE allocs[g].vector = v /\ x = b
          BY <2>1, <2>2, <5>1, <5>2
        <5>3. CASE ~ (allocs[g].vector = v /\ x = b)
          BY <2>2, <4>1, <5>1, <5>3
        <5>. QED BY <5>2, <5>3
      <4>. QED BY <4>1, <4>2
    <3>4. \A g \in Live' : allocs'[g].vector = 0 <=> allocs'[g].kind = "scratch"
      BY <1>7, <1>8 DEF Located
    <3>. QED BY <3>1, <3>2, <3>3, <3>4 DEF Located
  <2>5. \A w \in Vectors : \A x \in Range(blocks[w]) :
           ~ (w = v /\ x = b) => MappedIn(x)' = MappedIn(x)
    <3>. TAKE w \in Vectors
    <3>. TAKE x \in Range(blocks[w])
    <3>1. ASSUME ~ (w = v /\ x = b) PROVE \A g \in x.used : allocs'[g] = allocs[g]
      <4>1. h \notin x.used
        BY <1>1, <2>1, <2>2, <3>1, UsedOnce
      <4>. QED BY <1>6, <1>11, <4>1 DEF Live
    <3>. QED BY <3>1, MappedInSame
  <2>6. c.mapCount = Cardinality(MappedIn(c)')
    <3>1. /\ IsFiniteSet(MappedIn(b)) /\ Cardinality(MappedIn(b)) \in Nat
          /\ b.mapCount = Cardinality(MappedIn(b))
      BY <1>1, <2>2, MappedInFinite DEF Counted
    <3>2. \A g \in b.used : g # h => allocs'[g] = allocs[g]
      BY <1>1, <1>6, <1>11, <2>2 DEF Live
    <3>3. CASE n = 1
      <4>1. a.maps = 0
        BY <1>1, <3>3 DEF Allocations
      <4>2. MappedIn(c)' = MappedIn(b) \union {h} /\ h \notin MappedIn(b)
        BY <1>10, <2>1, <3>2, <3>3, <4>1 DEF MappedIn, MappedAmong
      <4>3. Cardinality(MappedIn(c)') = Cardinality(MappedIn(b)) + 1
        BY <3>1, <4>2, FS_AddElement
      <4>. QED BY <2>1, <3>1, <3>3, <4>1, <4>3
    <3>4. CASE n = 0
      <4>1. a.maps = 1
        BY <1>1, <3>4 DEF Allocations
      <4>2. MappedIn(c)' = MappedIn(b) \ {h} /\ h \in MappedIn(b)
        BY <1>10, <2>1, <3>2, <3>4, <4>1 DEF MappedIn, MappedAmong
      <4>3. Cardinality(MappedIn(c)') = Cardinality(MappedIn(b)) - 1
        BY <3>1, <4>2, FS_RemoveElement
      <4>. QED BY <2>1, <3>1, <3>4, <4>1, <4>3
    <3>. QED BY <3>3, <3>4
  <2>7. Counted'
    <3>. SUFFICES ASSUME NEW w \in Vectors, NEW x \in Range(blocks'[w])
                  PROVE  x.mapCount = Cardinality(MappedIn(x)')
      BY DEF Counted
    <3>1. CASE w = v /\ x = c
      BY <2>6, <3>1
    <3>2. CASE ~ (w = v /\ x = c)
      <4>1. x \in Range(blocks[w]) /\ ~ (w = v /\ x = b)
        BY <2>3, <3>2
      <4>. QED BY <2>5, <4>1 DEF Counted
    <3>. QED BY <3>1, <3>2
  <2>8. OneEmpty'
    <3>1. \A w \in Vectors : \A x \in Range(blocks'[w]) :
            x.used = {} => x \in Range(blocks[w])
      BY <2>1, <2>3
    <3>. QED BY <3>1 DEF OneEmpty
  <2>. QED BY <1>1, <1>4, <1>7, <1>8, <1>9, <1>10, <2>1, <2>2, <2>4, <2>7, <2>8, ReplacedOwnSame
<1>. QED BY <1>12, <1>13

(* The threads, when t goes on with r, which is no request                    *)
LEMMA MovedOn ==
  ASSUME MemoryInvariant, NEW t \in Threads, NEW r, ThreadTo(t, r), ThreadTyped(r),
         r.pc \in {"idle", "free", "delete"}, died = "no", died' = "no", ~ Requesting(t)
  PROVE  /\ ThreadsTyped' /\ Trying'
         /\ \A u \in Threads \ {t} :
              /\ thread'[u] = thread[u]
              /\ (Requesting(u)' <=> Requesting(u)) /\ (Holding(u)' <=> Holding(u))
              /\ (Deletes(u)' <=> Deletes(u))
         /\ thread'[t] = r /\ ~ Requesting(t)'
         /\ Holding(t)' <=> r.pc = "free"
         /\ Deletes(t)' <=> r.pc = "delete"
<1>. USE DEF MemoryInvariant
<1>1. ThreadsTyped'
  BY ThreadsTypedStep
<1>2. /\ \A u \in Threads \ {t} :
              /\ thread'[u] = thread[u]
              /\ (Requesting(u)' <=> Requesting(u)) /\ (Holding(u)' <=> Holding(u))
              /\ (Deletes(u)' <=> Deletes(u))
      /\ thread'[t] = r /\ ~ Requesting(t)'
      /\ Holding(t)' <=> r.pc = "free"
      /\ Deletes(t)' <=> r.pc = "delete"
  BY DEF ThreadTo, Requesting, Holding, Deletes
<1>3. Trying'
  BY <1>2 DEF Trying
<1>. QED BY <1>1, <1>2, <1>3

LEMMA MappedNewKeeps ==
  ASSUME MemoryInvariant, died = "no", NEW t \in Threads, MappedNew(t)
  PROVE  MemoryInvariant'
<1>. DEFINE h == thread[t].handle
<1>. USE DEF MemoryInvariant
<1>1. /\ thread[t].pc = "map" /\ ThreadTo(t, Idle) /\ Remapped(h, 1)
      /\ died' = "no" /\ UNCHANGED memory
      /\ Holding(t) /\ ~ Requesting(t) /\ ~ Deletes(t)
  BY DEF MappedNew, Holding, Requesting, Deletes
<1>2. h \in Live /\ allocs[h].kind # "device" /\ allocs[h].maps = 0
  <2>1. h \in Live /\ allocs[h].kind # "device"
    BY <1>1 DEF Typed, ThreadTyped, InFlight, Live
  <2>. QED BY <1>1, <2>1 DEF MapsKept
<1>3. /\ AllocsTyped' /\ (blocks \in [Vectors -> Seq(SoundBlocks)])'
      /\ Located' /\ Counted' /\ OneEmpty' /\ VectorsOwnSame /\ HandlesOwnSame
      /\ Live' = Live /\ allocs'[h].maps = 1 /\ allocs'[h].kind = allocs[h].kind
  BY <1>1, <1>2, RemappedKeeps
<1>4. /\ ThreadsTyped' /\ Trying'
      /\ \A u \in Threads \ {t} :
              /\ thread'[u] = thread[u]
              /\ (Requesting(u)' <=> Requesting(u)) /\ (Holding(u)' <=> Holding(u))
              /\ (Deletes(u)' <=> Deletes(u))
      /\ ~ Requesting(t)' /\ ~ Holding(t)' /\ ~ Deletes(t)'
  BY <1>1, IdleTyped, MovedOn
<1>5. \A g \in Handles \ {h} : allocs'[g] = allocs[g]
  BY <1>1 DEF Remapped, MapsTo, AllocTo
<1>6. \A u \in Threads \ {t} : Requesting(u) \/ Holding(u) =>
        /\ thread[u].handle # h /\ thread[u].handle \in Handles
        /\ allocs'[thread[u].handle] = allocs[thread[u].handle]
  BY <1>1, <1>5 DEF InFlight, Typed, ThreadTyped, RequestTyped, RequestType, Requesting, Holding
<1>7. InFlight'
  <2>1. \A u \in Threads : Requesting(u)' => allocs'[thread'[u].handle] = None
    BY <1>4, <1>6 DEF InFlight
  <2>2. \A u \in Threads : Holding(u)' => allocs'[thread'[u].handle] # None
    BY <1>4, <1>6 DEF InFlight
  <2>3. \A u \in Threads : thread'[u].pc = "map" => allocs'[thread'[u].handle].kind # "device"
    BY <1>4, <1>6 DEF InFlight, Holding
  <2>4. \A u, w \in Threads :
          /\ Requesting(u)' \/ Holding(u)'
          /\ Requesting(w)' \/ Holding(w)'
          /\ thread'[u].handle = thread'[w].handle
          => u = w
    BY <1>4 DEF InFlight
  <2>. QED BY <2>1, <2>2, <2>3, <2>4 DEF InFlight
<1>8. MapsKept'
  <2>1. \A g \in Live \ {h} : (\E u \in Threads : Holding(u)' /\ thread'[u].handle = g)
                                <=> (\E u \in Threads : Holding(u) /\ thread[u].handle = g)
    BY <1>4
  <2>2. \A u \in Threads : ~ (Holding(u)' /\ thread'[u].handle = h)
    BY <1>4, <1>6
  <2>. QED BY <1>2, <1>3, <1>5, <2>1, <2>2 DEF MapsKept, Live
<1>9. Unused' /\ ThreadsOwnSame
  <2>1. \A u \in Threads : (Deletes(u)' <=> Deletes(u)) /\ (Deletes(u) => thread'[u] = thread[u])
    BY <1>1, <1>4
  <2>. QED BY <2>1 DEF Unused, ThreadsOwnSame, ThreadOwns
<1>10. OwnedOnce' /\ AllOwned' /\ IsFiniteSet(memory')
  BY <1>1, <1>3, <1>9, OwnershipKept DEF Typed
<1>11. Typed'
  BY <1>1, <1>3, <1>4, <1>10, TypedWhole
<1>. QED
  BY <1>3, <1>4, <1>7, <1>8, <1>9, <1>10, <1>11

(* A mapping that is refused is fatal, and so is a request no type suits.     *)
LEMMA FatalKeeps ==
  ASSUME MemoryInvariant, died' \in {"unmappable", "unsuited"},
         UNCHANGED <<allocs, blocks, thread, memory, counts>>
  PROVE  MemoryInvariant'
<1>. USE DEF MemoryInvariant
<1>1. Typed' /\ InFlight'
  BY DEF Typed, InFlight, Requesting, Holding
<1>2. Trying'
  BY DEF Trying
<1>3. Located' /\ MapsKept' /\ Counted' /\ OneEmpty' /\ Unused'
  BY DEF Located, Live, MapsKept, Holding, Counted, MappedIn, MappedAmong, OneEmpty, Unused, Deletes
<1>4. VectorsOwnSame /\ ThreadsOwnSame /\ HandlesOwnSame
  BY DEF VectorsOwnSame, ThreadsOwnSame, HandlesOwnSame, VectorOwns, ThreadOwns,
     HandleOwns, DedicatedHandles, Live, Deletes
<1>5. OwnedOnce' /\ AllOwned'
  BY <1>4, OwnershipKept DEF Typed
<1>. QED
  BY <1>1, <1>2, <1>3, <1>5

LEMMA UnmapsKeeps ==
  ASSUME MemoryInvariant, died = "no", NEW t \in Threads, NEW h \in Handles, Unmaps(t, h)
  PROVE  MemoryInvariant'
<1>. USE DEF MemoryInvariant
<1>. DEFINE r == [pc |-> "free", handle |-> h]
<1>1. /\ thread[t].pc = "idle" /\ h \in Live /\ Untouched(h)
      /\ ThreadTo(t, r) /\ r.pc = "free" /\ r.handle = h /\ ThreadTyped(r)
      /\ died' = "no" /\ UNCHANGED memory
      /\ ~ Holding(t) /\ ~ Requesting(t) /\ ~ Deletes(t)
  BY DEF Unmaps, Holding, Requesting, Deletes, ThreadTyped
<1>. HIDE DEF r
<1>2. /\ AllocsTyped' /\ (blocks \in [Vectors -> Seq(SoundBlocks)])'
      /\ Located' /\ Counted' /\ OneEmpty' /\ VectorsOwnSame /\ HandlesOwnSame
      /\ Live' = Live /\ allocs'[h].kind = allocs[h].kind /\ allocs'[h].maps = 0
      /\ \A g \in Handles \ {h} : allocs'[g] = allocs[g]
  <2>1. CASE allocs[h].kind = "device"
    <3>1. UNCHANGED <<allocs, blocks>>
      BY <2>1 DEF Unmaps
    <3>2. allocs[h].maps = 0
      BY <1>1, <2>1 DEF MapsKept
    <3>3. AllocsTyped' /\ (blocks \in [Vectors -> Seq(SoundBlocks)])'
      BY <3>1 DEF Typed, AllocsTyped
    <3>4. Located' /\ Counted' /\ OneEmpty' /\ VectorsOwnSame /\ HandlesOwnSame /\ Live' = Live
      BY <3>1 DEF Located, Live, Counted, MappedIn, MappedAmong, OneEmpty, VectorsOwnSame, VectorOwns,
         HandlesOwnSame, HandleOwns, DedicatedHandles
    <3>. QED BY <3>1, <3>2, <3>3, <3>4
  <2>2. CASE allocs[h].kind # "device"
    <3>1. Remapped(h, 0)
      BY <2>2 DEF Unmaps
    <3>2. allocs[h].maps = 1
      BY <1>1, <2>2 DEF MapsKept, Untouched
    <3>3. 0 \in 0 .. 1 /\ 0 # allocs[h].maps
      BY <3>2
    <3>4. \A g \in Handles \ {h} : allocs'[g] = allocs[g]
      BY <3>1 DEF Remapped, MapsTo, AllocTo
    <3>. QED BY <1>1, <3>1, <3>3, <3>4, RemappedKeeps
  <2>. QED BY <2>1, <2>2
<1>3. /\ ThreadsTyped' /\ Trying'
      /\ \A u \in Threads \ {t} :
              /\ thread'[u] = thread[u]
              /\ (Requesting(u)' <=> Requesting(u)) /\ (Holding(u)' <=> Holding(u))
              /\ (Deletes(u)' <=> Deletes(u))
      /\ ~ Requesting(t)' /\ Holding(t)' /\ ~ Deletes(t)' /\ thread'[t] = r
  BY <1>1, MovedOn
<1>4. \A u \in Threads \ {t} : Requesting(u) \/ Holding(u) =>
        /\ thread[u].handle # h /\ thread[u].handle \in Handles
        /\ allocs'[thread[u].handle] = allocs[thread[u].handle]
  BY <1>1, <1>2 DEF Untouched, Typed, ThreadTyped, RequestTyped, RequestType, Requesting, Holding
<1>5. InFlight'
  <2>1. \A u \in Threads : Requesting(u)' => allocs'[thread'[u].handle] = None
    BY <1>3, <1>4 DEF InFlight
  <2>2. \A u \in Threads : Holding(u)' => allocs'[thread'[u].handle] # None
    BY <1>1, <1>2, <1>3, <1>4 DEF InFlight, Live
  <2>3. \A u \in Threads : thread'[u].pc = "map" => allocs'[thread'[u].handle].kind # "device"
    BY <1>1, <1>3, <1>4 DEF InFlight, Holding
  <2>4. \A u, w \in Threads :
          /\ Requesting(u)' \/ Holding(u)'
          /\ Requesting(w)' \/ Holding(w)'
          /\ thread'[u].handle = thread'[w].handle
          => u = w
    BY <1>1, <1>3, <1>4 DEF InFlight
  <2>. QED BY <2>1, <2>2, <2>3, <2>4 DEF InFlight
<1>6. MapsKept'
  <2>1. \A g \in Live \ {h} : (\E u \in Threads : Holding(u)' /\ thread'[u].handle = g)
                                <=> (\E u \in Threads : Holding(u) /\ thread[u].handle = g)
    BY <1>1, <1>3
  <2>2. Holding(t)' /\ thread'[t].handle = h
    BY <1>1, <1>3
  <2>. QED BY <1>2, <2>1, <2>2 DEF MapsKept, Live
<1>7. Unused' /\ ThreadsOwnSame
  <2>1. \A u \in Threads : (Deletes(u)' <=> Deletes(u)) /\ (Deletes(u) => thread'[u] = thread[u])
    BY <1>1, <1>3
  <2>. QED BY <2>1 DEF Unused, ThreadsOwnSame, ThreadOwns
<1>8. OwnedOnce' /\ AllOwned' /\ IsFiniteSet(memory')
  BY <1>1, <1>2, <1>7, OwnershipKept DEF Typed
<1>9. Typed'
  BY <1>1, <1>2, <1>3, <1>8, TypedWhole
<1>. QED
  BY <1>2, <1>3, <1>5, <1>6, <1>7, <1>8, <1>9

(* The allocation is gone, and t goes on with r.                             *)
LEMMA FreesKeeps ==
  ASSUME MemoryInvariant, died = "no", NEW t \in Threads, Frees(t), NEW r, ThreadTo(t, r),
         ThreadTyped(r), r.pc \in {"idle", "delete"}
  PROVE  /\ AllocsTyped' /\ ThreadsTyped' /\ InFlight' /\ Trying' /\ MapsKept'
         /\ thread[t].handle \in Live /\ Live' = Live \ {thread[t].handle}
         /\ \A g \in Handles \ {thread[t].handle} : allocs'[g] = allocs[g]
         /\ \A u \in Threads \ {t} : thread'[u] = thread[u] /\ (Deletes(u)' <=> Deletes(u))
         /\ thread'[t] = r /\ ~ Deletes(t) /\ (Deletes(t)' <=> r.pc = "delete")
         /\ allocs[thread[t].handle].maps = 0
<1>. USE DEF MemoryInvariant
<1>. DEFINE h == thread[t].handle
<1>1. /\ thread[t].pc = "free" /\ h \in Live /\ h \in Handles /\ AllocTo(h, None) /\ died' = "no"
      /\ Holding(t) /\ ~ Requesting(t) /\ ~ Deletes(t)
  BY DEF Frees, Holding, Requesting, Deletes, Live
<1>2. /\ \A g \in Handles \ {h} : allocs'[g] = allocs[g]
      /\ allocs'[h] = None
  BY <1>1 DEF AllocTo
<1>3. Live' = Live \ {h}
  BY <1>1, <1>2 DEF Live
<1>4. AllocsTyped'
  BY <1>1, AllocsTypedStep
<1>5. /\ ThreadsTyped' /\ Trying'
      /\ \A u \in Threads \ {t} :
              /\ thread'[u] = thread[u]
              /\ (Requesting(u)' <=> Requesting(u)) /\ (Holding(u)' <=> Holding(u))
              /\ (Deletes(u)' <=> Deletes(u))
      /\ ~ Requesting(t)' /\ ~ Holding(t)' /\ (Deletes(t)' <=> r.pc = "delete") /\ thread'[t] = r
  BY <1>1, MovedOn
<1>6. \A u \in Threads \ {t} : Requesting(u) \/ Holding(u) =>
        /\ thread[u].handle # h /\ thread[u].handle \in Handles
        /\ allocs'[thread[u].handle] = allocs[thread[u].handle]
  BY <1>1, <1>2 DEF InFlight, Typed, ThreadTyped, RequestTyped, RequestType, Requesting, Holding
<1>7. InFlight'
  <2>1. \A u \in Threads : Requesting(u)' => allocs'[thread'[u].handle] = None
    BY <1>5, <1>6 DEF InFlight
  <2>2. \A u \in Threads : Holding(u)' => allocs'[thread'[u].handle] # None
    BY <1>5, <1>6 DEF InFlight
  <2>3. \A u \in Threads : thread'[u].pc = "map" => allocs'[thread'[u].handle].kind # "device"
    BY <1>5, <1>6 DEF InFlight, Holding
  <2>4. \A u, w \in Threads :
          /\ Requesting(u)' \/ Holding(u)'
          /\ Requesting(w)' \/ Holding(w)'
          /\ thread'[u].handle = thread'[w].handle
          => u = w
    BY <1>5 DEF InFlight
  <2>. QED BY <2>1, <2>2, <2>3, <2>4 DEF InFlight
<1>8. MapsKept'
  <2>1. \A g \in Live \ {h} : (\E u \in Threads : Holding(u)' /\ thread'[u].handle = g)
                                <=> (\E u \in Threads : Holding(u) /\ thread[u].handle = g)
    BY <1>5
  <2>. QED BY <1>2, <1>3, <2>1 DEF MapsKept, Live
<1>9. allocs[h].maps = 0
  BY <1>1 DEF MapsKept
<1>. QED
  BY <1>1, <1>2, <1>3, <1>4, <1>5, <1>7, <1>8, <1>9

LEMMA DedicatedFreedKeeps ==
  ASSUME MemoryInvariant, died = "no", NEW t \in Threads, DedicatedFreed(t)
  PROVE  MemoryInvariant'
<1>. USE DEF MemoryInvariant
<1>. DEFINE h == thread[t].handle
<1>1. /\ Frees(t) /\ allocs[h].dedicated /\ ThreadTo(t, Idle) /\ UNCHANGED blocks
      /\ MemoryReturned({allocs[h].id}) /\ died' = "no"
  BY DEF DedicatedFreed, Frees
<1>2. /\ AllocsTyped' /\ ThreadsTyped' /\ InFlight' /\ Trying' /\ MapsKept'
      /\ h \in Live /\ Live' = Live \ {h}
      /\ \A g \in Handles \ {h} : allocs'[g] = allocs[g]
      /\ \A u \in Threads \ {t} : thread'[u] = thread[u] /\ (Deletes(u)' <=> Deletes(u))
      /\ ~ Deletes(t) /\ ~ Deletes(t)'
  BY <1>1, IdleTyped, FreesKeeps
<1>3. \A v \in Vectors : \A b \in Range(blocks[v]) : \A g \in b.used :
        g \in Live /\ allocs'[g] = allocs[g]
  BY <1>1, <1>2, OnlyLiveUsed DEF Live
<1>4. Located'
  <2>1. \A v \in Vectors : IdsDistinct(blocks'[v])
    BY <1>1 DEF Located
  <2>2. \A v \in Vectors : \A b \in Range(blocks'[v]) : \A g \in b.used :
           /\ allocs'[g] # None /\ ~ allocs'[g].dedicated
           /\ allocs'[g].vector = v /\ allocs'[g].id = b.id
    BY <1>1, <1>3 DEF Located
  <2>3. \A g \in Live' : ~ allocs'[g].dedicated =>
           \E b \in Range(blocks'[allocs'[g].vector]) : b.id = allocs'[g].id /\ g \in b.used
    BY <1>1, <1>2 DEF Located, Live
  <2>4. \A g \in Live' : allocs'[g].vector = 0 <=> allocs'[g].kind = "scratch"
    BY <1>2 DEF Located, Live
  <2>. QED BY <2>1, <2>2, <2>3, <2>4 DEF Located
<1>5. Counted' /\ OneEmpty' /\ Unused'
  BY <1>1, <1>2, <1>3, MappedInSame DEF Counted, OneEmpty, Unused
<1>6. VectorsOwnSame /\ ThreadsOwnSame
  BY <1>1, <1>2 DEF VectorsOwnSame, VectorOwns, ThreadsOwnSame, ThreadOwns
<1>7. HandleLoses(h, {allocs[h].id}) /\ HandleOwns(h, allocs[h].id) /\ h \in Handles
  BY <1>1, <1>2 DEF HandleLoses, HandleOwns, DedicatedHandles, Live
<1>8. OwnedOnce' /\ AllOwned' /\ IsFiniteSet(memory')
  BY <1>1, <1>6, <1>7, OwnershipLost DEF Typed
<1>9. Typed'
  BY <1>1, <1>2, <1>8, TypedWhole DEF Typed
<1>. QED
  BY <1>2, <1>4, <1>5, <1>8, <1>9

(* A vector of which block b, emptied of h, becomes c, and loses gone or not.  *)
FreedFrom(v, h, b, c, gone) ==
  /\ OtherVectors(v)
  /\ b \in Range(blocks[v]) /\ h \in b.used
  /\ c \in SoundBlocks /\ c.id = b.id /\ c.used = b.used \ {h} /\ c.mapCount = b.mapCount
  /\ \A x \in gone : x.used = {}
  /\ Range(blocks'[v]) = ((Range(blocks[v]) \ {b}) \union {c}) \ gone

LEMMA FreedLocated ==
  ASSUME MemoryInvariant, NEW v, NEW h, NEW b, NEW c, NEW gone, FreedFrom(v, h, b, c, gone),
         h \in Live, Live' = Live \ {h}, \A g \in Handles \ {h} : allocs'[g] = allocs[g],
         allocs[h].maps = 0
  PROVE  Located' /\ Counted' /\ HandlesOwnSame /\ c.mapCount = Cardinality(MappedIn(c)')
<1>. USE DEF MemoryInvariant
<1>1. /\ v \in Vectors /\ b \in Range(blocks[v]) /\ h \in b.used
      /\ c \in SoundBlocks /\ c.id = b.id /\ c.used = b.used \ {h} /\ c.mapCount = b.mapCount
      /\ \A x \in gone : x.used = {}
      /\ Range(blocks'[v]) = ((Range(blocks[v]) \ {b}) \union {c}) \ gone
      /\ \A w \in Vectors \ {v} : blocks'[w] = blocks[w]
      /\ IdsDistinct(blocks'[v])
  BY DEF FreedFrom, OtherVectors
<1>2. \A w \in Vectors : \A x \in Range(blocks[w]) : \A g \in x.used :
         /\ g \in Live /\ ~ allocs[g].dedicated /\ allocs[g].vector = w /\ allocs[g].id = x.id
         /\ g # h => allocs'[g] = allocs[g] /\ g \in Live'
  BY OnlyLiveUsed DEF Live
<1>3. \A w \in Vectors : \A x \in Range(blocks[w]) : h \in x.used => w = v /\ x = b
  BY <1>1, UsedOnce
<1>4. \A w \in Vectors : \A x \in Range(blocks'[w]) :
         (x \in Range(blocks[w]) /\ h \notin x.used) \/ (w = v /\ x = c)
  BY <1>1, <1>3
<1>5. Located'
  <2>1. \A w \in Vectors : IdsDistinct(blocks'[w])
    BY <1>1 DEF Located
  <2>2. \A w \in Vectors : \A x \in Range(blocks'[w]) : \A g \in x.used :
           /\ allocs'[g] # None /\ ~ allocs'[g].dedicated
           /\ allocs'[g].vector = w /\ allocs'[g].id = x.id
    <3>. TAKE w \in Vectors
    <3>. TAKE x \in Range(blocks'[w])
    <3>. TAKE g \in x.used
    <3>1. PICK y \in Range(blocks[w]) : y.id = x.id /\ g \in y.used /\ g # h
      BY <1>1, <1>4
    <3>2. /\ g \in Live /\ ~ allocs[g].dedicated /\ allocs[g].vector = w /\ allocs[g].id = x.id
          /\ allocs'[g] = allocs[g]
      BY <1>2, <3>1
    <3>. QED BY <3>2 DEF Live
  <2>3. \A g \in Live' : ~ allocs'[g].dedicated =>
           \E x \in Range(blocks'[allocs'[g].vector]) : x.id = allocs'[g].id /\ g \in x.used
    <3>. TAKE g \in Live'
    <3>1. g \in Live /\ g # h /\ allocs'[g] = allocs[g] /\ allocs[g].vector \in Vectors
      BY LiveTyped DEF Live
    <3>2. ASSUME ~ allocs[g].dedicated
          PROVE  \E x \in Range(blocks'[allocs[g].vector]) : x.id = allocs[g].id /\ g \in x.used
      <4>1. PICK x \in Range(blocks[allocs[g].vector]) : x.id = allocs[g].id /\ g \in x.used
        BY <3>1, <3>2 DEF Located
      <4>2. CASE allocs[g].vector = v /\ x = b
        <5>1. g \in c.used /\ c \notin gone
          BY <1>1, <3>1, <4>1, <4>2
        <5>2. c \in Range(blocks'[v])
          BY <1>1, <5>1
        <5>. QED BY <1>1, <4>1, <4>2, <5>1, <5>2
      <4>3. CASE allocs[g].vector = v /\ x # b
        <5>1. x \notin gone
          BY <1>1, <4>1
        <5>2. x \in Range(blocks'[v])
          BY <1>1, <4>1, <4>3, <5>1
        <5>. QED BY <4>1, <4>3, <5>2
      <4>4. CASE allocs[g].vector # v
        BY <1>1, <3>1, <4>1, <4>4
      <4>. QED BY <4>2, <4>3, <4>4
    <3>. QED BY <3>1, <3>2
  <2>4. \A g \in Live' : allocs'[g].vector = 0 <=> allocs'[g].kind = "scratch"
    BY DEF Located, Live
  <2>. QED BY <2>1, <2>2, <2>3, <2>4 DEF Located
<1>6. MappedIn(c)' = MappedIn(b)
  BY <1>1, <1>2 DEF MappedIn, MappedAmong
<1>7. c.mapCount = Cardinality(MappedIn(c)')
  BY <1>1, <1>6 DEF Counted
<1>8. Counted'
  <2>. SUFFICES ASSUME NEW w \in Vectors, NEW x \in Range(blocks'[w])
                PROVE  x.mapCount = Cardinality(MappedIn(x)')
    BY DEF Counted
  <2>1. CASE x = c
    BY <1>7, <2>1
  <2>2. CASE x # c
    <3>1. x \in Range(blocks[w]) /\ h \notin x.used
      BY <1>4, <2>2
    <3>2. \A g \in x.used : allocs'[g] = allocs[g]
      BY <1>2, <3>1
    <3>3. MappedIn(x)' = MappedIn(x)
      BY <3>2, MappedInSame
    <3>. QED BY <3>1, <3>3 DEF Counted
  <2>. QED BY <2>1, <2>2
<1>9. HandlesOwnSame
  <2>1. ~ allocs[h].dedicated
    BY <1>1, <1>2
  <2>. QED BY <2>1 DEF HandlesOwnSame, HandleOwns, DedicatedHandles, Live
<1>. QED BY <1>5, <1>7, <1>8, <1>9

LEMMA SameIdSameBlock ==
  ASSUME Located, NEW v \in Vectors, NEW b \in Range(blocks[v]), NEW x \in Range(blocks[v]), b.id = x.id
  PROVE  b = x
<1>1. PICK i \in DOMAIN blocks[v], j \in DOMAIN blocks[v] : blocks[v][i] = b /\ blocks[v][j] = x
  BY DEF Range
<1>2. i = j
  BY <1>1 DEF Located, IdsDistinct
<1>. QED BY <1>1, <1>2

LEMMA FreedInBlockKeeps ==
  ASSUME MemoryInvariant, died = "no", NEW t \in Threads, FreedInBlock(t)
  PROVE  MemoryInvariant'
<1>. USE DEF MemoryInvariant
<1>. DEFINE h == thread[t].handle  v == allocs[h].vector
<1>1. PICK b, c : /\ BlockTo(v, b, c) /\ h \in b.used
                  /\ c.used = b.used \ {h} /\ c.mapCount = b.mapCount
                  /\ c.used = {} => \A x \in Range(blocks[v]) : x.used # {}
  BY DEF FreedInBlock
<1>2. Frees(t) /\ ThreadTo(t, Idle) /\ UNCHANGED memory /\ died' = "no"
  BY DEF FreedInBlock, Frees
<1>3. /\ AllocsTyped' /\ ThreadsTyped' /\ InFlight' /\ Trying' /\ MapsKept'
      /\ h \in Live /\ Live' = Live \ {h}
      /\ \A g \in Handles \ {h} : allocs'[g] = allocs[g]
      /\ \A u \in Threads \ {t} : thread'[u] = thread[u] /\ (Deletes(u)' <=> Deletes(u))
      /\ ~ Deletes(t) /\ ~ Deletes(t)'
      /\ allocs[h].maps = 0
  BY <1>2, IdleTyped, FreesKeeps
<1>4. /\ OtherVectors(v) /\ b \in Range(blocks[v]) /\ c \in SoundBlocks /\ c.id = b.id
      /\ Range(blocks'[v]) = (Range(blocks[v]) \ {b}) \union {c}
      /\ \A w \in Vectors \ {v} : blocks'[w] = blocks[w]
      /\ (blocks \in [Vectors -> Seq(SoundBlocks)])'
  BY <1>1 DEF BlockTo, OtherVectors
<1>5. FreedFrom(v, h, b, c, {})
  BY <1>1, <1>4 DEF FreedFrom
<1>6. Located' /\ Counted' /\ HandlesOwnSame
  <2>. HIDE DEF v, h
  <2>1. /\ h \in Live /\ Live' = Live \ {h} /\ allocs[h].maps = 0
        /\ \A g \in Handles \ {h} : allocs'[g] = allocs[g]
    BY <1>3
  <2>. QED BY <1>5, <2>1, FreedLocated
<1>7. OneEmpty'
  BY <1>1, <1>4 DEF OneEmpty
<1>8. Unused' /\ ThreadsOwnSame
  BY <1>3 DEF Unused, ThreadsOwnSame, ThreadOwns
<1>9. OwnedOnce' /\ AllOwned' /\ IsFiniteSet(memory')
  BY <1>1, <1>2, <1>6, <1>8, ReplacedOwnSame, OwnershipKept DEF Typed
<1>10. Typed'
  BY <1>2, <1>3, <1>4, <1>9, TypedWhole
<1>. QED
  BY <1>3, <1>6, <1>7, <1>8, <1>9, <1>10

LEMMA FreedAndRemovedKeeps ==
  ASSUME MemoryInvariant, died = "no", NEW t \in Threads, FreedAndRemoved(t)
  PROVE  MemoryInvariant'
<1>. USE DEF MemoryInvariant
<1>. DEFINE h == thread[t].handle  v == allocs[h].vector
            r(gone) == [pc |-> "delete", handle |-> None, vector |-> v, block |-> gone]
<1>1. PICK b, c, gone :
           /\ BlockRemoved(v, b, c, gone) /\ h \in b.used
           /\ c.used = b.used \ {h} /\ c.mapCount = b.mapCount
           /\ gone.used = {} /\ (c.used = {} => gone = c)
           /\ ThreadTo(t, r(gone))
  BY DEF FreedAndRemoved
<1>2. Frees(t) /\ UNCHANGED memory /\ died' = "no" /\ v \in Vectors
  BY <1>1 DEF FreedAndRemoved, Frees, BlockRemoved, OtherVectors
<1>3. /\ OtherVectors(v) /\ b \in Range(blocks[v]) /\ c \in SoundBlocks /\ c.id = b.id
      /\ gone \in (Range(blocks[v]) \ {b}) \union {c}
      /\ Range(blocks'[v]) = ((Range(blocks[v]) \ {b}) \union {c}) \ {gone}
      /\ \A w \in Vectors \ {v} : blocks'[w] = blocks[w]
      /\ (blocks \in [Vectors -> Seq(SoundBlocks)])'
  BY <1>1 DEF BlockRemoved, OtherVectors
<1>4. gone \in SoundBlocks
  BY <1>2, <1>3, BlocksTyped
<1>5. ThreadTyped(r(gone)) /\ r(gone).pc = "delete" /\ r(gone).block = gone
  BY <1>2, <1>4 DEF ThreadTyped
<1>6. /\ AllocsTyped' /\ ThreadsTyped' /\ InFlight' /\ Trying' /\ MapsKept'
      /\ h \in Live /\ Live' = Live \ {h}
      /\ \A g \in Handles \ {h} : allocs'[g] = allocs[g]
      /\ \A u \in Threads \ {t} : thread'[u] = thread[u] /\ (Deletes(u)' <=> Deletes(u))
      /\ ~ Deletes(t) /\ Deletes(t)' /\ thread'[t].block = gone
      /\ allocs[h].maps = 0
  <2>. DEFINE q == r(gone)
  <2>1. ThreadTo(t, q) /\ ThreadTyped(q) /\ q.pc \in {"idle", "delete"} /\ q.pc = "delete" /\ q.block = gone
    BY <1>1, <1>5
  <2>. HIDE DEF q
  <2>. QED BY <1>2, <2>1, FreesKeeps
<1>7. FreedFrom(v, h, b, c, {gone})
  BY <1>1, <1>3 DEF FreedFrom
<1>8. Located' /\ Counted' /\ HandlesOwnSame /\ c.mapCount = Cardinality(MappedIn(c)')
  <2>. HIDE DEF v, h
  <2>1. /\ h \in Live /\ Live' = Live \ {h} /\ allocs[h].maps = 0
        /\ \A g \in Handles \ {h} : allocs'[g] = allocs[g]
    BY <1>6
  <2>. QED BY <1>7, <2>1, FreedLocated
<1>9. OneEmpty'
  BY <1>1, <1>3 DEF OneEmpty
<1>10. gone.mapCount = 0
  <2>1. CASE gone = c
    <3>1. MappedIn(c)' = {}
      BY <1>1, <2>1 DEF MappedIn, MappedAmong
    <3>. QED BY <1>8, <2>1, <3>1, FS_EmptySet
  <2>2. CASE gone # c
    <3>1. gone \in Range(blocks[v]) /\ MappedIn(gone) = {}
      BY <1>1, <1>3, <2>2 DEF MappedIn, MappedAmong
    <3>2. gone.mapCount = Cardinality(MappedIn(gone))
      BY <1>2, <3>1 DEF Counted
    <3>. QED BY <3>1, <3>2, FS_EmptySet
  <2>. QED BY <2>1, <2>2
<1>11. Unused' /\ ThreadGains(t, gone.id)
  <2>1. Unused'
    BY <1>1, <1>6, <1>10 DEF Unused
  <2>2. \A id : ThreadOwns(t, id)' <=> id = gone.id
    BY <1>6 DEF ThreadOwns
  <2>3. \A u \in Threads \ {t} : \A id : ThreadOwns(u, id)' <=> ThreadOwns(u, id)
    BY <1>6 DEF ThreadOwns
  <2>4. \A id : ~ ThreadOwns(t, id)
    BY <1>6 DEF ThreadOwns
  <2>. QED BY <2>1, <2>2, <2>3, <2>4 DEF ThreadGains
<1>12. VectorLoses(v, {gone.id}) /\ VectorOwns(v, gone.id)
  <2>1. VectorOwns(v, gone.id)
    BY <1>3 DEF VectorOwns
  <2>2. \A x \in (Range(blocks[v]) \ {b}) \union {c} : x.id = gone.id => x = gone
    BY <1>2, <1>3, SameIdSameBlock
  <2>3. \A w \in Vectors : w = v =>
           \A id : VectorOwns(w, id)' <=> VectorOwns(w, id) /\ id # gone.id
    BY <1>3, <2>2 DEF VectorOwns
  <2>4. \A w \in Vectors \ {v} : \A id : VectorOwns(w, id)' <=> VectorOwns(w, id)
    BY <1>3 DEF VectorOwns
  <2>. QED BY <2>1, <2>3, <2>4 DEF VectorLoses
<1>13. OwnedOnce' /\ AllOwned' /\ IsFiniteSet(memory')
  <2>. HIDE DEF v, h
  <2>. QED BY <1>2, <1>8, <1>11, <1>12, OwnershipMoved DEF Typed
<1>14. Typed'
  BY <1>2, <1>3, <1>6, <1>13, TypedWhole
<1>. QED
  BY <1>6, <1>8, <1>9, <1>11, <1>13, <1>14

LEMMA BlockDeletedKeeps ==
  ASSUME MemoryInvariant, died = "no", NEW t \in Threads, BlockDeleted(t)
  PROVE  MemoryInvariant'
<1>. USE DEF MemoryInvariant
<1>. DEFINE old == thread[t].block.id
<1>1. /\ Deletes(t) /\ ThreadTo(t, Idle) /\ MemoryReturned({old})
      /\ died' = "no" /\ UNCHANGED <<blocks, allocs>> /\ ~ Requesting(t) /\ ~ Holding(t)
  BY DEF BlockDeleted, Deletes, Requesting, Holding
<1>2. /\ ThreadsTyped' /\ Trying'
      /\ \A u \in Threads \ {t} :
           /\ thread'[u] = thread[u]
           /\ (Requesting(u)' <=> Requesting(u)) /\ (Holding(u)' <=> Holding(u))
           /\ (Deletes(u)' <=> Deletes(u))
      /\ thread'[t] = Idle /\ ~ Requesting(t)' /\ ~ Holding(t)' /\ ~ Deletes(t)'
  BY <1>1, IdleTyped, MovedOn
<1>3. Live' = Live /\ AllocsTyped' /\ (blocks \in [Vectors -> Seq(SoundBlocks)])'
  BY <1>1 DEF Live, Typed, AllocsTyped
<1>4. InFlight'
  <2>1. \A u \in Threads : Requesting(u)' => allocs'[thread'[u].handle] = None
    BY <1>1, <1>2 DEF InFlight
  <2>2. \A u \in Threads : Holding(u)' => allocs'[thread'[u].handle] # None
    BY <1>1, <1>2 DEF InFlight
  <2>3. \A u \in Threads : thread'[u].pc = "map" => allocs'[thread'[u].handle].kind # "device"
    BY <1>1, <1>2, IdleTyped DEF InFlight
  <2>4. \A u, w \in Threads :
          /\ Requesting(u)' \/ Holding(u)'
          /\ Requesting(w)' \/ Holding(w)'
          /\ thread'[u].handle = thread'[w].handle
          => u = w
    BY <1>2 DEF InFlight
  <2>. QED BY <2>1, <2>2, <2>3, <2>4 DEF InFlight
<1>5. MapsKept'
  <2>1. \A g : (\E u \in Threads : Holding(u)' /\ thread'[u].handle = g)
                 <=> (\E u \in Threads : Holding(u) /\ thread[u].handle = g)
    BY <1>1, <1>2
  <2>. QED BY <1>1, <1>3, <2>1 DEF MapsKept
<1>6. Located' /\ Counted' /\ OneEmpty' /\ Unused'
  BY <1>1, <1>2, <1>3 DEF Located, Counted, MappedIn, MappedAmong, OneEmpty, Unused
<1>7. VectorsOwnSame /\ HandlesOwnSame
  BY <1>1, <1>3 DEF VectorsOwnSame, VectorOwns, HandlesOwnSame, HandleOwns, DedicatedHandles
<1>8. ThreadLoses(t, {old}) /\ ThreadOwns(t, old)
  BY <1>1, <1>2 DEF ThreadLoses, ThreadOwns
<1>9. OwnedOnce' /\ AllOwned' /\ IsFiniteSet(memory')
  BY <1>1, <1>7, <1>8, OwnershipLost DEF Typed
<1>10. Typed'
  BY <1>1, <1>2, <1>3, <1>9, TypedWhole
<1>. QED
  BY <1>2, <1>4, <1>5, <1>6, <1>9, <1>10

LEMMA PoolDestroyedKeeps ==
  ASSUME MemoryInvariant, died = "no", PoolDestroyed
  PROVE  MemoryInvariant'
<1>. USE DEF MemoryInvariant
<1>. DEFINE old == {b.id : b \in Range(blocks[0])}
<1>1. /\ \A h \in Live : allocs[h].kind # "scratch"
      /\ blocks' = [blocks EXCEPT ![0] = <<>>]
      /\ MemoryReturned(old) /\ died' = "no" /\ UNCHANGED <<allocs, thread>>
  BY DEF PoolDestroyed
<1>2. 0 \in Vectors
  BY MemoryAssumption DEF Vectors
<1>3. /\ (blocks \in [Vectors -> Seq(SoundBlocks)])'
      /\ blocks'[0] = <<>> /\ \A w \in Vectors \ {0} : blocks'[w] = blocks[w]
      /\ Range(blocks'[0]) = {}
  <2>1. Range(<<>>) = {} /\ <<>> \in Seq(SoundBlocks)
    BY DEF Range
  <2>2. blocks \in [Vectors -> Seq(SoundBlocks)]
    BY DEF Typed
  <2>. QED BY <1>1, <1>2, <2>1, <2>2
<1>4. Live' = Live /\ AllocsTyped' /\ ThreadsTyped'
  BY <1>1 DEF Live, Typed, AllocsTyped, ThreadsTyped
<1>5. InFlight' /\ Trying' /\ MapsKept' /\ Unused'
  BY <1>1, <1>4 DEF InFlight, Trying, MapsKept, Unused, Requesting, Holding, Deletes
<1>6. Located'
  <2>1. \A v \in Vectors : IdsDistinct(blocks'[v])
    BY <1>3 DEF Located, IdsDistinct
  <2>2. \A v \in Vectors : \A b \in Range(blocks'[v]) : \A g \in b.used :
           /\ allocs'[g] # None /\ ~ allocs'[g].dedicated
           /\ allocs'[g].vector = v /\ allocs'[g].id = b.id
    BY <1>1, <1>3 DEF Located
  <2>3. \A g \in Live' : ~ allocs'[g].dedicated =>
           \E b \in Range(blocks'[allocs'[g].vector]) : b.id = allocs'[g].id /\ g \in b.used
    <3>1. \A g \in Live : allocs[g].vector \in Vectors \ {0}
      BY <1>1, LiveTyped DEF Located
    <3>. QED BY <1>1, <1>3, <1>4, <3>1 DEF Located
  <2>4. \A g \in Live' : allocs'[g].vector = 0 <=> allocs'[g].kind = "scratch"
    BY <1>1, <1>4 DEF Located
  <2>. QED BY <2>1, <2>2, <2>3, <2>4 DEF Located
<1>7. Counted' /\ OneEmpty'
  BY <1>1, <1>3 DEF Counted, MappedIn, MappedAmong, OneEmpty
<1>8. ThreadsOwnSame /\ HandlesOwnSame
  BY <1>1, <1>4 DEF ThreadsOwnSame, ThreadOwns, Deletes, HandlesOwnSame, HandleOwns, DedicatedHandles
<1>9. VectorLoses(0, old) /\ \A id \in old : VectorOwns(0, id)
  BY <1>3 DEF VectorLoses, VectorOwns
<1>10. OwnedOnce' /\ AllOwned' /\ IsFiniteSet(memory')
  <2>. HIDE DEF old
  <2>. QED BY <1>1, <1>2, <1>8, <1>9, OwnershipLost DEF Typed
<1>11. Typed'
  BY <1>1, <1>3, <1>4, <1>10, TypedWhole
<1>. QED
  BY <1>5, <1>6, <1>7, <1>10, <1>11

LEMMA StutterKeeps ==
  ASSUME MemoryInvariant, UNCHANGED memoryVars
  PROVE  MemoryInvariant'
<1>. USE DEF MemoryInvariant, memoryVars
<1>1. Typed' /\ InFlight' /\ Trying'
  BY DEF Typed, InFlight, Trying, Requesting, Holding
<1>2. Located' /\ MapsKept' /\ Counted' /\ OneEmpty' /\ Unused'
  BY DEF Located, Live, MapsKept, Holding, Counted, MappedIn, MappedAmong, OneEmpty, Unused, Deletes
<1>3. VectorsOwnSame /\ ThreadsOwnSame /\ HandlesOwnSame
  BY DEF VectorsOwnSame, ThreadsOwnSame, HandlesOwnSame, VectorOwns, ThreadOwns,
     HandleOwns, DedicatedHandles, Live, Deletes
<1>4. OwnedOnce' /\ AllOwned'
  BY <1>3, OwnershipKept DEF Typed
<1>. QED
  BY <1>1, <1>2, <1>4

LEMMA MemoryStep == MemoryInvariant /\ [MemoryNext]_memoryVars => MemoryInvariant'
<1>. SUFFICES ASSUME MemoryInvariant, MemoryNext PROVE MemoryInvariant'
  BY StutterKeeps
<1>. USE DEF MemoryInvariant
<1>1. ASSUME NEW t \in Threads, NEW kind \in Kinds, NEW size \in Sizes, NEW driver \in Dedications,
             NEW h \in Handles, Create(t, kind, size, driver, h)
      PROVE  MemoryInvariant'
  <2>1. died = "no"
    BY <1>1 DEF Create
  <2>. QED BY <1>1, <2>1, CreateEffect, RequestKeeps, FatalKeeps
<1>2. ASSUME NEW t \in Threads, NEW h \in Handles, Destroy(t, h) PROVE MemoryInvariant'
  <2>1. died = "no"
    BY <1>2 DEF Destroy
  <2>. QED BY <1>2, <2>1, DestroyEffect, UnmapsKeeps
<1>3. ASSUME NEW t \in Threads, Dedicated(t) PROVE MemoryInvariant'
  <2>1. died = "no"
    BY <1>3 DEF Dedicated
  <2>. QED BY <1>3, <2>1, DedicatedEffect, RequestKeeps, DedicatedKeeps
<1>4. ASSUME NEW t \in Threads, FromBlocks(t) PROVE MemoryInvariant'
  <2>1. died = "no"
    BY <1>4 DEF FromBlocks
  <2>. QED BY <1>4, <2>1, FromBlocksEffect, RequestKeeps, PlacedInBlockKeeps, PlacedInNewKeeps
<1>5. ASSUME NEW t \in Threads, MapNew(t) PROVE MemoryInvariant'
  <2>1. died = "no"
    BY <1>5 DEF MapNew
  <2>. QED BY <1>5, <2>1, MapNewEffect, MappedNewKeeps, FatalKeeps
<1>6. ASSUME NEW t \in Threads, FreeDedicated(t) PROVE MemoryInvariant'
  <2>1. died = "no"
    BY <1>6 DEF FreeDedicated
  <2>. QED BY <1>6, <2>1, FreeDedicatedEffect, DedicatedFreedKeeps
<1>7. ASSUME NEW t \in Threads, FreeInBlock(t) PROVE MemoryInvariant'
  <2>1. died = "no"
    BY <1>7 DEF FreeInBlock
  <2>. QED BY <1>7, <2>1, FreeInBlockEffect, FreedInBlockKeeps, FreedAndRemovedKeeps
<1>8. ASSUME NEW t \in Threads, DeleteBlock(t) PROVE MemoryInvariant'
  <2>1. died = "no"
    BY <1>8 DEF DeleteBlock
  <2>. QED BY <1>8, <2>1, DeleteBlockEffect, BlockDeletedKeeps
<1>9. ASSUME NEW t \in Threads, DestroyPool(t) PROVE MemoryInvariant'
  <2>1. died = "no"
    BY <1>9 DEF DestroyPool
  <2>. QED BY <1>9, <2>1, DestroyPoolEffect, PoolDestroyedKeeps
<1>10. ASSUME Stopped PROVE MemoryInvariant'
  BY <1>10, StutterKeeps DEF Stopped
<1>. QED
  BY <1>1, <1>2, <1>3, <1>4, <1>5, <1>6, <1>7, <1>8, <1>9, <1>10 DEF MemoryNext
-----------------------------------------------------------------------------
(* What the invariant says of the properties                                 *)

LEMMA TypesSound ==
  ASSUME MemoryInvariant
  PROVE  MemoryTypeOK
<1>. USE DEF MemoryInvariant
<1>1. ASSUME NEW b \in AllBlocks
      PROVE  /\ b.id \in 1 .. MaxMemoryCount /\ b.size \in 1 .. Preferred /\ b.used \subseteq Handles
             /\ b.mapCount \in Nat /\ b.mapped \in BOOLEAN /\ b.extra \in 0 .. 1
             /\ b.minor \in 0 .. b.major
  <2>1. BlockSound(b)
    BY BlocksTyped DEF AllBlocks, SoundBlocks
  <2>2. b \in BlockType /\ b.minor <= b.major
    BY <2>1 DEF BlockSound, Steady
  <2>3. b.minor \in Nat /\ b.major \in Nat
    BY <2>2 DEF BlockType
  <2>4. b.minor \in 0 .. b.major
    BY <2>2, <2>3
  <2>. QED BY <2>2, <2>4 DEF BlockType
<1>2. \A h \in Live : /\ allocs[h].kind \in Kinds /\ allocs[h].vector \in Vectors
                      /\ allocs[h].size \in Sizes /\ allocs[h].maps \in 0 .. 1
  BY LiveTyped DEF Allocations
<1>3. \A t \in Threads : thread[t].pc \in {"idle", "dedicated", "block", "map", "free", "delete"}
  BY DEF Typed, ThreadTyped
<1>4. died \in {"no", "unsuited", "refused", "unmappable"}
  BY DEF Typed
<1>. QED BY <1>1, <1>2, <1>3, <1>4 DEF MemoryTypeOK

LEMMA MapsSound ==
  ASSUME MemoryInvariant
  PROVE  MapsCounted
<1>. USE DEF MemoryInvariant
<1>1. SUFFICES ASSUME NEW v \in Vectors, NEW b \in Range(blocks[v])
               PROVE  /\ b.mapCount = Cardinality({h \in b.used : allocs[h].maps = 1})
                      /\ b.mapped <=> b.mapCount + b.extra # 0
  BY DEF MapsCounted, AllBlocks
<1>2. BlockSound(b)
  BY BlocksTyped DEF SoundBlocks
<1>3. b.mapCount = Cardinality(MappedIn(b))
  BY DEF Counted
<1>. QED BY <1>2, <1>3 DEF BlockSound, MappedIn, MappedAmong

(* As many memories as there are blocks, threads that delete one and dedicated *)
(* allocations: each owns one, and no other does.                             *)
LEMMA OwnersSound ==
  ASSUME MemoryInvariant
  PROVE  MemoryOwned
<1>. USE DEF MemoryInvariant
<1>. DEFINE held == UNION {{v} \X DOMAIN blocks[v] : v \in Vectors}
            waiting == {t \in Threads : thread[t].pc = "delete"}
            ids == {m.id : m \in memory}
            ofVectors == {id \in ids : \E v \in Vectors : VectorOwns(v, id)}
            ofThreads == {id \in ids : \E t \in Threads : ThreadOwns(t, id)}
            ofHandles == {id \in ids : \E h \in Handles : HandleOwns(h, id)}
<1>1. IsFiniteSet(ids) /\ Cardinality(memory) = Cardinality(ids)
  <2>. DEFINE f == [m \in memory |-> m.id]
  <2>0. IsFiniteSet(memory)
    BY DEF Typed
  <2>1. f \in Bijection(memory, ids)
    BY DEF AllOwned, Bijection, Injection, IsInjective, Surjection
  <2>. HIDE DEF f, ids
  <2>2. ExistsBijection(memory, ids)
    BY <2>1 DEF ExistsBijection
  <2>. QED BY <2>0, <2>2, FS_Bijection
<1>2. \A id : id \in ids <=> Owned(id)
  BY DEF AllOwned, Allotted
<1>3. /\ ids = ofVectors \union ofThreads \union ofHandles
      /\ ofVectors \intersect ofThreads = {} /\ (ofVectors \union ofThreads) \intersect ofHandles = {}
  BY <1>2 DEF Owned, OwnedOnce
<1>4. IsFiniteSet(ofVectors) /\ IsFiniteSet(ofThreads) /\ IsFiniteSet(ofHandles)
  <2>. HIDE DEF ids
  <2>. QED BY <1>1, FS_Subset
<1>5. Cardinality(ids) = Cardinality(ofVectors) + Cardinality(ofThreads) + Cardinality(ofHandles)
  <2>. HIDE DEF ids, ofVectors, ofThreads, ofHandles
  <2>1. /\ IsFiniteSet(ofVectors \union ofThreads)
        /\ Cardinality(ofVectors \union ofThreads) = Cardinality(ofVectors) + Cardinality(ofThreads)
    BY <1>3, <1>4, Together
  <2>2. Cardinality((ofVectors \union ofThreads) \union ofHandles) =
           Cardinality(ofVectors \union ofThreads) + Cardinality(ofHandles)
    BY <1>3, <1>4, <2>1, Together
  <2>. QED BY <1>3, <2>1, <2>2
<1>6. Cardinality(held) = Cardinality(ofVectors)
  <2>. DEFINE f == [p \in held |-> blocks[p[1]][p[2]].id]
  <2>1. \A p \in held : /\ p[1] \in Vectors /\ p[2] \in DOMAIN blocks[p[1]] /\ p = <<p[1], p[2]>>
    OBVIOUS
  <2>2. \A v \in Vectors : \A i \in DOMAIN blocks[v] : <<v, i>> \in held
    OBVIOUS
  <2>. HIDE DEF held, ids
  <2>3. \A p \in held : VectorOwns(p[1], f[p])
    BY <2>1 DEF VectorOwns, Range
  <2>4. f \in [held -> ofVectors]
    BY <1>2, <2>1, <2>3 DEF Owned
  <2>5. \A p, q \in held : f[p] = f[q] => p = q
    BY <2>1, <2>3 DEF OwnedOnce, Located, IdsDistinct
  <2>6. \A id \in ofVectors : \E p \in held : f[p] = id
    <3>. TAKE id \in ofVectors
    <3>1. PICK v \in Vectors : \E b \in Range(blocks[v]) : b.id = id
      BY DEF VectorOwns
    <3>2. PICK i \in DOMAIN blocks[v] : blocks[v][i].id = id
      BY <3>1 DEF Range
    <3>3. <<v, i>> \in held /\ f[<<v, i>>] = id
      BY <2>2, <3>2
    <3>. QED BY <3>3
  <2>. HIDE DEF f, ofVectors
  <2>. QED BY <1>4, <2>4, <2>5, <2>6, Counting
<1>7. Cardinality(waiting) = Cardinality(ofThreads)
  <2>. DEFINE f == [t \in waiting |-> thread[t].block.id]
  <2>. HIDE DEF ids
  <2>1. \A t \in waiting : t \in Threads /\ ThreadOwns(t, f[t])
    BY DEF ThreadOwns, Deletes
  <2>2. f \in [waiting -> ofThreads]
    BY <1>2, <2>1 DEF Owned
  <2>3. \A t, u \in waiting : f[t] = f[u] => t = u
    BY <2>1 DEF OwnedOnce
  <2>4. \A id \in ofThreads : \E t \in waiting : f[t] = id
    BY DEF ThreadOwns, Deletes
  <2>. HIDE DEF f, ofThreads, waiting
  <2>. QED BY <1>4, <2>2, <2>3, <2>4, Counting
<1>8. Cardinality(DedicatedHandles) = Cardinality(ofHandles)
  <2>. DEFINE f == [h \in DedicatedHandles |-> allocs[h].id]
  <2>. HIDE DEF ids
  <2>1. \A h \in DedicatedHandles : h \in Handles /\ HandleOwns(h, f[h])
    BY DEF HandleOwns, DedicatedHandles, Live
  <2>2. f \in [DedicatedHandles -> ofHandles]
    BY <1>2, <2>1 DEF Owned
  <2>3. \A g, h \in DedicatedHandles : f[g] = f[h] => g = h
    BY <2>1 DEF OwnedOnce
  <2>4. \A id \in ofHandles : \E h \in DedicatedHandles : f[h] = id
    BY DEF HandleOwns
  <2>. HIDE DEF f, ofHandles
  <2>. QED BY <1>4, <2>2, <2>3, <2>4, Counting
<1>9. ids = {b.id : b \in AllBlocks \union Deleting} \union {allocs[h].id : h \in DedicatedHandles}
  <2>. HIDE DEF ids
  <2>1. \A id : Owned(id) <=> \/ id \in {b.id : b \in AllBlocks}
                              \/ id \in {b.id : b \in Deleting}
                              \/ id \in {allocs[h].id : h \in DedicatedHandles}
    <3>1. \A id : (\E v \in Vectors : VectorOwns(v, id)) <=> id \in {b.id : b \in AllBlocks}
      BY DEF VectorOwns, AllBlocks
    <3>2. \A id : (\E t \in Threads : ThreadOwns(t, id)) <=> id \in {b.id : b \in Deleting}
      BY DEF ThreadOwns, Deletes, Deleting
    <3>3. \A id : (\E h \in Handles : HandleOwns(h, id)) <=> id \in {allocs[h].id : h \in DedicatedHandles}
      BY DEF HandleOwns, DedicatedHandles, Live
    <3>. QED BY <3>1, <3>2, <3>3 DEF Owned
  <2>. QED BY <1>2, <2>1
<1>10. \A h \in Live \ DedicatedHandles :
         \E b \in Range(blocks[allocs[h].vector]) : b.id = allocs[h].id /\ h \in b.used
  BY DEF Located, DedicatedHandles
<1>11. Cardinality(memory) = Cardinality(held) + Cardinality(waiting) + Cardinality(DedicatedHandles)
  <2>. HIDE DEF held, waiting, ids, ofVectors, ofThreads, ofHandles
  <2>. QED BY <1>1, <1>5, <1>6, <1>7, <1>8
<1>. QED BY <1>9, <1>10, <1>11 DEF MemoryOwned

LEMMA OneEmptySound ==
  ASSUME MemoryInvariant
  PROVE  OneEmptyBlock
<1>. USE DEF MemoryInvariant
<1>1. \A v \in Vectors : \A i \in DOMAIN blocks[v] : blocks[v][i] \in Range(blocks[v])
  BY DEF Range
<1>. QED
  BY <1>1 DEF OneEmptyBlock, OneEmpty, Located, IdsDistinct

LEMMA InvariantSound == MemoryInvariant => MemorySound /\ RefusedByDriver
<1>. SUFFICES ASSUME MemoryInvariant PROVE MemorySound /\ RefusedByDriver
  OBVIOUS
<1>1. DeletedUnused
  BY DEF MemoryInvariant, Unused, Deletes, DeletedUnused, Deleting
<1>2. RefusedByDriver
  BY DEF MemoryInvariant, Trying, Requesting, Candidates, RefusedByDriver
<1>. QED
  BY <1>1, <1>2, TypesSound, MapsSound, OwnersSound, OneEmptySound DEF MemorySound

(* VmaBlockVector, VmaDeviceMemoryBlock: however the threads take turns, every *)
(* VkDeviceMemory has one owner and is given back once, every allocation is in *)
(* the block it names, a block is mapped while anything in it is, no vector    *)
(* keeps two empty blocks, and what is destroyed without the lock is unused.   *)
THEOREM MemoryAlwaysSound == MemorySpec => []MemorySound
<1>. QED
  BY InitInvariant, MemoryStep, InvariantSound, PTL DEF MemorySpec

(* AllocateMemory: the refusal that vkm makes fatal is the driver's own, in    *)
(* every memory type that suits, whatever other threads have taken or given    *)
(* back since.                                                                *)
THEOREM RefusedOnlyByDriver == MemorySpec => []RefusedByDriver
<1>. QED
  BY InitInvariant, MemoryStep, InvariantSound, PTL DEF MemorySpec

-----------------------------------------------------------------------------
(* The budget                                                                *)

(* The counters may be taken for negative until they are known to be exact.   *)
CountsType ==
  [bytes : [Heaps -> Int], blocks : [Heaps -> Int], allocBytes : [Heaps -> Int],
   allocs : [Heaps -> Int], memories : Int]

(* From c to d there are n more memories of v's heap, of size together.       *)
MemoryBy(c, d, v, size, n) ==
  /\ \A p \in Heaps : /\ d.bytes[p] = c.bytes[p] + (IF p = HeapOf(v) THEN size ELSE 0)
                      /\ d.blocks[p] = c.blocks[p] + (IF p = HeapOf(v) THEN n ELSE 0)
  /\ d.memories = c.memories + n

AllocationsBy(c, d, v, size, n) ==
  \A p \in Heaps : /\ d.allocBytes[p] = c.allocBytes[p] + (IF p = HeapOf(v) THEN size ELSE 0)
                   /\ d.allocs[p] = c.allocs[p] + (IF p = HeapOf(v) THEN n ELSE 0)

SameMemory(c, d) == d.bytes = c.bytes /\ d.blocks = c.blocks /\ d.memories = c.memories

SameAllocations(c, d) == d.allocBytes = c.allocBytes /\ d.allocs = c.allocs

LEMMA CounterMoved ==
  ASSUME NEW f \in [Heaps -> Int], NEW h, NEW n \in Int
  PROVE  LET g == [f EXCEPT ![h] = f[h] + n]
         IN  g \in [Heaps -> Int] /\ \A p \in Heaps : g[p] = f[p] + (IF p = h THEN n ELSE 0)
<1>. DEFINE g == [f EXCEPT ![h] = f[h] + n]
<1>1. CASE h \in Heaps
  <2>1. f[h] + n \in Int
    BY <1>1
  <2>. QED BY <1>1, <2>1
<1>2. CASE h \notin Heaps
  <2>1. g = f
    BY <1>2
  <2>2. \A p \in Heaps : f[p] = f[p] + 0 /\ p # h
    BY <1>2
  <2>. HIDE DEF g
  <2>3. g \in [Heaps -> Int] /\ \A p \in Heaps : g[p] = f[p] + (IF p = h THEN n ELSE 0)
    BY <2>1, <2>2
  <2>. QED BY <2>3 DEF g
<1>. QED BY <1>1, <1>2

LEMMA MemoryMoved ==
  ASSUME NEW c \in CountsType, NEW v, NEW size \in Int, NEW n \in Int, NEW d,
         d = [c EXCEPT !.bytes = [c.bytes EXCEPT ![HeapOf(v)] = c.bytes[HeapOf(v)] + size],
                       !.blocks = [c.blocks EXCEPT ![HeapOf(v)] = c.blocks[HeapOf(v)] + n],
                       !.memories = c.memories + n]
  PROVE  d \in CountsType /\ MemoryBy(c, d, v, size, n) /\ SameAllocations(c, d)
<1>. DEFINE h == HeapOf(v)
            bytes == [c.bytes EXCEPT ![h] = c.bytes[h] + size]
            some == [c.blocks EXCEPT ![h] = c.blocks[h] + n]
<1>1. c.bytes \in [Heaps -> Int] /\ c.blocks \in [Heaps -> Int] /\ c.memories \in Int
  BY DEF CountsType
<1>. HIDE DEF h
<1>2. bytes \in [Heaps -> Int] /\ \A p \in Heaps : bytes[p] = c.bytes[p] + (IF p = h THEN size ELSE 0)
  BY <1>1, CounterMoved
<1>5. some \in [Heaps -> Int] /\ \A p \in Heaps : some[p] = c.blocks[p] + (IF p = h THEN n ELSE 0)
  BY <1>1, CounterMoved
<1>6. c.memories + n \in Int
  BY <1>1
<1>3. d = [c EXCEPT !.bytes = bytes, !.blocks = some, !.memories = c.memories + n]
  BY DEF h
<1>. HIDE DEF bytes, some
<1>4. /\ d \in CountsType /\ d.bytes = bytes /\ d.blocks = some /\ d.memories = c.memories + n
      /\ SameAllocations(c, d)
  BY <1>2, <1>3, <1>5, <1>6 DEF CountsType, SameAllocations
<1>. QED BY <1>2, <1>4, <1>5 DEF MemoryBy, h

LEMMA AllocationsMoved ==
  ASSUME NEW c \in CountsType, NEW v, NEW size \in Int, NEW n \in Int, NEW d,
         d = [c EXCEPT !.allocBytes = [c.allocBytes EXCEPT ![HeapOf(v)] = c.allocBytes[HeapOf(v)] + size],
                       !.allocs = [c.allocs EXCEPT ![HeapOf(v)] = c.allocs[HeapOf(v)] + n]]
  PROVE  d \in CountsType /\ AllocationsBy(c, d, v, size, n) /\ SameMemory(c, d)
<1>. DEFINE h == HeapOf(v)
            bytes == [c.allocBytes EXCEPT ![h] = c.allocBytes[h] + size]
            some == [c.allocs EXCEPT ![h] = c.allocs[h] + n]
<1>1. c.allocBytes \in [Heaps -> Int] /\ c.allocs \in [Heaps -> Int]
  BY DEF CountsType
<1>. HIDE DEF h
<1>2. /\ bytes \in [Heaps -> Int] /\ some \in [Heaps -> Int]
      /\ \A p \in Heaps : /\ bytes[p] = c.allocBytes[p] + (IF p = h THEN size ELSE 0)
                          /\ some[p] = c.allocs[p] + (IF p = h THEN n ELSE 0)
  BY <1>1, CounterMoved
<1>3. d = [c EXCEPT !.allocBytes = bytes, !.allocs = some]
  BY DEF h
<1>. HIDE DEF bytes, some
<1>4. d \in CountsType /\ d.allocBytes = bytes /\ d.allocs = some /\ SameMemory(c, d)
  BY <1>2, <1>3 DEF CountsType, SameMemory
<1>. QED BY <1>2, <1>4 DEF AllocationsBy, h

LEMMA MemoryCounted ==
  ASSUME NEW c \in CountsType, NEW v, NEW size \in Int
  PROVE  LET d == WithMemory(c, v, size)
         IN  d \in CountsType /\ MemoryBy(c, d, v, size, 1) /\ SameAllocations(c, d)
<1>1. WithMemory(c, v, size) =
        [c EXCEPT !.bytes = [c.bytes EXCEPT ![HeapOf(v)] = c.bytes[HeapOf(v)] + size],
                  !.blocks = [c.blocks EXCEPT ![HeapOf(v)] = c.blocks[HeapOf(v)] + 1],
                  !.memories = c.memories + 1]
  BY DEF WithMemory, CountsType
<1>2. 1 \in Int
  OBVIOUS
<1>. QED BY <1>1, <1>2, MemoryMoved

LEMMA MemoriesUncounted ==
  ASSUME NEW c \in CountsType, NEW v, NEW sizes, SumFunction(sizes) \in Int, Len(sizes) \in Int
  PROVE  LET d == WithoutMemories(c, v, sizes)
         IN  /\ d \in CountsType /\ SameAllocations(c, d)
             /\ MemoryBy(c, d, v, - SumFunction(sizes), - Len(sizes))
<1>. DEFINE sum == SumFunction(sizes)  n == Len(sizes)  h == HeapOf(v)
<1>1. /\ - sum \in Int /\ - n \in Int /\ c.memories - n = c.memories + (- n)
      /\ \A p \in Heaps : c.bytes[p] - sum = c.bytes[p] + (- sum) /\ c.blocks[p] - n = c.blocks[p] + (- n)
  BY DEF CountsType
<1>2. WithoutMemories(c, v, sizes) =
        [c EXCEPT !.bytes = [c.bytes EXCEPT ![h] = c.bytes[h] - sum],
                  !.blocks = [c.blocks EXCEPT ![h] = c.blocks[h] - n],
                  !.memories = c.memories - n]
  BY DEF WithoutMemories, CountsType
<1>. HIDE DEF sum, n, h
<1>3. /\ [c.bytes EXCEPT ![h] = c.bytes[h] - sum] = [c.bytes EXCEPT ![h] = c.bytes[h] + (- sum)]
      /\ [c.blocks EXCEPT ![h] = c.blocks[h] - n] = [c.blocks EXCEPT ![h] = c.blocks[h] + (- n)]
  BY <1>1 DEF CountsType
<1>4. WithoutMemories(c, v, sizes) =
        [c EXCEPT !.bytes = [c.bytes EXCEPT ![h] = c.bytes[h] + (- sum)],
                  !.blocks = [c.blocks EXCEPT ![h] = c.blocks[h] + (- n)],
                  !.memories = c.memories + (- n)]
  BY <1>1, <1>2, <1>3
<1>. QED BY <1>1, <1>4, MemoryMoved DEF sum, n, h

LEMMA AllocationCounted ==
  ASSUME NEW c \in CountsType, NEW v, NEW size \in Int
  PROVE  LET d == WithAllocation(c, v, size)
         IN  d \in CountsType /\ AllocationsBy(c, d, v, size, 1) /\ SameMemory(c, d)
<1>1. WithAllocation(c, v, size) =
        [c EXCEPT !.allocBytes = [c.allocBytes EXCEPT ![HeapOf(v)] = c.allocBytes[HeapOf(v)] + size],
                  !.allocs = [c.allocs EXCEPT ![HeapOf(v)] = c.allocs[HeapOf(v)] + 1]]
  BY DEF WithAllocation, CountsType
<1>2. 1 \in Int
  OBVIOUS
<1>. QED BY <1>1, <1>2, AllocationsMoved

LEMMA AllocationUncounted ==
  ASSUME NEW c \in CountsType, NEW v, NEW size \in Int
  PROVE  LET d == WithoutAllocation(c, v, size)
         IN  d \in CountsType /\ AllocationsBy(c, d, v, - size, - 1) /\ SameMemory(c, d)
<1>. DEFINE h == HeapOf(v)
<1>1. - size \in Int /\ - 1 \in Int
  OBVIOUS
<1>2. WithoutAllocation(c, v, size) =
        [c EXCEPT !.allocBytes = [c.allocBytes EXCEPT ![h] = c.allocBytes[h] - size],
                  !.allocs = [c.allocs EXCEPT ![h] = c.allocs[h] - 1]]
  BY DEF WithoutAllocation, CountsType
<1>. HIDE DEF h
<1>3. /\ [c.allocBytes EXCEPT ![h] = c.allocBytes[h] - size] = [c.allocBytes EXCEPT ![h] = c.allocBytes[h] + (- size)]
      /\ [c.allocs EXCEPT ![h] = c.allocs[h] - 1] = [c.allocs EXCEPT ![h] = c.allocs[h] + (- 1)]
  BY DEF CountsType
<1>. QED BY <1>1, <1>2, <1>3, AllocationsMoved DEF h

-----------------------------------------------------------------------------
(* The memory as its owners know it                                          *)

VectorHas(v, m) == \E b \in Range(blocks[v]) : m = MemoryOf(b.id, b.size, v)
ThreadHas(t, m) ==
  Deletes(t) /\ m = MemoryOf(thread[t].block.id, thread[t].block.size, thread[t].vector)
HandleHas(h, m) ==
  h \in DedicatedHandles /\ m = MemoryOf(allocs[h].id, allocs[h].size, allocs[h].vector)

Has(m) ==
  \/ \E v \in Vectors : VectorHas(v, m)
  \/ \E t \in Threads : ThreadHas(t, m)
  \/ \E h \in Handles : HandleHas(h, m)

(* Memory is as large, and on the heap, as its owner takes it to be.          *)
Sized == (\A m \in memory : m.size \in Nat) /\ (\A m : Has(m) => m \in memory)

(* The counters of memory, and of allocations, are what there is.             *)
MemoryExact ==
  /\ counts.memories = Cardinality(memory)
  /\ \A p \in Heaps : /\ counts.bytes[p] = SumFunction([m \in MemoryOn(p) |-> m.size])
                      /\ counts.blocks[p] = Cardinality(MemoryOn(p))

AllocationsExact ==
  \A p \in Heaps :
    /\ counts.allocBytes[p] = SumFunction([h \in AllocationsOn(p) |-> allocs[h].size])
    /\ counts.allocs[p] = Cardinality(AllocationsOn(p))

BudgetInvariant == counts \in CountsType /\ Sized /\ MemoryExact /\ AllocationsExact

(* All memory is as its owner knows it.                                       *)
LEMMA MemoryHad ==
  ASSUME AllOwned, Sized, NEW m \in memory
  PROVE  Has(m)
<1>1. Owned(m.id)
  BY DEF AllOwned, Allotted
<1>2. PICK n : n.id = m.id /\ Has(n)
  <2>1. CASE \E v \in Vectors : VectorOwns(v, m.id)
    <3>0. PICK v \in Vectors : VectorOwns(v, m.id)
      BY <2>1
    <3>1. PICK b \in Range(blocks[v]) : b.id = m.id
      BY <3>0 DEF VectorOwns
    <3>2. MemoryOf(b.id, b.size, v).id = m.id /\ Has(MemoryOf(b.id, b.size, v))
      BY <3>1 DEF Has, VectorHas, MemoryOf
    <3>. QED BY <3>2
  <2>2. CASE \E t \in Threads : ThreadOwns(t, m.id)
    <3>1. PICK t \in Threads : Deletes(t) /\ thread[t].block.id = m.id
      BY <2>2 DEF ThreadOwns
    <3>. DEFINE n == MemoryOf(thread[t].block.id, thread[t].block.size, thread[t].vector)
    <3>2. n.id = m.id
      BY <3>1 DEF MemoryOf
    <3>3. Has(n)
      BY <3>1 DEF Has, ThreadHas
    <3>. QED BY <3>2, <3>3
  <2>3. CASE \E h \in Handles : HandleOwns(h, m.id)
    <3>1. PICK h \in Handles : h \in DedicatedHandles /\ allocs[h].id = m.id
      BY <2>3 DEF HandleOwns
    <3>. DEFINE n == MemoryOf(allocs[h].id, allocs[h].size, allocs[h].vector)
    <3>2. n.id = m.id
      BY <3>1 DEF MemoryOf
    <3>3. Has(n)
      BY <3>1 DEF Has, HandleHas
    <3>. QED BY <3>2, <3>3
  <2>. QED BY <1>1, <2>1, <2>2, <2>3 DEF Owned
<1>3. n = m
  BY <1>2 DEF Sized, AllOwned
<1>. QED BY <1>2, <1>3

(* New memory is as big as its owner asked, and what is left has its owner.   *)
LEMMA SizedStep ==
  ASSUME Sized, AllOwned, AllOwned',
         \/ memory' \subseteq memory /\ \A m : Has(m)' => Has(m)
         \/ \E id, v : \E size \in Nat :
              /\ memory' = memory \union {MemoryOf(id, size, v)}
              /\ \A m : Has(m)' => Has(m) \/ m = MemoryOf(id, size, v)
  PROVE  Sized'
<1>1. CASE memory' \subseteq memory /\ \A m : Has(m)' => Has(m)
  <2>1. ASSUME NEW m, Has(m)'
        PROVE  m \in memory'
    <3>1. Owned(m.id)'
      BY <2>1 DEF Has, Owned, VectorHas, ThreadHas, HandleHas, VectorOwns, ThreadOwns, HandleOwns, MemoryOf
    <3>2. PICK n \in memory' : n.id = m.id
      BY <3>1 DEF AllOwned, Allotted
    <3>3. m \in memory /\ n \in memory
      BY <1>1, <2>1 DEF Sized
    <3>4. m = n
      BY <3>2, <3>3 DEF AllOwned
    <3>. QED BY <3>4
  <2>. QED BY <1>1, <2>1 DEF Sized
<1>2. ASSUME NEW id, NEW v, NEW size \in Nat, memory' = memory \union {MemoryOf(id, size, v)},
             \A m : Has(m)' => Has(m) \/ m = MemoryOf(id, size, v)
      PROVE  Sized'
  <2>1. MemoryOf(id, size, v).size \in Nat
    BY DEF MemoryOf
  <2>2. \A m \in memory' : m.size \in Nat
    BY <1>2, <2>1 DEF Sized
  <2>3. \A m : Has(m)' => m \in memory'
    BY <1>2 DEF Sized
  <2>. QED BY <2>2, <2>3 DEF Sized
<1>. QED BY <1>1, <1>2

-----------------------------------------------------------------------------
(* Counters follow what there is.                                            *)

LEMMA MemoryFinite ==
  ASSUME Typed, Sized, NEW p
  PROVE  Sizing([m \in MemoryOn(p) |-> m.size]) /\ IsFiniteSet(MemoryOn(p))
<1>1. IsFiniteSet(MemoryOn(p))
  BY FS_Subset DEF Typed, MemoryOn
<1>. QED BY <1>1 DEF Sizing, Sized, MemoryOn

LEMMA MemoryExactKept ==
  ASSUME MemoryExact, UNCHANGED memory, SameMemory(counts, counts')
  PROVE  MemoryExact'
BY DEF MemoryExact, SameMemory, MemoryOn

LEMMA MemoryExactGained ==
  ASSUME Typed, Sized, MemoryExact, counts \in CountsType, NEW id, NEW size \in Nat, NEW v,
         MemoryAdded(id, size, v), MemoryBy(counts, counts', v, size, 1)
  PROVE  MemoryExact'
<1>. DEFINE new == MemoryOf(id, size, v)
<1>1. new \notin memory /\ memory' = memory \union {new} /\ new.heap = HeapOf(v) /\ new.size = size
  BY DEF MemoryAdded, Fresh, MemoryOf
<1>. HIDE DEF new
<1>2. counts'.memories = Cardinality(memory')
  <2>1. IsFiniteSet(memory)
    BY DEF Typed
  <2>2. Cardinality(memory') = Cardinality(memory) + 1
    BY <1>1, <2>1, FS_AddElement
  <2>3. counts'.memories = counts.memories + 1 /\ counts.memories = Cardinality(memory)
    BY DEF MemoryBy, MemoryExact
  <2>. QED BY <2>2, <2>3
<1>3. ASSUME NEW p \in Heaps
      PROVE  /\ counts'.bytes[p] = SumFunction([m \in MemoryOn(p)' |-> m.size])
             /\ counts'.blocks[p] = Cardinality(MemoryOn(p)')
  <2>. DEFINE f == [m \in MemoryOn(p)' |-> m.size]
              g == [m \in MemoryOn(p) |-> m.size]
  <2>0. /\ counts.bytes[p] = SumFunction(g) /\ counts.blocks[p] = Cardinality(MemoryOn(p))
        /\ counts.bytes[p] \in Int /\ counts.blocks[p] \in Int
    BY DEF MemoryExact, CountsType
  <2>1. CASE p = HeapOf(v)
    <3>1. MemoryOn(p)' = MemoryOn(p) \union {new} /\ new \notin MemoryOn(p)
      BY <1>1, <2>1 DEF MemoryOn
    <3>2. IsFiniteSet(MemoryOn(p)')
      BY <3>1, MemoryFinite, FS_AddElement
    <3>3. \A m \in MemoryOn(p)' : m.size \in Nat
      BY <1>1, <3>1 DEF Sized, MemoryOn
    <3>4. Sizing(f) /\ new \in DOMAIN f /\ DOMAIN g = DOMAIN f \ {new}
          /\ DOMAIN f = MemoryOn(p)' /\ DOMAIN g = MemoryOn(p)
          /\ \A m \in DOMAIN g : g[m] = f[m]
      BY <3>1, <3>2, <3>3 DEF Sizing
    <3>5. f[new] = size
      BY <1>1, <3>4
    <3>. HIDE DEF f, g
    <3>6. /\ SumFunction(f) = SumFunction(g) + size
          /\ Cardinality(MemoryOn(p)') = Cardinality(MemoryOn(p)) + 1
      BY <3>4, <3>5, SumMore
    <3>7. counts'.bytes[p] = counts.bytes[p] + size /\ counts'.blocks[p] = counts.blocks[p] + 1
      BY <2>1 DEF MemoryBy
    <3>. QED BY <2>0, <3>6, <3>7 DEF f
  <2>2. CASE p # HeapOf(v)
    <3>1. MemoryOn(p)' = MemoryOn(p)
      BY <1>1, <2>2 DEF MemoryOn
    <3>2. counts'.bytes[p] = counts.bytes[p] + 0 /\ counts'.blocks[p] = counts.blocks[p] + 0
      BY <2>2 DEF MemoryBy
    <3>. QED BY <2>0, <3>1, <3>2
  <2>. QED BY <2>1, <2>2
<1>. QED BY <1>2, <1>3 DEF MemoryExact

(* What is given back is counted by its sizes.                                *)
LEMMA MemoryExactLost ==
  ASSUME Typed, Sized, MemoryExact, counts \in CountsType, NEW v, NEW sizes \in Seq(Nat),
         NEW given \in [DOMAIN sizes -> memory],
         \A i, j \in DOMAIN sizes : given[i] = given[j] => i = j,
         \A i \in DOMAIN sizes : given[i].size = sizes[i] /\ given[i].heap = HeapOf(v),
         memory' = memory \ {given[i] : i \in DOMAIN sizes},
         MemoryBy(counts, counts', v, - SumFunction(sizes), - Len(sizes))
  PROVE  MemoryExact'
<1>. DEFINE old == {given[i] : i \in DOMAIN sizes}
            lost == [m \in old |-> m.size]
<1>1. old \subseteq memory /\ memory' = memory \ old /\ \A m \in old : m.heap = HeapOf(v)
  OBVIOUS
<1>2. IsFiniteSet(memory) /\ IsFiniteSet(old) /\ IsFiniteSet(memory') /\ IsFiniteSet(memory \ old)
  BY <1>1, FS_Subset DEF Typed
<1>3. Sizing(lost)
  BY <1>1, <1>2 DEF Sizing, Sized
<1>4. SumFunction(sizes) = SumFunction(lost) /\ SumFunction(lost) \in Nat
  <2>1. given \in [DOMAIN sizes -> DOMAIN lost] /\ \A i \in DOMAIN sizes : sizes[i] = lost[given[i]]
    OBVIOUS
  <2>2. \A m \in DOMAIN lost : \E i \in DOMAIN sizes : given[i] = m
    OBVIOUS
  <2>. HIDE DEF lost, old
  <2>. QED BY <1>3, <2>1, <2>2, SumRenamed, SumIsCount
<1>5. Len(sizes) = Cardinality(old)
  <2>1. DOMAIN sizes = 1 .. Len(sizes) /\ Len(sizes) \in Nat
    OBVIOUS
  <2>2. given \in [1 .. Len(sizes) -> old] /\ \A m \in old : \E i \in 1 .. Len(sizes) : given[i] = m
    BY <2>1
  <2>. HIDE DEF old
  <2>. QED BY <1>2, <2>1, <2>2, Enumerated
<1>. HIDE DEF old
<1>6. counts'.memories = Cardinality(memory')
  <2>1. memory = memory' \union old /\ memory' \intersect old = {}
    BY <1>1
  <2>2. Cardinality(memory) = Cardinality(memory') + Cardinality(old)
    BY <1>2, <2>1, Together
  <2>3. Cardinality(memory') \in Nat /\ Cardinality(old) \in Nat
    BY <1>2, FS_CardinalityType
  <2>4. counts'.memories = counts.memories + (- Len(sizes)) /\ counts.memories = Cardinality(memory)
    BY DEF MemoryBy, MemoryExact
  <2>. QED BY <1>5, <2>2, <2>3, <2>4
<1>7. ASSUME NEW p \in Heaps
      PROVE  /\ counts'.bytes[p] = SumFunction([m \in MemoryOn(p)' |-> m.size])
             /\ counts'.blocks[p] = Cardinality(MemoryOn(p)')
  <2>. DEFINE f == [m \in MemoryOn(p) |-> m.size]
              g == [m \in MemoryOn(p)' |-> m.size]
  <2>0. /\ counts.bytes[p] = SumFunction(f) /\ counts.blocks[p] = Cardinality(MemoryOn(p))
        /\ counts.bytes[p] \in Int /\ counts.blocks[p] \in Int
    BY DEF MemoryExact, CountsType
  <2>1. CASE p = HeapOf(v)
    <3>1. /\ MemoryOn(p) = MemoryOn(p)' \union old /\ MemoryOn(p)' \intersect old = {}
      BY <1>1, <2>1 DEF MemoryOn
    <3>2. IsFiniteSet(MemoryOn(p)') /\ Sizing(f)
      BY <3>1, MemoryFinite, FS_Subset
    <3>3. /\ DOMAIN f = DOMAIN g \union DOMAIN lost /\ DOMAIN g \intersect DOMAIN lost = {}
      BY <3>1
    <3>4. /\ \A m \in DOMAIN g : g[m] = f[m]
          /\ \A m \in DOMAIN lost : lost[m] = f[m]
      BY <3>1
    <3>. HIDE DEF f, g, lost
    <3>5. SumFunction(f) = SumFunction(g) + SumFunction(lost) /\ SumFunction(g) \in Nat
      BY <3>2, <3>3, <3>4, SumApart, SumIsCount
    <3>6. Cardinality(MemoryOn(p)) = Cardinality(MemoryOn(p)') + Cardinality(old)
      BY <1>2, <3>1, <3>2, Together
    <3>7. Cardinality(MemoryOn(p)') \in Nat /\ Cardinality(old) \in Nat
      BY <1>2, <3>2, FS_CardinalityType
    <3>8. /\ counts'.bytes[p] = counts.bytes[p] + (- SumFunction(sizes))
          /\ counts'.blocks[p] = counts.blocks[p] + (- Len(sizes))
      BY <2>1 DEF MemoryBy
    <3>. QED BY <1>4, <1>5, <2>0, <3>5, <3>6, <3>7, <3>8 DEF g
  <2>2. CASE p # HeapOf(v)
    <3>1. MemoryOn(p)' = MemoryOn(p)
      BY <1>1, <2>2 DEF MemoryOn
    <3>2. counts'.bytes[p] = counts.bytes[p] + 0 /\ counts'.blocks[p] = counts.blocks[p] + 0
      BY <2>2 DEF MemoryBy
    <3>. QED BY <2>0, <3>1, <3>2
  <2>. QED BY <2>1, <2>2
<1>. QED BY <1>6, <1>7 DEF MemoryExact

-----------------------------------------------------------------------------
(* The same of allocations                                                   *)

LEMMA AllocationsFinite ==
  ASSUME Typed, NEW p
  PROVE  /\ Sizing([h \in AllocationsOn(p) |-> allocs[h].size])
         /\ IsFiniteSet(AllocationsOn(p)) /\ IsFiniteSet(Live)
         /\ \A h \in Live : allocs[h].size \in Nat
<1>1. IsFiniteSet(Live)
  BY MemoryAssumption, FS_Subset DEF Live
<1>2. IsFiniteSet(AllocationsOn(p))
  BY <1>1, FS_Subset DEF AllocationsOn
<1>3. \A h \in Live : allocs[h].size \in Nat
  BY MemoryAssumption, LiveTyped DEF Allocations
<1>. QED BY <1>1, <1>2, <1>3 DEF Sizing, AllocationsOn

LEMMA AllocationsExactKept ==
  ASSUME AllocationsExact, Live' = Live, SameAllocations(counts, counts'),
         \A h \in Live : allocs'[h].vector = allocs[h].vector /\ allocs'[h].size = allocs[h].size
  PROVE  AllocationsExact'
<1>1. ASSUME NEW p \in Heaps
      PROVE  /\ AllocationsOn(p)' = AllocationsOn(p)
             /\ [h \in AllocationsOn(p)' |-> allocs'[h].size] = [h \in AllocationsOn(p) |-> allocs[h].size]
  BY DEF AllocationsOn
<1>. QED BY <1>1 DEF AllocationsExact, SameAllocations

(* An allocation more, and the others as they were                           *)
AllocationAdded(h) ==
  /\ h \notin Live /\ Live' = Live \union {h} /\ allocs'[h].size \in Nat
  /\ \A g \in Live : allocs'[g].vector = allocs[g].vector /\ allocs'[g].size = allocs[g].size

LEMMA AllocationsExactGained ==
  ASSUME Typed, AllocationsExact, counts \in CountsType, NEW h, AllocationAdded(h),
         AllocationsBy(counts, counts', allocs'[h].vector, allocs'[h].size, 1)
  PROVE  AllocationsExact'
<1>1. SUFFICES ASSUME NEW p \in Heaps
               PROVE  /\ counts'.allocBytes[p] = SumFunction([g \in AllocationsOn(p)' |-> allocs'[g].size])
                      /\ counts'.allocs[p] = Cardinality(AllocationsOn(p)')
  BY DEF AllocationsExact
<1>. DEFINE f == [g \in AllocationsOn(p)' |-> allocs'[g].size]
            e == [g \in AllocationsOn(p) |-> allocs[g].size]
<1>2. /\ counts.allocBytes[p] = SumFunction(e) /\ counts.allocs[p] = Cardinality(AllocationsOn(p))
      /\ counts.allocBytes[p] \in Int /\ counts.allocs[p] \in Int
  BY DEF AllocationsExact, CountsType
<1>3. CASE p = HeapOf(allocs'[h].vector)
  <2>1. AllocationsOn(p)' = AllocationsOn(p) \union {h} /\ h \notin AllocationsOn(p)
    BY <1>3 DEF AllocationsOn, AllocationAdded
  <2>2. IsFiniteSet(AllocationsOn(p)')
    BY <2>1, AllocationsFinite, FS_AddElement
  <2>3. \A g \in AllocationsOn(p)' : allocs'[g].size \in Nat
    BY <2>1, AllocationsFinite DEF AllocationsOn, AllocationAdded
  <2>4. /\ Sizing(f) /\ h \in DOMAIN f /\ DOMAIN e = DOMAIN f \ {h} /\ f[h] = allocs'[h].size
        /\ DOMAIN f = AllocationsOn(p)' /\ DOMAIN e = AllocationsOn(p)
    BY <2>1, <2>2, <2>3 DEF Sizing
  <2>5. \A g \in DOMAIN e : e[g] = f[g]
    BY <2>1 DEF AllocationsOn, AllocationAdded
  <2>. HIDE DEF f, e
  <2>8. SumFunction(f) = SumFunction(e) + f[h] /\ Cardinality(DOMAIN f) = Cardinality(DOMAIN e) + 1
    BY <2>4, <2>5, SumMore
  <2>6. /\ SumFunction(f) = SumFunction(e) + allocs'[h].size
        /\ Cardinality(AllocationsOn(p)') = Cardinality(AllocationsOn(p)) + 1
    BY <2>4, <2>8
  <2>7. /\ counts'.allocBytes[p] = counts.allocBytes[p] + allocs'[h].size
        /\ counts'.allocs[p] = counts.allocs[p] + 1
    BY <1>3 DEF AllocationsBy
  <2>. QED BY <1>2, <2>6, <2>7 DEF f
<1>4. CASE p # HeapOf(allocs'[h].vector)
  <2>1. AllocationsOn(p)' = AllocationsOn(p) /\ f = e
    BY <1>4 DEF AllocationsOn, AllocationAdded
  <2>2. counts'.allocBytes[p] = counts.allocBytes[p] + 0 /\ counts'.allocs[p] = counts.allocs[p] + 0
    BY <1>4 DEF AllocationsBy
  <2>. QED BY <1>2, <2>1, <2>2
<1>. QED BY <1>3, <1>4

LEMMA AllocationsExactLost ==
  ASSUME Typed, AllocationsExact, counts \in CountsType, NEW h \in Live, Live' = Live \ {h},
         \A g \in Live \ {h} : allocs'[g].vector = allocs[g].vector /\ allocs'[g].size = allocs[g].size,
         AllocationsBy(counts, counts', allocs[h].vector, - allocs[h].size, - 1)
  PROVE  AllocationsExact'
<1>1. SUFFICES ASSUME NEW p \in Heaps
               PROVE  /\ counts'.allocBytes[p] = SumFunction([g \in AllocationsOn(p)' |-> allocs'[g].size])
                      /\ counts'.allocs[p] = Cardinality(AllocationsOn(p)')
  BY DEF AllocationsExact
<1>. DEFINE f == [g \in AllocationsOn(p)' |-> allocs'[g].size]
            e == [g \in AllocationsOn(p) |-> allocs[g].size]
<1>2. /\ counts.allocBytes[p] = SumFunction(e) /\ counts.allocs[p] = Cardinality(AllocationsOn(p))
      /\ counts.allocBytes[p] \in Int /\ counts.allocs[p] \in Int
  BY DEF AllocationsExact, CountsType
<1>3. CASE p = HeapOf(allocs[h].vector)
  <2>1. AllocationsOn(p)' = AllocationsOn(p) \ {h} /\ h \in AllocationsOn(p)
    BY <1>3 DEF AllocationsOn
  <2>2. Sizing(e) /\ allocs[h].size \in Nat
    BY AllocationsFinite
  <2>4. /\ h \in DOMAIN e /\ DOMAIN f = DOMAIN e \ {h} /\ e[h] = allocs[h].size
        /\ DOMAIN f = AllocationsOn(p)' /\ DOMAIN e = AllocationsOn(p)
    BY <2>1
  <2>5. \A g \in DOMAIN f : f[g] = e[g]
    BY <2>1 DEF AllocationsOn
  <2>6. IsFiniteSet(AllocationsOn(p)')
    BY <2>1, AllocationsFinite, FS_Subset
  <2>7. Sizing(f)
    BY <2>2, <2>4, <2>5, <2>6 DEF Sizing
  <2>. HIDE DEF f, e
  <2>11. SumFunction(e) = SumFunction(f) + e[h] /\ Cardinality(DOMAIN e) = Cardinality(DOMAIN f) + 1
    BY <2>2, <2>4, <2>5, SumMore
  <2>8. /\ SumFunction(e) = SumFunction(f) + allocs[h].size
        /\ Cardinality(AllocationsOn(p)) = Cardinality(AllocationsOn(p)') + 1
    BY <2>4, <2>11
  <2>9. SumFunction(f) \in Nat /\ Cardinality(AllocationsOn(p)') \in Nat
    BY <2>6, <2>7, SumIsCount, FS_CardinalityType
  <2>10. /\ counts'.allocBytes[p] = counts.allocBytes[p] + (- allocs[h].size)
         /\ counts'.allocs[p] = counts.allocs[p] + (- 1)
    BY <1>3 DEF AllocationsBy
  <2>. QED BY <1>2, <2>2, <2>8, <2>9, <2>10 DEF f
<1>4. CASE p # HeapOf(allocs[h].vector)
  <2>1. AllocationsOn(p)' = AllocationsOn(p) /\ f = e
    BY <1>4 DEF AllocationsOn
  <2>2. counts'.allocBytes[p] = counts.allocBytes[p] + 0 /\ counts'.allocs[p] = counts.allocs[p] + 0
    BY <1>4 DEF AllocationsBy
  <2>. QED BY <1>2, <2>1, <2>2
<1>. QED BY <1>3, <1>4

-----------------------------------------------------------------------------
(* Each step keeps the budget.                                               *)

VectorsKeep == \A m : \A v \in Vectors : VectorHas(v, m)' => VectorHas(v, m)
ThreadsKeep == \A m : \A t \in Threads : ThreadHas(t, m)' => ThreadHas(t, m)
HandlesKeep == \A m : \A h \in Handles : HandleHas(h, m)' => HandleHas(h, m)

(* The allocation h, but for its mappings                                    *)
SameAllocation(h) ==
  /\ allocs'[h].vector = allocs[h].vector /\ allocs'[h].size = allocs[h].size
  /\ allocs'[h].id = allocs[h].id /\ allocs'[h].dedicated = allocs[h].dedicated

LEMMA HasKept ==
  ASSUME VectorsKeep, ThreadsKeep, HandlesKeep
  PROVE  \A m : Has(m)' => Has(m)
BY DEF Has, VectorsKeep, ThreadsKeep, HandlesKeep

LEMMA ReplacedKeeps ==
  ASSUME NEW v, NEW b, NEW c, BlockTo(v, b, c)
  PROVE  VectorsKeep
<1>1. ASSUME NEW m, NEW w \in Vectors, NEW x \in Range(blocks'[w]), m = MemoryOf(x.id, x.size, w)
      PROVE  \E y \in Range(blocks[w]) : m = MemoryOf(y.id, y.size, w)
  <2>1. CASE x \in Range(blocks[w])
    BY <1>1, <2>1
  <2>2. CASE x \notin Range(blocks[w])
    <3>1. w = v /\ x = c /\ b \in Range(blocks[w]) /\ c.id = b.id /\ c.size = b.size
      BY <2>2 DEF BlockTo, OtherVectors
    <3>. QED BY <1>1, <3>1
  <2>. QED BY <2>1, <2>2
<1>2. \A m : \A w \in Vectors : \A x \in Range(blocks'[w]) :
        m = MemoryOf(x.id, x.size, w) => VectorHas(w, m)
  BY <1>1 DEF VectorHas
<1>3. \A m : \A w \in Vectors :
        VectorHas(w, m)' <=> \E x \in Range(blocks'[w]) : m = MemoryOf(x.id, x.size, w)
  BY DEF VectorHas, MemoryOf
<1>. QED BY <1>2, <1>3 DEF VectorsKeep

LEMMA SameBlocksKeep ==
  ASSUME UNCHANGED blocks
  PROVE  VectorsKeep
BY DEF VectorsKeep, VectorHas, MemoryOf

LEMMA MovingKeeps ==
  ASSUME NEW t, NEW r, ThreadTo(t, r), r.pc # "delete"
  PROVE  ThreadsKeep
BY DEF ThreadTo, ThreadsKeep, ThreadHas, Deletes, MemoryOf

LEMMA SameAllocationsKeep ==
  ASSUME Live' \subseteq Live, \A h \in Live' : SameAllocation(h)
  PROVE  HandlesKeep
<1>1. ASSUME NEW h \in DedicatedHandles'
      PROVE  h \in DedicatedHandles /\ SameAllocation(h)
  BY DEF DedicatedHandles, SameAllocation
<1>. QED BY <1>1 DEF HandlesKeep, HandleHas, SameAllocation, MemoryOf

(* Nothing is made or given back.                                            *)
LEMMA QuietKeeps ==
  ASSUME MemoryInvariant, MemoryInvariant', BudgetInvariant, UNCHANGED <<memory, counts>>,
         Live' = Live, \A h \in Live : SameAllocation(h), VectorsKeep, ThreadsKeep
  PROVE  BudgetInvariant'
<1>1. \A m : Has(m)' => Has(m)
  BY SameAllocationsKeep, HasKept
<1>2. Sized'
  BY <1>1, SizedStep DEF MemoryInvariant, BudgetInvariant
<1>3. SameMemory(counts, counts') /\ SameAllocations(counts, counts')
  BY DEF SameMemory, SameAllocations
<1>4. MemoryExact'
  BY <1>3, MemoryExactKept DEF BudgetInvariant
<1>5. AllocationsExact'
  BY <1>3, AllocationsExactKept DEF BudgetInvariant, SameAllocation
<1>6. (counts \in CountsType)'
  BY DEF BudgetInvariant, CountsType
<1>. QED BY <1>2, <1>4, <1>5, <1>6 DEF BudgetInvariant

LEMMA RequestCounted ==
  ASSUME MemoryInvariant, MemoryInvariant', BudgetInvariant, NEW t \in Threads, RequestStep(t)
  PROVE  BudgetInvariant'
<1>1. /\ \E r \in RequestType : ThreadTo(t, r) /\ r.pc # "delete"
      /\ UNCHANGED <<blocks, allocs, memory, counts>>
  BY DEF RequestStep, RequestType
<1>2. Live' = Live /\ \A h \in Live : SameAllocation(h)
  BY <1>1 DEF Live, SameAllocation
<1>3. VectorsKeep /\ ThreadsKeep
  BY <1>1, SameBlocksKeep, MovingKeeps
<1>. QED BY <1>1, <1>2, <1>3, QuietKeeps

LEMMA StutterCounted ==
  ASSUME MemoryInvariant, MemoryInvariant', BudgetInvariant,
         UNCHANGED <<blocks, allocs, thread, memory, counts>>
  PROVE  BudgetInvariant'
<1>2. Live' = Live /\ \A h \in Live : SameAllocation(h)
  BY DEF Live, SameAllocation
<1>3. VectorsKeep /\ ThreadsKeep
  BY SameBlocksKeep DEF ThreadsKeep, ThreadHas, Deletes, MemoryOf
<1>. QED BY <1>2, <1>3, QuietKeeps

LEMMA RemappedSame ==
  ASSUME MemoryInvariant, NEW h \in Live, NEW n \in 0 .. 1, Remapped(h, n)
  PROVE  Live' = Live /\ (\A g \in Live : SameAllocation(g)) /\ VectorsKeep
<1>1. h \in Handles /\ allocs[h] \in Allocations /\ allocs[h] # None
  BY LiveTyped DEF MemoryInvariant
<1>. DEFINE to == [allocs[h] EXCEPT !.maps = n]
<1>2. to \in Allocations /\ to # None
  BY <1>1, MemoryAssumption DEF Allocations
<1>3. AllocTo(h, to)
  BY DEF Remapped, MapsTo
<1>4. to.vector = allocs[h].vector /\ to.size = allocs[h].size /\ to.id = allocs[h].id
      /\ to.dedicated = allocs[h].dedicated
  BY <1>1 DEF Allocations
<1>. HIDE DEF to
<1>5. Live' = Live /\ \A g \in Live : SameAllocation(g)
  BY <1>1, <1>2, <1>3, <1>4 DEF Live, AllocTo, SameAllocation
<1>6. VectorsKeep
  BY ReplacedKeeps, SameBlocksKeep DEF Remapped
<1>. QED BY <1>5, <1>6

LEMMA MappedNewCounted ==
  ASSUME MemoryInvariant, MemoryInvariant', BudgetInvariant, NEW t \in Threads, MappedNew(t)
  PROVE  BudgetInvariant'
<1>1. thread[t].handle \in Live
  BY DEF MappedNew, MemoryInvariant, Typed, ThreadTyped, InFlight, Live, Holding
<1>2. ThreadsKeep
  BY MovingKeeps, IdleTyped DEF MappedNew
<1>3. Live' = Live /\ (\A g \in Live : SameAllocation(g)) /\ VectorsKeep
  BY <1>1, RemappedSame DEF MappedNew
<1>4. UNCHANGED <<memory, counts>>
  BY DEF MappedNew
<1>. QED BY <1>2, <1>3, <1>4, QuietKeeps

LEMMA UnmapsCounted ==
  ASSUME MemoryInvariant, MemoryInvariant', BudgetInvariant, NEW t \in Threads, NEW h \in Handles,
         Unmaps(t, h)
  PROVE  BudgetInvariant'
<1>1. h \in Live /\ UNCHANGED <<memory, counts>>
  BY DEF Unmaps
<1>2. ThreadsKeep
  BY MovingKeeps DEF Unmaps
<1>3. Live' = Live /\ (\A g \in Live : SameAllocation(g)) /\ VectorsKeep
  <2>1. CASE allocs[h].kind = "device"
    <3>1. UNCHANGED <<allocs, blocks>>
      BY <2>1 DEF Unmaps
    <3>. QED BY <3>1, SameBlocksKeep DEF Live, SameAllocation
  <2>2. CASE allocs[h].kind # "device"
    <3>1. Remapped(h, 0)
      BY <2>2 DEF Unmaps
    <3>. QED BY <1>1, <3>1, RemappedSame
  <2>. QED BY <2>1, <2>2
<1>. QED BY <1>1, <1>2, <1>3, QuietKeeps

LEMMA BothCounted ==
  ASSUME NEW c \in CountsType, NEW v, NEW s \in Int, NEW n \in Int
  PROVE  LET d == WithAllocation(WithMemory(c, v, s), v, n)
         IN  d \in CountsType /\ MemoryBy(c, d, v, s, 1) /\ AllocationsBy(c, d, v, n, 1)
<1>. DEFINE b == WithMemory(c, v, s)
            d == WithAllocation(b, v, n)
<1>1. b \in CountsType /\ MemoryBy(c, b, v, s, 1) /\ SameAllocations(c, b)
  BY MemoryCounted
<1>. HIDE DEF b
<1>2. d \in CountsType /\ AllocationsBy(b, d, v, n, 1) /\ SameMemory(b, d)
  BY <1>1, AllocationCounted
<1>. HIDE DEF d
<1>3. MemoryBy(c, d, v, s, 1) /\ AllocationsBy(c, d, v, n, 1)
  BY <1>1, <1>2 DEF MemoryBy, AllocationsBy, SameMemory, SameAllocations
<1>. QED BY <1>2, <1>3 DEF b, d

LEMMA OneSize ==
  ASSUME NEW s \in Nat
  PROVE  <<s>> \in Seq(Nat) /\ DOMAIN <<s>> = {1} /\ SumFunction(<<s>>) \in Int /\ Len(<<s>>) = 1
<1>1. <<s>> \in Seq(Nat) /\ DOMAIN <<s>> = {1} /\ Len(<<s>>) = 1 /\ <<s>>[1] = s
  OBVIOUS
<1>2. IsFiniteSet({1})
  BY FS_Singleton
<1>. DEFINE f == <<s>>
<1>. HIDE DEF f
<1>3. DOMAIN f = {1} /\ f[1] = s
  BY <1>1 DEF f
<1>4. SumFunction(f) \in Nat
  BY <1>2, <1>3, SumIsCount DEF Sizing
<1>. QED BY <1>1, <1>4 DEF f

LEMMA BothUncounted ==
  ASSUME NEW c \in CountsType, NEW v, NEW s \in Nat
  PROVE  LET d == WithoutAllocation(WithoutMemory(c, v, s), v, s)
         IN  /\ d \in CountsType /\ AllocationsBy(c, d, v, - s, - 1)
             /\ MemoryBy(c, d, v, - SumFunction(<<s>>), - Len(<<s>>))
<1>. DEFINE sizes == <<s>>
            b == WithoutMemories(c, v, sizes)
            d == WithoutAllocation(b, v, s)
<1>0. SumFunction(sizes) \in Int /\ Len(sizes) \in Int
  BY OneSize
<1>. HIDE DEF sizes
<1>1. b \in CountsType /\ MemoryBy(c, b, v, - SumFunction(sizes), - Len(sizes)) /\ SameAllocations(c, b)
  BY <1>0, MemoriesUncounted
<1>. HIDE DEF b
<1>2. d \in CountsType /\ AllocationsBy(b, d, v, - s, - 1) /\ SameMemory(b, d)
  BY <1>1, AllocationUncounted
<1>. HIDE DEF d
<1>3. MemoryBy(c, d, v, - SumFunction(sizes), - Len(sizes)) /\ AllocationsBy(c, d, v, - s, - 1)
  BY <1>1, <1>2 DEF MemoryBy, AllocationsBy, SameMemory, SameAllocations
<1>. QED BY <1>2, <1>3 DEF b, d, sizes, WithoutMemory

(* What an answer adds, as a thread's request said                           *)
LEMMA AnsweredAdds ==
  ASSUME MemoryInvariant, NEW t \in Threads, Requesting(t), NEW dedicated \in BOOLEAN,
         NEW id \in 1 .. MaxMemoryCount, Answered(t, dedicated, id), died = "no", died' = "no"
  PROVE  LET h == thread[t].handle
         IN  /\ AllocationAdded(h) /\ ThreadsKeep /\ \A g \in Live : SameAllocation(g)
             /\ allocs'[h].vector = thread[t].vector /\ allocs'[h].size = thread[t].size
             /\ allocs'[h].id = id /\ allocs'[h].dedicated = dedicated /\ h \in Handles
             /\ thread[t].vector \in Vectors /\ thread[t].size \in Nat
<1>. DEFINE r == thread[t]  h == r.handle
<1>1. h \notin Live /\ Live' = Live \union {h}
  BY AnsweredKeeps
<1>2. r \in RequestType /\ h \in Handles /\ r.vector \in Vectors /\ r.size \in Nat
  BY MemoryAssumption, RequestsTyped DEF MemoryInvariant, RequestType
<1>3. AllocTo(h, NewAllocation(r, dedicated, id))
  BY DEF Answered
<1>4. /\ allocs'[h].vector = r.vector /\ allocs'[h].size = r.size
      /\ allocs'[h].id = id /\ allocs'[h].dedicated = dedicated
  BY <1>3 DEF AllocTo, NewAllocation
<1>5. \A g \in Live : SameAllocation(g)
  BY <1>1, <1>3 DEF AllocTo, SameAllocation, Live
<1>6. ThreadsKeep
  <2>1. \E q : ThreadTo(t, q) /\ q.pc # "delete"
    BY IdleTyped DEF Answered
  <2>. QED BY <2>1, MovingKeeps
<1>7. AllocationAdded(h)
  BY <1>1, <1>2, <1>4, <1>5 DEF AllocationAdded, SameAllocation
<1>. QED BY <1>2, <1>4, <1>5, <1>6, <1>7

LEMMA DedicatedCounted ==
  ASSUME MemoryInvariant, MemoryInvariant', BudgetInvariant, died = "no",
         NEW t \in Threads, DedicatedMade(t)
  PROVE  BudgetInvariant'
<1>. DEFINE r == thread[t]  h == r.handle  v == r.vector  size == r.size
<1>1. PICK id : Answered(t, TRUE, id) /\ MemoryAdded(id, size, v)
  BY DEF DedicatedMade
<1>2. /\ Requesting(t) /\ UNCHANGED blocks /\ died' = "no" /\ id \in 1 .. MaxMemoryCount
      /\ counts' = WithAllocation(WithMemory(counts, v, size), v, size)
  BY <1>1 DEF DedicatedMade, MemoryAdded, Fresh
<1>3. /\ AllocationAdded(h) /\ ThreadsKeep /\ \A g \in Live : SameAllocation(g)
      /\ allocs'[h].vector = v /\ allocs'[h].size = size
      /\ allocs'[h].id = id /\ h \in Handles /\ size \in Nat
  BY <1>1, <1>2, AnsweredAdds
<1>4. counts \in CountsType /\ size \in Int
  BY <1>3 DEF BudgetInvariant
<1>5. /\ counts' \in CountsType /\ MemoryBy(counts, counts', v, size, 1)
      /\ AllocationsBy(counts, counts', v, size, 1)
  BY <1>2, <1>4, BothCounted
<1>6. MemoryExact'
  BY <1>1, <1>3, <1>4, <1>5, MemoryExactGained DEF MemoryInvariant, BudgetInvariant
<1>7. AllocationsExact'
  <2>1. AllocationsBy(counts, counts', allocs'[h].vector, allocs'[h].size, 1)
    BY <1>3, <1>5
  <2>. QED BY <1>3, <1>4, <2>1, AllocationsExactGained DEF MemoryInvariant, BudgetInvariant
<1>8. Sized'
  <2>1. VectorsKeep
    BY <1>2, SameBlocksKeep
  <2>2. \A m : Has(m)' => Has(m) \/ m = MemoryOf(id, size, v)
    <3>1. \A m : \A g \in Handles : HandleHas(g, m)' => HandleHas(g, m) \/ m = MemoryOf(id, size, v)
      <4>1. ASSUME NEW g \in DedicatedHandles'
            PROVE  (g \in DedicatedHandles /\ SameAllocation(g)) \/ g = h
        BY <1>3 DEF DedicatedHandles, AllocationAdded, SameAllocation
      <4>. QED BY <1>3, <4>1 DEF HandleHas, SameAllocation, MemoryOf
    <3>. QED BY <1>3, <2>1, <3>1 DEF Has, VectorsKeep, ThreadsKeep
  <2>3. memory' = memory \union {MemoryOf(id, size, v)}
    BY <1>1 DEF MemoryAdded
  <2>. QED BY <1>3, <2>2, <2>3, SizedStep DEF MemoryInvariant, BudgetInvariant
<1>. QED BY <1>5, <1>6, <1>7, <1>8 DEF BudgetInvariant

LEMMA OtherHandlesKeep ==
  ASSUME \A g \in DedicatedHandles' : g \in DedicatedHandles /\ SameAllocation(g)
  PROVE  HandlesKeep
BY DEF HandlesKeep, HandleHas, SameAllocation, MemoryOf

LEMMA PlacedInBlockCounted ==
  ASSUME MemoryInvariant, MemoryInvariant', BudgetInvariant, died = "no",
         NEW t \in Threads, PlacedInBlock(t)
  PROVE  BudgetInvariant'
<1>. DEFINE r == thread[t]  h == r.handle  v == r.vector  size == r.size
<1>1. PICK b, c : BlockTo(v, b, c) /\ Answered(t, FALSE, b.id)
  BY DEF PlacedInBlock
<1>2. /\ Requesting(t) /\ UNCHANGED memory /\ died' = "no"
      /\ counts' = WithAllocation(counts, v, size)
  BY DEF PlacedInBlock
<1>3. b.id \in 1 .. MaxMemoryCount
  <2>1. v \in Vectors
    BY <1>2, RequestsTyped DEF MemoryInvariant
  <2>. QED BY <1>1, <2>1, BlocksTyped DEF BlockTo, SoundBlocks, BlockType, MemoryInvariant
<1>4. /\ AllocationAdded(h) /\ ThreadsKeep /\ \A g \in Live : SameAllocation(g)
      /\ allocs'[h].vector = v /\ allocs'[h].size = size /\ ~ allocs'[h].dedicated
      /\ size \in Nat
  BY <1>1, <1>2, <1>3, AnsweredAdds
<1>5. counts \in CountsType /\ size \in Int
  BY <1>4 DEF BudgetInvariant
<1>6. /\ counts' \in CountsType /\ AllocationsBy(counts, counts', v, size, 1)
      /\ SameMemory(counts, counts')
  BY <1>2, <1>5, AllocationCounted
<1>7. MemoryExact'
  BY <1>2, <1>6, MemoryExactKept DEF BudgetInvariant
<1>8. AllocationsExact'
  <2>1. AllocationsBy(counts, counts', allocs'[h].vector, allocs'[h].size, 1)
    BY <1>4, <1>6
  <2>. QED BY <1>4, <1>5, <2>1, AllocationsExactGained DEF MemoryInvariant, BudgetInvariant
<1>9. Sized'
  <2>1. VectorsKeep
    BY <1>1, ReplacedKeeps
  <2>2. HandlesKeep
    <3>1. \A g \in DedicatedHandles' : g \in DedicatedHandles /\ SameAllocation(g)
      BY <1>4 DEF DedicatedHandles, AllocationAdded, SameAllocation
    <3>. QED BY <3>1, OtherHandlesKeep
  <2>3. \A m : Has(m)' => Has(m)
    BY <1>4, <2>1, <2>2, HasKept
  <2>. QED BY <1>2, <2>3, SizedStep DEF MemoryInvariant, BudgetInvariant
<1>. QED BY <1>6, <1>7, <1>8, <1>9 DEF BudgetInvariant

LEMMA PlacedInNewCounted ==
  ASSUME MemoryInvariant, MemoryInvariant', BudgetInvariant, died = "no",
         NEW t \in Threads, PlacedInNew(t)
  PROVE  BudgetInvariant'
<1>. DEFINE r == thread[t]  h == r.handle  v == r.vector  size == r.size
<1>1. PICK id, c : /\ BlockAdded(v, c) /\ c.id = id
                   /\ Answered(t, FALSE, id) /\ MemoryAdded(id, c.size, v)
                   /\ counts' = WithAllocation(WithMemory(counts, v, c.size), v, size)
  BY DEF PlacedInNew
<1>2. /\ Requesting(t) /\ died' = "no" /\ id \in 1 .. MaxMemoryCount
  BY <1>1 DEF PlacedInNew, MemoryAdded, Fresh
<1>3. c.size \in Nat /\ c.size \in Int
  BY <1>1, MemoryAssumption DEF BlockAdded, SoundBlocks, BlockType
<1>4. /\ AllocationAdded(h) /\ ThreadsKeep /\ \A g \in Live : SameAllocation(g)
      /\ allocs'[h].vector = v /\ allocs'[h].size = size /\ ~ allocs'[h].dedicated
      /\ size \in Nat
  BY <1>1, <1>2, AnsweredAdds
<1>5. counts \in CountsType /\ size \in Int
  BY <1>4 DEF BudgetInvariant
<1>6. /\ counts' \in CountsType /\ AllocationsBy(counts, counts', v, size, 1)
      /\ MemoryBy(counts, counts', v, c.size, 1)
  BY <1>1, <1>3, <1>5, BothCounted
<1>7. MemoryExact'
  BY <1>1, <1>3, <1>5, <1>6, MemoryExactGained DEF MemoryInvariant, BudgetInvariant
<1>8. AllocationsExact'
  <2>1. AllocationsBy(counts, counts', allocs'[h].vector, allocs'[h].size, 1)
    BY <1>4, <1>6
  <2>. QED BY <1>4, <1>5, <2>1, AllocationsExactGained DEF MemoryInvariant, BudgetInvariant
<1>9. Sized'
  <2>. DEFINE new == MemoryOf(id, c.size, v)
  <2>1. \A m : \A w \in Vectors : VectorHas(w, m)' => VectorHas(w, m) \/ m = new
    <3>1. ASSUME NEW m, NEW w \in Vectors, NEW x \in Range(blocks'[w]), m = MemoryOf(x.id, x.size, w)
          PROVE  VectorHas(w, m) \/ m = new
      <4>1. x \in Range(blocks[w]) \/ (x = c /\ w = v)
        BY <1>1 DEF BlockAdded, OtherVectors
      <4>. QED BY <1>1, <3>1, <4>1 DEF VectorHas
    <3>2. \A m : \A w \in Vectors :
            VectorHas(w, m)' <=> \E x \in Range(blocks'[w]) : m = MemoryOf(x.id, x.size, w)
      BY DEF VectorHas, MemoryOf
    <3>. HIDE DEF new
    <3>. QED BY <3>1, <3>2
  <2>2. HandlesKeep
    <3>1. \A g \in DedicatedHandles' : g \in DedicatedHandles /\ SameAllocation(g)
      BY <1>4 DEF DedicatedHandles, AllocationAdded, SameAllocation
    <3>. QED BY <3>1, OtherHandlesKeep
  <2>3. \A m : Has(m)' => Has(m) \/ m = new
    <3>. HIDE DEF new
    <3>. QED BY <1>4, <2>1, <2>2 DEF Has, ThreadsKeep, HandlesKeep
  <2>4. memory' = memory \union {new}
    BY <1>1 DEF MemoryAdded
  <2>. QED BY <1>3, <2>3, <2>4, SizedStep DEF MemoryInvariant, BudgetInvariant
<1>. QED BY <1>6, <1>7, <1>8, <1>9 DEF BudgetInvariant

(* What a free takes away                                                    *)
LEMMA FreesTakes ==
  ASSUME MemoryInvariant, died = "no", NEW t \in Threads, Frees(t), NEW r, ThreadTo(t, r),
         ThreadTyped(r), r.pc \in {"idle", "delete"}
  PROVE  LET h == thread[t].handle
         IN  /\ h \in Live /\ Live' = Live \ {h} /\ HandlesKeep
             /\ (\A g \in Live \ {h} : SameAllocation(g))
             /\ allocs[h].size \in Nat /\ allocs[h].vector \in Vectors
<1>. DEFINE h == thread[t].handle
<1>1. h \in Live /\ Live' = Live \ {h} /\ \A g \in Handles \ {h} : allocs'[g] = allocs[g]
  BY FreesKeeps
<1>2. \A g \in Live \ {h} : SameAllocation(g)
  BY <1>1 DEF Live, SameAllocation
<1>3. HandlesKeep
  BY <1>1, <1>2, SameAllocationsKeep
<1>4. allocs[h].size \in Nat /\ allocs[h].vector \in Vectors
  BY <1>1, MemoryAssumption, LiveTyped DEF MemoryInvariant, Allocations
<1>. QED BY <1>1, <1>2, <1>3, <1>4

LEMMA FreedInBlockCounted ==
  ASSUME MemoryInvariant, MemoryInvariant', BudgetInvariant, died = "no",
         NEW t \in Threads, FreedInBlock(t)
  PROVE  BudgetInvariant'
<1>. DEFINE h == thread[t].handle  v == allocs[h].vector  size == allocs[h].size
<1>1. /\ Frees(t) /\ ThreadTo(t, Idle) /\ UNCHANGED memory
      /\ counts' = WithoutAllocation(counts, v, size)
      /\ \E b, c : BlockTo(v, b, c)
  BY DEF FreedInBlock
<1>2. /\ h \in Live /\ Live' = Live \ {h} /\ HandlesKeep
      /\ (\A g \in Live \ {h} : SameAllocation(g)) /\ size \in Nat
  BY <1>1, IdleTyped, FreesTakes
<1>3. counts \in CountsType /\ size \in Int
  BY <1>2 DEF BudgetInvariant
<1>4. /\ counts' \in CountsType /\ AllocationsBy(counts, counts', v, - size, - 1)
      /\ SameMemory(counts, counts')
  BY <1>1, <1>3, AllocationUncounted
<1>5. MemoryExact'
  BY <1>1, <1>4, MemoryExactKept DEF BudgetInvariant
<1>6. AllocationsExact'
  BY <1>2, <1>3, <1>4, AllocationsExactLost DEF MemoryInvariant, BudgetInvariant, SameAllocation
<1>7. Sized'
  <2>1. VectorsKeep /\ ThreadsKeep
    BY <1>1, IdleTyped, ReplacedKeeps, MovingKeeps
  <2>2. \A m : Has(m)' => Has(m)
    BY <1>2, <2>1, HasKept
  <2>. QED BY <1>1, <2>2, SizedStep DEF MemoryInvariant, BudgetInvariant
<1>. QED BY <1>4, <1>5, <1>6, <1>7 DEF BudgetInvariant

LEMMA FreedAndRemovedCounted ==
  ASSUME MemoryInvariant, MemoryInvariant', BudgetInvariant, died = "no",
         NEW t \in Threads, FreedAndRemoved(t)
  PROVE  BudgetInvariant'
<1>. DEFINE h == thread[t].handle  v == allocs[h].vector  size == allocs[h].size
            r(gone) == [pc |-> "delete", handle |-> None, vector |-> v, block |-> gone]
<1>1. /\ Frees(t) /\ UNCHANGED memory
      /\ counts' = WithoutAllocation(counts, v, size)
  BY DEF FreedAndRemoved
<1>2. PICK b, c, gone : BlockRemoved(v, b, c, gone) /\ ThreadTo(t, r(gone))
  BY DEF FreedAndRemoved
<1>3. /\ v \in Vectors /\ gone \in SoundBlocks
      /\ b \in Range(blocks[v]) /\ c.id = b.id /\ c.size = b.size
      /\ gone \in (Range(blocks[v]) \ {b}) \union {c}
      /\ Range(blocks'[v]) = ((Range(blocks[v]) \ {b}) \union {c}) \ {gone}
      /\ \A w \in Vectors \ {v} : blocks'[w] = blocks[w]
  <2>1. v \in Vectors
    BY <1>2 DEF BlockRemoved, OtherVectors
  <2>. QED BY <1>2, <2>1, BlocksTyped DEF BlockRemoved, OtherVectors, MemoryInvariant
<1>4. ThreadTyped(r(gone)) /\ r(gone).pc = "delete" /\ r(gone).block = gone /\ r(gone).vector = v
  BY <1>3 DEF ThreadTyped
<1>5. /\ h \in Live /\ Live' = Live \ {h} /\ HandlesKeep
      /\ (\A g \in Live \ {h} : SameAllocation(g)) /\ size \in Nat
  BY <1>1, <1>2, <1>4, FreesTakes
<1>6. counts \in CountsType /\ size \in Int
  BY <1>5 DEF BudgetInvariant
<1>7. /\ counts' \in CountsType /\ AllocationsBy(counts, counts', v, - size, - 1)
      /\ SameMemory(counts, counts')
  BY <1>1, <1>6, AllocationUncounted
<1>8. MemoryExact'
  BY <1>1, <1>7, MemoryExactKept DEF BudgetInvariant
<1>9. AllocationsExact'
  BY <1>5, <1>6, <1>7, AllocationsExactLost DEF MemoryInvariant, BudgetInvariant, SameAllocation
<1>10. ASSUME NEW x \in (Range(blocks[v]) \ {b}) \union {c}
       PROVE  VectorHas(v, MemoryOf(x.id, x.size, v))
  BY <1>3 DEF VectorHas
<1>11. VectorsKeep
  <2>1. ASSUME NEW m, NEW w \in Vectors, NEW x \in Range(blocks'[w]), m = MemoryOf(x.id, x.size, w)
        PROVE  VectorHas(w, m)
    <3>1. CASE w = v
      BY <1>3, <1>10, <2>1, <3>1
    <3>2. CASE w # v
      BY <1>3, <2>1, <3>2 DEF VectorHas
    <3>. QED BY <3>1, <3>2
  <2>2. \A m : \A w \in Vectors :
          VectorHas(w, m)' <=> \E x \in Range(blocks'[w]) : m = MemoryOf(x.id, x.size, w)
    BY DEF VectorHas, MemoryOf
  <2>. QED BY <2>1, <2>2 DEF VectorsKeep
<1>12. \A m : \A u \in Threads : ThreadHas(u, m)' => ThreadHas(u, m) \/ VectorHas(v, m)
  <2>1. ASSUME NEW u \in Threads, NEW m, ThreadHas(u, m)'
        PROVE  ThreadHas(u, m) \/ VectorHas(v, m)
    <3>1. CASE u = t
      <4>1. thread'[u] = r(gone)
        BY <1>2, <3>1 DEF ThreadTo
      <4>2. m = MemoryOf(gone.id, gone.size, v)
        BY <1>4, <2>1, <4>1 DEF ThreadHas, MemoryOf
      <4>. QED BY <1>3, <1>10, <4>2
    <3>2. CASE u # t
      <4>1. thread'[u] = thread[u]
        BY <1>2, <3>2 DEF ThreadTo
      <4>. QED BY <2>1, <4>1 DEF ThreadHas, Deletes, MemoryOf
    <3>. QED BY <3>1, <3>2
  <2>. QED BY <2>1
<1>13. Sized'
  <2>1. \A m : Has(m)' => Has(m)
    BY <1>3, <1>5, <1>11, <1>12 DEF Has, VectorsKeep, HandlesKeep
  <2>. QED BY <1>1, <2>1, SizedStep DEF MemoryInvariant, BudgetInvariant
<1>. QED BY <1>7, <1>8, <1>9, <1>13 DEF BudgetInvariant

(* One memory of which the owner knows the size is given back.                *)
LEMMA OneReturned ==
  ASSUME MemoryInvariant, BudgetInvariant, NEW id, NEW size \in Nat, NEW v,
         Has(MemoryOf(id, size, v)), MemoryReturned({id}),
         MemoryBy(counts, counts', v, - SumFunction(<<size>>), - Len(<<size>>))
  PROVE  MemoryExact'
<1>. DEFINE m == MemoryOf(id, size, v)
            sizes == <<size>>
            given == [i \in {1} |-> m]
<1>1. m \in memory /\ m.id = id /\ m.size = size /\ m.heap = HeapOf(v)
  BY DEF BudgetInvariant, Sized, MemoryOf
<1>2. memory' = memory \ {m}
  <2>1. \A n \in memory : n.id = id <=> n = m
    BY <1>1 DEF MemoryInvariant, AllOwned
  <2>. HIDE DEF m
  <2>. QED BY <2>1 DEF MemoryReturned
<1>3. sizes \in Seq(Nat) /\ DOMAIN sizes = {1} /\ sizes[1] = size
  BY OneSize
<1>. HIDE DEF m
<1>4. given \in [DOMAIN sizes -> memory] /\ {given[i] : i \in DOMAIN sizes} = {m} /\ given[1] = m
  BY <1>1, <1>3
<1>. HIDE DEF given
<1>5. /\ \A i, j \in DOMAIN sizes : given[i] = given[j] => i = j
      /\ \A i \in DOMAIN sizes : given[i].size = sizes[i] /\ given[i].heap = HeapOf(v)
  BY <1>1, <1>3, <1>4
<1>6. MemoryBy(counts, counts', v, - SumFunction(sizes), - Len(sizes))
  OBVIOUS
<1>. HIDE DEF sizes
<1>7. memory' = memory \ {given[i] : i \in DOMAIN sizes}
  BY <1>2, <1>4
<1>. QED BY <1>3, <1>4, <1>5, <1>6, <1>7, MemoryExactLost DEF MemoryInvariant, BudgetInvariant

LEMMA DedicatedFreedCounted ==
  ASSUME MemoryInvariant, MemoryInvariant', BudgetInvariant, died = "no",
         NEW t \in Threads, DedicatedFreed(t)
  PROVE  BudgetInvariant'
<1>. DEFINE h == thread[t].handle  a == allocs[h]
<1>1. /\ Frees(t) /\ ThreadTo(t, Idle) /\ UNCHANGED blocks /\ a.dedicated
      /\ MemoryReturned({a.id})
      /\ counts' = WithoutAllocation(WithoutMemory(counts, a.vector, a.size), a.vector, a.size)
  BY DEF DedicatedFreed
<1>2. /\ h \in Live /\ Live' = Live \ {h} /\ HandlesKeep
      /\ (\A g \in Live \ {h} : SameAllocation(g)) /\ a.size \in Nat
  BY <1>1, IdleTyped, FreesTakes
<1>3. counts \in CountsType
  BY DEF BudgetInvariant
<1>4. /\ counts' \in CountsType /\ AllocationsBy(counts, counts', a.vector, - a.size, - 1)
      /\ MemoryBy(counts, counts', a.vector, - SumFunction(<<a.size>>), - Len(<<a.size>>))
  BY <1>1, <1>2, <1>3, BothUncounted
<1>5. MemoryExact'
  <2>1. Has(MemoryOf(a.id, a.size, a.vector))
    BY <1>1, <1>2 DEF Has, HandleHas, DedicatedHandles, Live
  <2>. QED BY <1>1, <1>2, <1>4, <2>1, OneReturned
<1>6. AllocationsExact'
  BY <1>2, <1>3, <1>4, AllocationsExactLost DEF MemoryInvariant, BudgetInvariant, SameAllocation
<1>7. Sized'
  <2>1. VectorsKeep /\ ThreadsKeep
    BY <1>1, IdleTyped, SameBlocksKeep, MovingKeeps
  <2>2. \A m : Has(m)' => Has(m)
    BY <1>2, <2>1, HasKept
  <2>3. memory' \subseteq memory
    BY <1>1 DEF MemoryReturned
  <2>. QED BY <2>2, <2>3, SizedStep DEF MemoryInvariant, BudgetInvariant
<1>. QED BY <1>4, <1>5, <1>6, <1>7 DEF BudgetInvariant

LEMMA BlockDeletedCounted ==
  ASSUME MemoryInvariant, MemoryInvariant', BudgetInvariant, NEW t \in Threads, BlockDeleted(t)
  PROVE  BudgetInvariant'
<1>. DEFINE b == thread[t].block  v == thread[t].vector
<1>1. /\ Deletes(t) /\ ThreadTo(t, Idle) /\ UNCHANGED <<blocks, allocs>>
      /\ MemoryReturned({b.id})
      /\ counts' = WithoutMemories(counts, v, <<b.size>>)
  BY DEF BlockDeleted, WithoutMemory
<1>2. b.size \in Nat
  BY <1>1, MemoryAssumption DEF MemoryInvariant, Typed, ThreadTyped, Deletes, SoundBlocks, BlockType
<1>3. counts \in CountsType /\ SumFunction(<<b.size>>) \in Int /\ Len(<<b.size>>) \in Int
  BY <1>2, OneSize DEF BudgetInvariant
<1>4. /\ counts' \in CountsType /\ SameAllocations(counts, counts')
      /\ MemoryBy(counts, counts', v, - SumFunction(<<b.size>>), - Len(<<b.size>>))
  BY <1>1, <1>3, MemoriesUncounted
<1>5. MemoryExact'
  <2>1. Has(MemoryOf(b.id, b.size, v))
    BY <1>1 DEF Has, ThreadHas, ThreadTo
  <2>. QED BY <1>1, <1>2, <1>4, <2>1, OneReturned
<1>6. Live' = Live /\ \A h \in Live : SameAllocation(h)
  BY <1>1 DEF Live, SameAllocation
<1>7. AllocationsExact'
  BY <1>4, <1>6, AllocationsExactKept DEF BudgetInvariant, SameAllocation
<1>8. Sized'
  <2>1. VectorsKeep /\ ThreadsKeep /\ HandlesKeep
    BY <1>1, <1>6, IdleTyped, SameBlocksKeep, MovingKeeps, SameAllocationsKeep
  <2>2. \A m : Has(m)' => Has(m)
    BY <2>1, HasKept
  <2>3. memory' \subseteq memory
    BY <1>1 DEF MemoryReturned
  <2>. QED BY <2>2, <2>3, SizedStep DEF MemoryInvariant, BudgetInvariant
<1>. QED BY <1>4, <1>5, <1>7, <1>8 DEF BudgetInvariant

LEMMA PoolDestroyedCounted ==
  ASSUME MemoryInvariant, MemoryInvariant', BudgetInvariant, PoolDestroyed
  PROVE  BudgetInvariant'
<1>. DEFINE bs == blocks[0]
            sizes == [i \in DOMAIN bs |-> bs[i].size]
            given == [i \in DOMAIN bs |-> MemoryOf(bs[i].id, bs[i].size, 0)]
<1>1. /\ blocks' = [blocks EXCEPT ![0] = <<>>]
      /\ MemoryReturned({b.id : b \in Range(bs)})
      /\ counts' = WithoutMemories(counts, 0, sizes)
      /\ UNCHANGED <<allocs, thread>>
  BY DEF PoolDestroyed
<1>2. 0 \in Vectors
  BY MemoryAssumption DEF Vectors
<1>3. /\ bs \in Seq(SoundBlocks) /\ \A i \in DOMAIN bs : bs[i] \in Range(bs)
      /\ \A i \in DOMAIN bs : bs[i].size \in Nat
      /\ IdsDistinct(bs)
  <2>1. Typed /\ IdsDistinct(bs)
    BY <1>2 DEF MemoryInvariant, Located
  <2>2. bs \in Seq(SoundBlocks) /\ \A i \in DOMAIN bs : bs[i] \in SoundBlocks /\ bs[i] \in Range(bs)
    BY <1>2, <2>1, BlocksTyped
  <2>3. \A b \in SoundBlocks : b.size \in Nat
    BY MemoryAssumption DEF SoundBlocks, BlockType
  <2>. QED BY <2>1, <2>2, <2>3
<1>4. sizes \in Seq(Nat) /\ DOMAIN sizes = DOMAIN bs /\ \A i \in DOMAIN bs : sizes[i] = bs[i].size
  BY <1>3
<1>5. /\ given \in [DOMAIN sizes -> memory]
      /\ \A i \in DOMAIN sizes : /\ given[i].id = bs[i].id /\ given[i].size = sizes[i]
                                 /\ given[i].heap = HeapOf(0)
      /\ DOMAIN given = DOMAIN bs
  <2>1. \A i \in DOMAIN bs : Has(given[i])
    BY <1>2, <1>3 DEF Has, VectorHas
  <2>. QED BY <1>4, <2>1 DEF BudgetInvariant, Sized, MemoryOf
<1>6. /\ DOMAIN sizes = 1 .. Len(sizes) /\ Len(sizes) \in Nat /\ Len(sizes) \in Int
      /\ SumFunction(sizes) \in Int
  <2>. HIDE DEF sizes, given
  <2>. DEFINE D == DOMAIN sizes
  <2>1. D = 1 .. Len(sizes) /\ Len(sizes) \in Nat
    BY <1>4
  <2>2. IsFiniteSet(1 .. Len(sizes))
    BY <2>1, FS_Interval
  <2>3. \A i \in D : sizes[i] \in Nat
    BY <1>3, <1>4
  <2>4. Sizing(sizes)
    BY <2>1, <2>2, <2>3 DEF Sizing
  <2>. QED BY <2>1, <2>4, SumIsCount
<1>. HIDE DEF given, sizes
<1>7. counts \in CountsType
  BY DEF BudgetInvariant
<1>8. /\ counts' \in CountsType /\ SameAllocations(counts, counts')
      /\ MemoryBy(counts, counts', 0, - SumFunction(sizes), - Len(sizes))
  BY <1>1, <1>6, <1>7, MemoriesUncounted
<1>9. \A i, j \in DOMAIN sizes : given[i] = given[j] => i = j
  BY <1>3, <1>4, <1>5 DEF IdsDistinct
<1>10. memory' = memory \ {given[i] : i \in DOMAIN sizes}
  <2>1. ASSUME NEW m \in memory
        PROVE  m.id \in {b.id : b \in Range(bs)} <=> \E i \in DOMAIN sizes : m = given[i]
    <3>1. m.id \in {b.id : b \in Range(bs)} <=> \E i \in DOMAIN sizes : m.id = given[i].id
      BY <1>4, <1>5 DEF Range
    <3>2. \A i \in DOMAIN sizes : m.id = given[i].id <=> m = given[i]
      BY <1>5 DEF MemoryInvariant, AllOwned
    <3>. QED BY <3>1, <3>2
  <2>. QED BY <1>1, <2>1 DEF MemoryReturned
<1>11. MemoryExact'
  BY <1>4, <1>5, <1>7, <1>8, <1>9, <1>10, MemoryExactLost DEF MemoryInvariant, BudgetInvariant
<1>12. Live' = Live /\ \A h \in Live : SameAllocation(h)
  BY <1>1 DEF Live, SameAllocation
<1>13. AllocationsExact'
  BY <1>8, <1>12, AllocationsExactKept DEF BudgetInvariant, SameAllocation
<1>14. Sized'
  <2>1. VectorsKeep
    <3>1. \A w \in Vectors : Range(blocks'[w]) \subseteq Range(blocks[w])
      <4>1. blocks'[0] = <<>> /\ \A w \in Vectors \ {0} : blocks'[w] = blocks[w]
        BY <1>1, <1>2 DEF MemoryInvariant, Typed
      <4>2. Range(blocks'[0]) = {}
        BY <4>1 DEF Range
      <4>. QED BY <4>1, <4>2
    <3>. QED BY <3>1 DEF VectorsKeep, VectorHas, MemoryOf
  <2>2. ThreadsKeep /\ HandlesKeep
    BY <1>1, <1>12, SameAllocationsKeep DEF ThreadsKeep, ThreadHas, Deletes, MemoryOf
  <2>3. \A m : Has(m)' => Has(m)
    BY <2>1, <2>2, HasKept
  <2>4. memory' \subseteq memory
    BY <1>1 DEF MemoryReturned
  <2>. QED BY <2>3, <2>4, SizedStep DEF MemoryInvariant, BudgetInvariant
<1>. QED BY <1>8, <1>11, <1>13, <1>14 DEF BudgetInvariant

LEMMA InitCounted ==
  ASSUME MemoryInit
  PROVE  BudgetInvariant
<1>. DEFINE zero == [p \in Heaps |-> 0]
<1>1. /\ blocks = [v \in Vectors |-> <<>>] /\ allocs = [h \in Handles |-> None]
      /\ thread = [t \in Threads |-> Idle] /\ memory = {}
      /\ counts = [bytes |-> zero, blocks |-> zero, allocBytes |-> zero, allocs |-> zero,
                   memories |-> 0]
  BY DEF MemoryInit
<1>2. zero \in [Heaps -> Int] /\ \A p \in Heaps : zero[p] = 0
  OBVIOUS
<1>. HIDE DEF zero
<1>3. /\ counts \in CountsType /\ counts.memories = 0
      /\ counts.bytes = zero /\ counts.blocks = zero /\ counts.allocBytes = zero /\ counts.allocs = zero
  BY <1>1, <1>2 DEF CountsType
<1>4. Live = {} /\ \A p : AllocationsOn(p) = {} /\ MemoryOn(p) = {}
  BY <1>1 DEF Live, AllocationsOn, MemoryOn
<1>5. \A m : ~ Has(m)
  <2>1. \A v \in Vectors : Range(blocks[v]) = {}
    BY <1>1 DEF Range
  <2>2. \A t \in Threads : ~ Deletes(t)
    BY <1>1, IdleTyped DEF Deletes
  <2>. QED BY <1>4, <2>1, <2>2 DEF Has, VectorHas, ThreadHas, HandleHas, DedicatedHandles
<1>6. Sized
  BY <1>1, <1>5 DEF Sized
<1>7. Cardinality({}) = 0
  BY FS_EmptySet
<1>8. MemoryExact
  <2>1. \A p \in Heaps : SumFunction([m \in MemoryOn(p) |-> m.size]) = 0
    BY <1>4, SumOfNone
  <2>. QED BY <1>1, <1>2, <1>3, <1>4, <1>7, <2>1 DEF MemoryExact
<1>9. AllocationsExact
  <2>1. \A p \in Heaps : SumFunction([h \in AllocationsOn(p) |-> allocs[h].size]) = 0
    BY <1>4, SumOfNone
  <2>. QED BY <1>2, <1>3, <1>4, <1>7, <2>1 DEF AllocationsExact
<1>. QED BY <1>3, <1>6, <1>8, <1>9 DEF BudgetInvariant

LEMMA BudgetStep ==
  MemoryInvariant /\ MemoryInvariant' /\ BudgetInvariant /\ [MemoryNext]_memoryVars => BudgetInvariant'
<1>. SUFFICES ASSUME MemoryInvariant, MemoryInvariant', BudgetInvariant, [MemoryNext]_memoryVars
              PROVE  BudgetInvariant'
  OBVIOUS
<1>0. /\ Typed /\ InFlight /\ Trying /\ Located /\ MapsKept /\ Counted /\ AllOwned
  BY DEF MemoryInvariant
<1>1. ASSUME NEW t \in Threads, NEW kind \in Kinds, NEW size \in Sizes, NEW driver \in Dedications,
             NEW h \in Handles, Create(t, kind, size, driver, h)
      PROVE  BudgetInvariant'
  BY <1>0, <1>1, CreateEffect, RequestCounted, StutterCounted
<1>2. ASSUME NEW t \in Threads, NEW h \in Handles, Destroy(t, h) PROVE BudgetInvariant'
  BY <1>0, <1>2, DestroyEffect, UnmapsCounted
<1>3. ASSUME NEW t \in Threads, Dedicated(t) PROVE BudgetInvariant'
  <2>1. died = "no"
    BY <1>3 DEF Dedicated
  <2>. QED BY <1>0, <1>3, <2>1, DedicatedEffect, RequestCounted, DedicatedCounted
<1>4. ASSUME NEW t \in Threads, FromBlocks(t) PROVE BudgetInvariant'
  <2>1. died = "no"
    BY <1>4 DEF FromBlocks
  <2>. QED BY <1>0, <1>4, <2>1, FromBlocksEffect, RequestCounted, PlacedInBlockCounted, PlacedInNewCounted
<1>5. ASSUME NEW t \in Threads, MapNew(t) PROVE BudgetInvariant'
  BY <1>0, <1>5, MapNewEffect, MappedNewCounted, StutterCounted
<1>6. ASSUME NEW t \in Threads, FreeDedicated(t) PROVE BudgetInvariant'
  <2>1. died = "no"
    BY <1>6 DEF FreeDedicated
  <2>. QED BY <1>0, <1>6, <2>1, FreeDedicatedEffect, DedicatedFreedCounted
<1>7. ASSUME NEW t \in Threads, FreeInBlock(t) PROVE BudgetInvariant'
  <2>1. died = "no"
    BY <1>7 DEF FreeInBlock
  <2>. QED BY <1>0, <1>7, <2>1, FreeInBlockEffect, FreedInBlockCounted, FreedAndRemovedCounted
<1>8. ASSUME NEW t \in Threads, DeleteBlock(t) PROVE BudgetInvariant'
  BY <1>0, <1>8, DeleteBlockEffect, BlockDeletedCounted
<1>9. ASSUME NEW t \in Threads, DestroyPool(t) PROVE BudgetInvariant'
  BY <1>9, DestroyPoolEffect, PoolDestroyedCounted
<1>10. ASSUME UNCHANGED memoryVars PROVE BudgetInvariant'
  BY <1>10, StutterCounted DEF memoryVars
<1>11. ASSUME Stopped PROVE BudgetInvariant'
  BY <1>10, <1>11 DEF Stopped
<1>. QED
  BY <1>1, <1>2, <1>3, <1>4, <1>5, <1>6, <1>7, <1>8, <1>9, <1>10, <1>11 DEF MemoryNext

-----------------------------------------------------------------------------
(* What is found by walking everything                                       *)

(* The memory of the blocks of a vector, of dedicated allocations made for it, *)
(* and of blocks of a heap that threads are about to destroy                  *)
InBlocks(v) == {MemoryOf(b.id, b.size, v) : b \in Range(blocks[v])}
AloneFor(v) == {h \in DedicatedHandles : allocs[h].vector = v}
Alone(v) == {MemoryOf(allocs[h].id, allocs[h].size, v) : h \in AloneFor(v)}
Dooming(p) == {t \in Threads : thread[t].pc = "delete" /\ HeapOf(thread[t].vector) = p}
Doomed(p) ==
  {MemoryOf(thread[t].block.id, thread[t].block.size, thread[t].vector) : t \in Dooming(p)}

SizeOf(S) == SumFunction([m \in S |-> m.size])

LEMMA Recounted ==
  ASSUME NEW S, NEW T, NEW name \in [S -> T],
         \A x, y \in S : name[x] = name[y] => x = y, \A y \in T : \E x \in S : name[x] = y,
         NEW f, DOMAIN f = S, NEW g, DOMAIN g = T, Sizing(g), \A x \in S : f[x] = g[name[x]]
  PROVE  Cardinality(S) = Cardinality(T) /\ SumFunction(f) = SumFunction(g)
<1>1. IsFiniteSet(T)
  BY DEF Sizing
<1>2. Cardinality(S) = Cardinality(T)
  BY <1>1, Counting
<1>3. name \in [DOMAIN f -> DOMAIN g] /\ \A x \in DOMAIN f : f[x] = g[name[x]]
  OBVIOUS
<1>4. SumFunction(f) = SumFunction(g)
  BY <1>3, SumRenamed
<1>. QED BY <1>2, <1>4

LEMMA SomeMemory ==
  ASSUME Typed, Sized, NEW S \in SUBSET memory
  PROVE  /\ IsFiniteSet(S) /\ Sizing([m \in S |-> m.size])
         /\ Cardinality(S) \in Nat /\ SizeOf(S) \in Nat
<1>1. IsFiniteSet(S)
  BY FS_Subset DEF Typed
<1>. DEFINE f == [m \in S |-> m.size]
<1>2. Sizing(f)
  BY <1>1 DEF Sizing, Sized
<1>. HIDE DEF f
<1>3. SumFunction(f) \in Nat
  BY <1>2, SumIsCount
<1>. QED BY <1>1, <1>2, <1>3, FS_CardinalityType DEF f, SizeOf

LEMMA BlocksWalked ==
  ASSUME MemoryInvariant, Sized, NEW v \in Vectors
  PROVE  /\ InBlocks(v) \subseteq memory
         /\ VectorStatistics(v, "blocks") = Cardinality(InBlocks(v))
         /\ VectorStatistics(v, "bytes") = SizeOf(InBlocks(v))
<1>. DEFINE bs == blocks[v]
            S == DOMAIN bs
            T == InBlocks(v)
            name == [i \in S |-> MemoryOf(bs[i].id, bs[i].size, v)]
            f == [i \in S |-> bs[i].size]
            g == [m \in T |-> m.size]
<1>1. T \subseteq memory
  BY DEF Sized, Has, VectorHas, InBlocks
<1>2. Typed /\ IdsDistinct(bs)
  BY DEF MemoryInvariant, Located
<1>3. S = 1 .. Len(bs) /\ Len(bs) \in Nat /\ Cardinality(S) = Len(bs)
  <2>1. bs \in Seq(SoundBlocks)
    BY <1>2, BlocksTyped
  <2>2. S = 1 .. Len(bs) /\ Len(bs) \in Nat
    BY <2>1
  <2>. HIDE DEF S
  <2>. QED BY <2>2, FS_Interval
<1>4. Sizing(g)
  BY <1>1, <1>2, SomeMemory
<1>5. name \in [S -> T] /\ \A y \in T : \E i \in S : name[i] = y
  BY DEF InBlocks, Range
<1>6. \A i, j \in S : name[i] = name[j] => i = j
  BY <1>2 DEF IdsDistinct, MemoryOf
<1>7. \A i \in S : f[i] = g[name[i]]
  <2>1. \A i \in S : name[i].size = bs[i].size /\ name[i] \in T
    BY <1>5 DEF MemoryOf
  <2>. HIDE DEF name, T
  <2>. QED BY <2>1
<1>8. DOMAIN f = S /\ DOMAIN g = T
  OBVIOUS
<1>9. VectorStatistics(v, "blocks") = Len(bs) /\ VectorStatistics(v, "bytes") = SumFunction(f)
  BY DEF VectorStatistics
<1>10. SizeOf(T) = SumFunction(g)
  BY DEF SizeOf
<1>. HIDE DEF S, T, name, f, g
<1>11. Cardinality(S) = Cardinality(T) /\ SumFunction(f) = SumFunction(g)
  BY <1>4, <1>5, <1>6, <1>7, <1>8, Recounted
<1>. QED BY <1>1, <1>3, <1>9, <1>10, <1>11 DEF T

LEMMA AloneWalked ==
  ASSUME MemoryInvariant, Sized, NEW v \in Vectors
  PROVE  /\ Alone(v) \subseteq memory
         /\ DedicatedStatistics(v, "blocks") = Cardinality(Alone(v))
         /\ DedicatedStatistics(v, "bytes") = SizeOf(Alone(v))
<1>. DEFINE S == AloneFor(v)
            T == Alone(v)
            name == [h \in S |-> MemoryOf(allocs[h].id, allocs[h].size, v)]
            f == [h \in S |-> allocs[h].size]
            g == [m \in T |-> m.size]
<1>1. T \subseteq memory
  <2>1. \A h \in S : HandleHas(h, MemoryOf(allocs[h].id, allocs[h].size, v)) /\ h \in Handles
    BY DEF HandleHas, AloneFor, DedicatedHandles, Live
  <2>. QED BY <2>1 DEF Sized, Has, Alone
<1>2. Typed
  BY DEF MemoryInvariant
<1>4. Sizing(g)
  BY <1>1, <1>2, SomeMemory
<1>5. name \in [S -> T] /\ \A y \in T : \E h \in S : name[h] = y
  BY DEF Alone
<1>6. \A x, y \in S : name[x] = name[y] => x = y
  <2>1. \A h \in S : HandleOwns(h, name[h].id) /\ h \in Handles
    BY DEF AloneFor, HandleOwns, MemoryOf, DedicatedHandles, Live
  <2>. QED BY <2>1 DEF MemoryInvariant, OwnedOnce
<1>7. \A h \in S : f[h] = g[name[h]]
  <2>1. \A h \in S : name[h].size = allocs[h].size /\ name[h] \in T
    BY <1>5 DEF MemoryOf
  <2>. HIDE DEF name, T
  <2>. QED BY <2>1
<1>8. DOMAIN f = S /\ DOMAIN g = T
  OBVIOUS
<1>9. DedicatedStatistics(v, "blocks") = Cardinality(S) /\ DedicatedStatistics(v, "bytes") = SumFunction(f)
  BY DEF DedicatedStatistics, AloneFor
<1>10. SizeOf(T) = SumFunction(g)
  BY DEF SizeOf
<1>. HIDE DEF S, T, name, f, g
<1>11. Cardinality(S) = Cardinality(T) /\ SumFunction(f) = SumFunction(g)
  BY <1>4, <1>5, <1>6, <1>7, <1>8, Recounted
<1>. QED BY <1>1, <1>9, <1>10, <1>11 DEF T

LEMMA DoomedWalked ==
  ASSUME MemoryInvariant, Sized, NEW p
  PROVE  /\ Doomed(p) \subseteq memory
         /\ Cardinality(Dooming(p)) = Cardinality(Doomed(p))
         /\ SumFunction([t \in Dooming(p) |-> thread[t].block.size]) = SizeOf(Doomed(p))
<1>. DEFINE S == Dooming(p)
            T == Doomed(p)
            name == [t \in S |-> MemoryOf(thread[t].block.id, thread[t].block.size, thread[t].vector)]
            f == [t \in S |-> thread[t].block.size]
            g == [m \in T |-> m.size]
<1>1. T \subseteq memory
  BY DEF Sized, Has, ThreadHas, Deletes, Doomed, Dooming
<1>2. Typed
  BY DEF MemoryInvariant
<1>4. Sizing(g)
  BY <1>1, <1>2, SomeMemory
<1>5. name \in [S -> T] /\ \A y \in T : \E t \in S : name[t] = y
  BY DEF Doomed
<1>6. \A x, y \in S : name[x] = name[y] => x = y
  <2>1. \A t \in S : ThreadOwns(t, name[t].id) /\ t \in Threads
    BY DEF Dooming, ThreadOwns, Deletes, MemoryOf
  <2>. QED BY <2>1 DEF MemoryInvariant, OwnedOnce
<1>7. \A t \in S : f[t] = g[name[t]]
  <2>1. \A t \in S : name[t].size = thread[t].block.size /\ name[t] \in T
    BY <1>5 DEF MemoryOf
  <2>. HIDE DEF name, T
  <2>. QED BY <2>1
<1>8. DOMAIN f = S /\ DOMAIN g = T
  OBVIOUS
<1>10. SizeOf(T) = SumFunction(g)
  BY DEF SizeOf
<1>. HIDE DEF S, T, name, f, g
<1>11. Cardinality(S) = Cardinality(T) /\ SumFunction(f) = SumFunction(g)
  BY <1>4, <1>5, <1>6, <1>7, <1>8, Recounted
<1>. QED BY <1>1, <1>10, <1>11 DEF S, T, f

VectorsOn(p) == {v \in Vectors : HeapOf(v) = p}

LEMMA VectorsFinite ==
  ASSUME NEW p
  PROVE  IsFiniteSet(VectorsOn(p))
<1>1. Len(MemoryTypes) \in Nat
  BY MemoryAssumption
<1>2. IsFiniteSet(0 .. Len(MemoryTypes))
  BY <1>1, FS_Interval
<1>. QED BY <1>2, FS_Subset DEF VectorsOn, Vectors

(* No memory is found twice, as it has one owner.                            *)
LEMMA FoundOnce ==
  ASSUME MemoryInvariant
  PROVE  /\ \A v, w \in Vectors : v # w => InBlocks(v) \intersect InBlocks(w) = {}
         /\ \A v, w \in Vectors : v # w => Alone(v) \intersect Alone(w) = {}
         /\ \A v, w \in Vectors : InBlocks(v) \intersect Alone(w) = {}
         /\ \A v \in Vectors : \A p : InBlocks(v) \intersect Doomed(p) = {}
         /\ \A v \in Vectors : \A p : Alone(v) \intersect Doomed(p) = {}
<1>1. \A v \in Vectors : \A m \in InBlocks(v) : VectorOwns(v, m.id)
  BY DEF InBlocks, VectorOwns, MemoryOf
<1>2. \A v : \A m \in Alone(v) : \E h \in Handles : HandleOwns(h, m.id) /\ allocs[h].vector = v
  BY DEF Alone, AloneFor, HandleOwns, MemoryOf, DedicatedHandles, Live
<1>3. \A p : \A m \in Doomed(p) : \E t \in Threads : ThreadOwns(t, m.id)
  BY DEF Doomed, Dooming, ThreadOwns, Deletes, MemoryOf
<1>4. OwnedOnce
  BY DEF MemoryInvariant
<1>5. ASSUME NEW v \in Vectors, NEW w \in Vectors, v # w
      PROVE  InBlocks(v) \intersect InBlocks(w) = {}
  BY <1>1, <1>4, <1>5 DEF OwnedOnce
<1>6. ASSUME NEW v \in Vectors, NEW w \in Vectors, v # w
      PROVE  Alone(v) \intersect Alone(w) = {}
  BY <1>2, <1>4, <1>6 DEF OwnedOnce
<1>7. ASSUME NEW v \in Vectors, NEW w \in Vectors
      PROVE  InBlocks(v) \intersect Alone(w) = {}
  BY <1>1, <1>2, <1>4 DEF OwnedOnce
<1>8. ASSUME NEW v \in Vectors, NEW p
      PROVE  InBlocks(v) \intersect Doomed(p) = {}
  BY <1>1, <1>3, <1>4 DEF OwnedOnce
<1>9. ASSUME NEW v \in Vectors, NEW p
      PROVE  Alone(v) \intersect Doomed(p) = {}
  BY <1>2, <1>3, <1>4 DEF OwnedOnce
<1>. QED BY <1>5, <1>6, <1>7, <1>8, <1>9

(* The memory of a heap, by vector, and what threads are about to destroy     *)
Found(p) == [v \in VectorsOn(p) |-> InBlocks(v) \union Alone(v)]
FoundOn(p) == UNION {Found(p)[v] : v \in VectorsOn(p)}

LEMMA AllFound ==
  ASSUME MemoryInvariant, Sized, NEW p
  PROVE  MemoryOn(p) = FoundOn(p) \union Doomed(p) /\ FoundOn(p) \intersect Doomed(p) = {}
<1>1. ASSUME NEW m \in memory, m.heap = p
      PROVE  m \in FoundOn(p) \union Doomed(p)
  <2>1. Has(m)
    BY MemoryHad DEF MemoryInvariant
  <2>2. CASE \E v \in Vectors : VectorHas(v, m)
    <3>1. PICK v \in Vectors : m \in InBlocks(v)
      BY <2>2 DEF VectorHas, InBlocks
    <3>2. m.heap = HeapOf(v)
      BY <3>1 DEF InBlocks, MemoryOf
    <3>3. v \in VectorsOn(p) /\ m \in Found(p)[v]
      BY <1>1, <3>1, <3>2 DEF VectorsOn, Found
    <3>. QED BY <3>3 DEF FoundOn
  <2>3. CASE \E h \in Handles : HandleHas(h, m)
    <3>1. PICK h \in DedicatedHandles : m = MemoryOf(allocs[h].id, allocs[h].size, allocs[h].vector)
      BY <2>3 DEF HandleHas
    <3>. DEFINE v == allocs[h].vector
    <3>2. v \in Vectors
      BY LiveTyped DEF MemoryInvariant, DedicatedHandles
    <3>3. m \in Alone(v) /\ m.heap = HeapOf(v)
      BY <3>1 DEF Alone, AloneFor, MemoryOf
    <3>4. v \in VectorsOn(p) /\ m \in Found(p)[v]
      BY <1>1, <3>2, <3>3 DEF VectorsOn, Found
    <3>. QED BY <3>4 DEF FoundOn
  <2>4. CASE \E t \in Threads : ThreadHas(t, m)
    <3>1. PICK t \in Threads : /\ thread[t].pc = "delete"
                               /\ m = MemoryOf(thread[t].block.id, thread[t].block.size, thread[t].vector)
      BY <2>4 DEF ThreadHas, Deletes
    <3>2. HeapOf(thread[t].vector) = p
      BY <1>1, <3>1 DEF MemoryOf
    <3>. QED BY <3>1, <3>2 DEF Doomed, Dooming
  <2>. QED BY <2>1, <2>2, <2>3, <2>4 DEF Has
<1>2. ASSUME NEW m \in FoundOn(p) \union Doomed(p)
      PROVE  m \in memory /\ m.heap = p
  <2>1. CASE m \in FoundOn(p)
    <3>1. PICK v \in VectorsOn(p) : m \in InBlocks(v) \union Alone(v)
      BY <2>1 DEF FoundOn, Found
    <3>2. v \in Vectors /\ HeapOf(v) = p
      BY DEF VectorsOn
    <3>3. m \in memory
      BY <3>1, <3>2, BlocksWalked, AloneWalked
    <3>. QED BY <3>1, <3>2, <3>3 DEF InBlocks, Alone, MemoryOf
  <2>2. CASE m \in Doomed(p)
    <3>1. m \in memory
      BY <2>2, DoomedWalked
    <3>. QED BY <2>2, <3>1 DEF Doomed, Dooming, MemoryOf
  <2>. QED BY <2>1, <2>2
<1>3. FoundOn(p) \intersect Doomed(p) = {}
  BY FoundOnce DEF FoundOn, Found, VectorsOn
<1>. QED BY <1>1, <1>2, <1>3 DEF MemoryOn

(* The statistics of memory, walked                                          *)
LEMMA MemoryWalked ==
  ASSUME MemoryInvariant, Sized, NEW p
  PROVE  /\ CalculateStatistics(p).blocks = Cardinality(FoundOn(p))
         /\ CalculateStatistics(p).bytes = SizeOf(FoundOn(p))
         /\ FoundOn(p) \subseteq memory
<1>. DEFINE V == VectorsOn(p)  F == Found(p)
            some == [v \in V |-> VectorStatistics(v, "blocks") + DedicatedStatistics(v, "blocks")]
            bytes == [v \in V |-> VectorStatistics(v, "bytes") + DedicatedStatistics(v, "bytes")]
            g == [m \in FoundOn(p) |-> m.size]
<1>0. Typed
  BY DEF MemoryInvariant
<1>1. CalculateStatistics(p).blocks = SumFunction(some) /\ CalculateStatistics(p).bytes = SumFunction(bytes)
  BY DEF CalculateStatistics, VectorsOn
<1>2. ASSUME NEW v \in V
      PROVE  /\ IsFiniteSet(F[v]) /\ F[v] \subseteq memory
             /\ some[v] = Cardinality(F[v]) /\ bytes[v] = SizeOf(F[v])
  <2>1. v \in Vectors /\ F[v] = InBlocks(v) \union Alone(v)
    BY DEF VectorsOn, Found
  <2>. HIDE DEF F
  <2>2. F[v] \subseteq memory /\ InBlocks(v) \subseteq memory /\ Alone(v) \subseteq memory
    BY <2>1, BlocksWalked, AloneWalked
  <2>3. /\ IsFiniteSet(F[v]) /\ IsFiniteSet(InBlocks(v)) /\ IsFiniteSet(Alone(v))
    BY <1>0, <2>2, SomeMemory
  <2>4. InBlocks(v) \intersect Alone(v) = {}
    BY <2>1, FoundOnce
  <2>5. Cardinality(F[v]) = Cardinality(InBlocks(v)) + Cardinality(Alone(v))
    BY <2>1, <2>3, <2>4, Together
  <2>6. SizeOf(F[v]) = SizeOf(InBlocks(v)) + SizeOf(Alone(v))
    <3>. DEFINE whole == [m \in F[v] |-> m.size]
                ins == [m \in InBlocks(v) |-> m.size]
                out == [m \in Alone(v) |-> m.size]
    <3>1. Sizing(whole)
      BY <1>0, <2>2, SomeMemory
    <3>2. /\ DOMAIN whole = DOMAIN ins \union DOMAIN out /\ DOMAIN ins \intersect DOMAIN out = {}
          /\ \A m \in DOMAIN ins : ins[m] = whole[m]
          /\ \A m \in DOMAIN out : out[m] = whole[m]
      BY <2>1, <2>4
    <3>. HIDE DEF whole, ins, out
    <3>3. SumFunction(whole) = SumFunction(ins) + SumFunction(out)
      BY <3>1, <3>2, SumApart
    <3>. QED BY <3>3 DEF whole, ins, out, SizeOf
  <2>7. /\ VectorStatistics(v, "blocks") = Cardinality(InBlocks(v))
        /\ VectorStatistics(v, "bytes") = SizeOf(InBlocks(v))
        /\ DedicatedStatistics(v, "blocks") = Cardinality(Alone(v))
        /\ DedicatedStatistics(v, "bytes") = SizeOf(Alone(v))
    BY <2>1, BlocksWalked, AloneWalked
  <2>8. /\ some[v] = VectorStatistics(v, "blocks") + DedicatedStatistics(v, "blocks")
        /\ bytes[v] = VectorStatistics(v, "bytes") + DedicatedStatistics(v, "bytes")
    OBVIOUS
  <2>. HIDE DEF some, bytes
  <2>. QED BY <2>2, <2>3, <2>5, <2>6, <2>7, <2>8
<1>3. \A v, w \in V : v # w => F[v] \intersect F[w] = {}
  BY FoundOnce DEF VectorsOn, Found
<1>4. DOMAIN some = V /\ DOMAIN bytes = V /\ IsFiniteSet(V)
  BY VectorsFinite
<1>5. FoundOn(p) = UNION {F[v] : v \in V}
  BY DEF FoundOn
<1>6. FoundOn(p) \subseteq memory
  BY <1>2, <1>5
<1>7. Sizing(g) /\ DOMAIN g = UNION {F[v] : v \in V}
  BY <1>0, <1>5, <1>6, SomeMemory
<1>8. \A v \in V : bytes[v] = SumFunction([m \in F[v] |-> g[m]])
  <2>. TAKE v \in V
  <2>1. [m \in F[v] |-> g[m]] = [m \in F[v] |-> m.size]
    BY <1>5
  <2>. HIDE DEF bytes, F, V, g
  <2>. QED BY <1>2, <2>1 DEF SizeOf
<1>9. SizeOf(FoundOn(p)) = SumFunction(g)
  BY DEF SizeOf
<1>. HIDE DEF V, F, some, bytes, g
<1>10. Parting(V, F)
  BY <1>2, <1>3, <1>4 DEF Parting
<1>11. SumFunction(some) = Cardinality(UNION {F[v] : v \in V})
  BY <1>2, <1>4, <1>10, SumOfParts
<1>12. SumFunction(bytes) = SumFunction(g)
  BY <1>4, <1>7, <1>8, <1>10, SumOfSums
<1>. QED BY <1>1, <1>5, <1>6, <1>9, <1>11, <1>12

LEMMA MemoryAgrees ==
  ASSUME MemoryInvariant, BudgetInvariant, NEW p \in Heaps
  PROVE  LET walked == CalculateStatistics(p)
         IN  /\ counts.blocks[p] = walked.blocks + Cardinality(Dooming(p))
             /\ counts.bytes[p] =
                  walked.bytes + SumFunction([t \in Dooming(p) |-> thread[t].block.size])
<1>. DEFINE S == FoundOn(p)  T == Doomed(p)
            whole == [m \in MemoryOn(p) |-> m.size]
            ins == [m \in S |-> m.size]
            out == [m \in T |-> m.size]
<1>1. /\ counts.blocks[p] = Cardinality(MemoryOn(p)) /\ counts.bytes[p] = SumFunction(whole)
      /\ Typed /\ Sized
  BY DEF BudgetInvariant, MemoryExact, MemoryInvariant
<1>2. /\ CalculateStatistics(p).blocks = Cardinality(S) /\ CalculateStatistics(p).bytes = SumFunction(ins)
      /\ Cardinality(Dooming(p)) = Cardinality(T)
      /\ SumFunction([t \in Dooming(p) |-> thread[t].block.size]) = SumFunction(out)
      /\ S \subseteq memory /\ T \subseteq memory
  BY <1>1, MemoryWalked, DoomedWalked DEF SizeOf
<1>3. MemoryOn(p) = S \union T /\ S \intersect T = {}
  BY <1>1, AllFound
<1>4. IsFiniteSet(S) /\ IsFiniteSet(T) /\ Sizing(whole)
  BY <1>1, <1>2, SomeMemory, MemoryFinite
<1>5. /\ DOMAIN whole = DOMAIN ins \union DOMAIN out /\ DOMAIN ins \intersect DOMAIN out = {}
      /\ \A m \in DOMAIN ins : ins[m] = whole[m]
      /\ \A m \in DOMAIN out : out[m] = whole[m]
  BY <1>3
<1>. HIDE DEF S, T, whole, ins, out
<1>6. Cardinality(MemoryOn(p)) = Cardinality(S) + Cardinality(T)
  BY <1>3, <1>4, Together
<1>7. SumFunction(whole) = SumFunction(ins) + SumFunction(out)
  BY <1>4, <1>5, SumApart
<1>. QED BY <1>1, <1>2, <1>6, <1>7

(* The allocations made for a vector, in its blocks and alone                 *)
UsedIn(v) == UNION {b.used : b \in Range(blocks[v])}
MadeFor(v) == {h \in Live : allocs[h].vector = v}

LEMMA AllocationsFound ==
  ASSUME MemoryInvariant, NEW v \in Vectors
  PROVE  MadeFor(v) = UsedIn(v) \union AloneFor(v) /\ UsedIn(v) \intersect AloneFor(v) = {}
<1>1. ASSUME NEW h \in UsedIn(v)
      PROVE  h \in MadeFor(v) /\ ~ allocs[h].dedicated
  <2>1. PICK b \in Range(blocks[v]) : h \in b.used
    BY DEF UsedIn
  <2>. QED BY <2>1, OnlyLiveUsed DEF MemoryInvariant, MadeFor
<1>2. ASSUME NEW h \in MadeFor(v), ~ allocs[h].dedicated
      PROVE  h \in UsedIn(v)
  <2>1. PICK b \in Range(blocks[v]) : h \in b.used
    BY <1>2 DEF MadeFor, MemoryInvariant, Located
  <2>. QED BY <2>1 DEF UsedIn
<1>. QED BY <1>1, <1>2 DEF MadeFor, AloneFor, DedicatedHandles

LEMMA AllocationsAgree ==
  ASSUME MemoryInvariant, BudgetInvariant, NEW p \in Heaps
  PROVE  /\ counts.allocs[p] = CalculateStatistics(p).allocs
         /\ counts.allocBytes[p] = CalculateStatistics(p).allocBytes
<1>. DEFINE V == VectorsOn(p)
            F == [v \in V |-> MadeFor(v)]
            some == [v \in V |-> VectorStatistics(v, "allocs") + DedicatedStatistics(v, "allocs")]
            bytes == [v \in V |-> VectorStatistics(v, "allocBytes") + DedicatedStatistics(v, "allocBytes")]
            g == [h \in AllocationsOn(p) |-> allocs[h].size]
<1>0. /\ counts.allocs[p] = Cardinality(AllocationsOn(p)) /\ counts.allocBytes[p] = SumFunction(g)
      /\ Typed
  BY DEF BudgetInvariant, AllocationsExact, MemoryInvariant
<1>1. CalculateStatistics(p).allocs = SumFunction(some) /\ CalculateStatistics(p).allocBytes = SumFunction(bytes)
  BY DEF CalculateStatistics, VectorsOn
<1>2. Sizing(g) /\ IsFiniteSet(Live) /\ \A h \in Live : allocs[h].size \in Nat
  BY <1>0, AllocationsFinite
<1>3. ASSUME NEW v \in V
      PROVE  /\ IsFiniteSet(F[v]) /\ some[v] = Cardinality(F[v])
             /\ bytes[v] = SumFunction([h \in F[v] |-> g[h]])
  <2>1. v \in Vectors /\ HeapOf(v) = p /\ F[v] = MadeFor(v)
    BY DEF VectorsOn
  <2>2. /\ VectorStatistics(v, "allocs") = Cardinality(UsedIn(v))
        /\ VectorStatistics(v, "allocBytes") = SumFunction([h \in UsedIn(v) |-> allocs[h].size])
        /\ DedicatedStatistics(v, "allocs") = Cardinality(AloneFor(v))
        /\ DedicatedStatistics(v, "allocBytes") = SumFunction([h \in AloneFor(v) |-> allocs[h].size])
    BY DEF VectorStatistics, DedicatedStatistics, UsedIn, AloneFor
  <2>. DEFINE whole == [h \in MadeFor(v) |-> g[h]]
              ins == [h \in UsedIn(v) |-> allocs[h].size]
              out == [h \in AloneFor(v) |-> allocs[h].size]
  <2>3. /\ some[v] = Cardinality(UsedIn(v)) + Cardinality(AloneFor(v))
        /\ bytes[v] = SumFunction(ins) + SumFunction(out)
    <3>1. /\ some[v] = VectorStatistics(v, "allocs") + DedicatedStatistics(v, "allocs")
          /\ bytes[v] = VectorStatistics(v, "allocBytes") + DedicatedStatistics(v, "allocBytes")
      OBVIOUS
    <3>. HIDE DEF some, bytes
    <3>. QED BY <2>2, <3>1
  <2>4. \A h \in MadeFor(v) : h \in AllocationsOn(p) /\ whole[h] = allocs[h].size /\ whole[h] \in Nat
    BY <1>2, <2>1 DEF MadeFor, AllocationsOn
  <2>5. MadeFor(v) = UsedIn(v) \union AloneFor(v) /\ UsedIn(v) \intersect AloneFor(v) = {}
    BY <2>1, AllocationsFound
  <2>6. IsFiniteSet(MadeFor(v)) /\ IsFiniteSet(UsedIn(v)) /\ IsFiniteSet(AloneFor(v))
    <3>1. MadeFor(v) \subseteq Live
      BY DEF MadeFor
    <3>. QED BY <1>2, <2>5, <3>1, FS_Subset
  <2>7. Sizing(whole)
    BY <2>4, <2>6 DEF Sizing
  <2>8. /\ DOMAIN whole = DOMAIN ins \union DOMAIN out /\ DOMAIN ins \intersect DOMAIN out = {}
        /\ \A h \in DOMAIN ins : ins[h] = whole[h]
        /\ \A h \in DOMAIN out : out[h] = whole[h]
    BY <2>4, <2>5
  <2>9. [h \in F[v] |-> g[h]] = whole
    BY <2>1
  <2>. HIDE DEF whole, ins, out, F, some, bytes, g
  <2>10. Cardinality(MadeFor(v)) = Cardinality(UsedIn(v)) + Cardinality(AloneFor(v))
    BY <2>5, <2>6, Together
  <2>11. SumFunction(whole) = SumFunction(ins) + SumFunction(out)
    BY <2>7, <2>8, SumApart
  <2>. QED BY <2>1, <2>3, <2>6, <2>9, <2>10, <2>11
<1>4. \A v, w \in V : v # w => F[v] \intersect F[w] = {}
  BY DEF MadeFor
<1>5. DOMAIN some = V /\ DOMAIN bytes = V /\ IsFiniteSet(V)
  BY VectorsFinite
<1>6. AllocationsOn(p) = UNION {F[v] : v \in V}
  <2>1. \A h \in Live : allocs[h].vector \in Vectors
    BY <1>0, LiveTyped
  <2>2. \A h : h \in AllocationsOn(p) <=> \E v \in V : h \in MadeFor(v)
    BY <2>1 DEF AllocationsOn, VectorsOn, MadeFor
  <2>3. UNION {F[v] : v \in V} = UNION {MadeFor(v) : v \in V}
    OBVIOUS
  <2>. HIDE DEF V, F
  <2>. QED BY <2>2, <2>3
<1>7. DOMAIN g = UNION {F[v] : v \in V}
  BY <1>6
<1>. HIDE DEF V, F, some, bytes, g
<1>8. Parting(V, F)
  BY <1>3, <1>4, <1>5 DEF Parting
<1>11. \A v \in V : some[v] = Cardinality(F[v])
  BY <1>3
<1>9. SumFunction(some) = Cardinality(UNION {F[v] : v \in V})
  BY <1>5, <1>8, <1>11, SumOfParts
<1>10. SumFunction(bytes) = SumFunction(g)
  BY <1>2, <1>3, <1>5, <1>7, <1>8, SumOfSums
<1>. QED BY <1>0, <1>1, <1>6, <1>9, <1>10

LEMMA BudgetSound == MemoryInvariant /\ BudgetInvariant => BudgetExact
<1>. SUFFICES ASSUME MemoryInvariant, BudgetInvariant PROVE BudgetExact
  OBVIOUS
<1>1. CountersExact
  BY DEF BudgetInvariant, MemoryExact, AllocationsExact, CountersExact
<1>2. ASSUME NEW p \in Heaps
      PROVE  LET walked == CalculateStatistics(p)
                 doomed == {t \in Threads : thread[t].pc = "delete" /\ HeapOf(thread[t].vector) = p}
             IN  HeapStatistics(p) =
                   [walked EXCEPT !.blocks = @ + Cardinality(doomed),
                                  !.bytes = @ + SumFunction([t \in doomed |-> thread[t].block.size])]
  <2>. DEFINE walked == CalculateStatistics(p)
              there == Cardinality(Dooming(p))
              size == SumFunction([t \in Dooming(p) |-> thread[t].block.size])
  <2>1. /\ counts.blocks[p] = walked.blocks + there /\ counts.bytes[p] = walked.bytes + size
        /\ counts.allocs[p] = walked.allocs /\ counts.allocBytes[p] = walked.allocBytes
    BY MemoryAgrees, AllocationsAgree
  <2>2. walked = [field \in {"blocks", "bytes", "allocs", "allocBytes"} |-> walked[field]]
    BY DEF CalculateStatistics
  <2>. HIDE DEF walked, there, size
  <2>3. [walked EXCEPT !.blocks = walked.blocks + there, !.bytes = walked.bytes + size] =
          [blocks |-> counts.blocks[p], bytes |-> counts.bytes[p],
           allocs |-> counts.allocs[p], allocBytes |-> counts.allocBytes[p]]
    <3>. DEFINE to == [walked EXCEPT !.blocks = walked.blocks + there, !.bytes = walked.bytes + size]
    <3>1. /\ to = [field \in {"blocks", "bytes", "allocs", "allocBytes"} |-> to[field]]
          /\ to["blocks"] = walked["blocks"] + there /\ to["bytes"] = walked["bytes"] + size
          /\ to["allocs"] = walked["allocs"] /\ to["allocBytes"] = walked["allocBytes"]
      BY <2>2
    <3>. HIDE DEF to
    <3>2. /\ to["blocks"] = counts.blocks[p] /\ to["bytes"] = counts.bytes[p]
          /\ to["allocs"] = counts.allocs[p] /\ to["allocBytes"] = counts.allocBytes[p]
      BY <2>1, <3>1
    <3>3. to = [blocks |-> counts.blocks[p], bytes |-> counts.bytes[p],
                allocs |-> counts.allocs[p], allocBytes |-> counts.allocBytes[p]]
      BY <3>1, <3>2
    <3>. QED BY <3>3 DEF to
  <2>. QED BY <2>3 DEF HeapStatistics, walked, there, size, Dooming
<1>3. StatisticsAgree
  BY <1>2 DEF StatisticsAgree
<1>. QED BY <1>1, <1>3 DEF BudgetExact

(* AllocateVulkanMemory, FreeVulkanMemory, AddAllocation, RemoveAllocation: the *)
(* budget is what there is, and what CalculateStatistics finds by walking all   *)
(* blocks and dedicated allocations, whichever threads are in the middle of     *)
(* what.                                                                      *)
THEOREM BudgetAlwaysExact == MemorySpec => []BudgetExact
<1>1. MemoryInit => MemoryInvariant /\ BudgetInvariant
  BY InitInvariant, InitCounted
<1>2. MemoryInvariant /\ BudgetInvariant /\ [MemoryNext]_memoryVars => (MemoryInvariant /\ BudgetInvariant)'
  BY MemoryStep, BudgetStep
<1>. QED
  BY <1>1, <1>2, BudgetSound, PTL DEF MemorySpec
=============================================================================
