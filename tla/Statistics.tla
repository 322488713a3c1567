----------------------------- MODULE Statistics -----------------------------
(***************************************************************************)
(* vk_mem_alloc.h: what the two kinds of metadata say of themselves, their *)
(* own validation, their statistics and the map they print. All of it is   *)
(* read off the lists that Tlsf.tla and Linear.tla keep.                   *)
(***************************************************************************)
EXTENDS Linear, Tlsf

CONSTANT Whole     \* VK_WHOLE_SIZE

Less(x, y) == IF x = Whole THEN y ELSE IF y = Whole \/ x < y THEN x ELSE y

More(x, y) == IF x < y THEN y ELSE x

(* VmaClearDetailedStatistics *)
ClearedStatistics ==
  [allocs |-> 0, bytes |-> 0, least |-> Whole, most |-> 0,
   ranges |-> 0, leastRange |-> Whole, mostRange |-> 0]

(* VmaAddDetailedStatisticsAllocation *)
WithAllocated(s, size) ==
  [s EXCEPT !.allocs = @ + 1, !.bytes = @ + size,
            !.least = Less(@, size), !.most = More(@, size)]

(* VmaAddDetailedStatisticsUnusedRange *)
WithUnused(s, size) ==
  [s EXCEPT !.ranges = @ + 1, !.leastRange = Less(@, size), !.mostRange = More(@, size)]

Summed(map) ==
  FoldLeft(LAMBDA s, r : IF r.type = "free" THEN WithUnused(s, r.size) ELSE WithAllocated(s, r.size),
           ClearedStatistics, map)

-----------------------------------------------------------------------------
(* The linear metadata *)

(* Fault: two items that touch have an unused range between them. *)
GapOfNothing(from, to) ==
  IF from <= to THEN <<[at |-> from, size |-> to - from, type |-> "free"]>> ELSE <<>>

(* Every loop over a vector is this one: from where the walk stands up to     *)
(* the offset end, the items that are not null and the space before each.    *)
Gap(from, to) == IF from < to THEN <<[at |-> from, size |-> to - from, type |-> "free"]>> ELSE <<>>

WalkTo(w, items, end) ==
  LET Visit(v, item) ==
        IF v.last >= end \/ IsNull(item) THEN v
        ELSE [last |-> item.at + item.size, map |-> v.map \o Gap(v.last, item.at) \o <<item>>]
      v == FoldLeft(Visit, w, items)
  IN  IF v.last < end THEN [last |-> end, map |-> v.map \o Gap(v.last, end)] ELSE v

(* The ring's front part, the 1st vector, the upper stack from below; skip of *)
(* the items of the ring's front part are passed over.                       *)
Walked(l, skip) ==
  LET begun == [last |-> 0, map |-> <<>>]
      front == IF l.mode = "ring"
               THEN WalkTo(begun, WithoutFirst(l.second, skip), l.first[l.nullBegin + 1].at)
               ELSE begun
      middle == WalkTo(front, WithoutFirst(l.first, l.nullBegin),
                     IF l.mode = "double" THEN Last(l.second).at ELSE LinearSize)
  IN  IF l.mode = "double" THEN WalkTo(middle, Reverse(l.second), LinearSize) ELSE middle

(* AddDetailedStatistics *)
DetailedLinear(l) == Summed(Walked(l, 0).map)

(* AddStatistics: the count of null items in the 1st vector is taken for the  *)
(* place to begin at in the 2nd.                                             *)
CountedLinear(l) ==
  [allocs |-> Summed(Walked(l, l.nullBegin).map).allocs, bytes |-> LinearSize - l.sumFree]

(* PrintDetailedMap, first pass: what the header says *)
PrintedHeader(l) ==
  LET s == Summed(Walked(l, 0).map)
  IN  [unused |-> LinearSize - s.bytes, allocs |-> s.allocs, ranges |-> s.ranges]

(* PrintDetailedMap, second pass: every range by its offset *)
PrintedRanges(l) == Walked(l, 0).map

(* Validate *)
ValidLinear(l) ==
  LET ring == IF l.mode = "ring" THEN l.second ELSE <<>>
      upper == IF l.mode = "double" THEN Reverse(l.second) ELSE <<>>
      inOrder == ring \o WithoutFirst(l.first, l.nullBegin) \o upper
      Nulls(items) == Cardinality({i \in DOMAIN items : IsNull(items[i])})
      used == {i \in DOMAIN inOrder : ~ IsNull(inOrder[i])}
  IN  /\ l.second = <<>> <=> l.mode = "empty"
      /\ l.first # <<>> \/ l.second = <<>> \/ l.mode # "ring"
      /\ l.first # <<>> => ~ IsNull(l.first[l.nullBegin + 1]) /\ ~ IsNull(Last(l.first))
      /\ l.second # <<>> => ~ IsNull(Last(l.second))
      /\ l.nullBegin + l.nullMiddle <= Len(l.first)
      /\ l.nullSecond <= Len(l.second)
      /\ \A i \in 1 .. l.nullBegin : IsNull(l.first[i])
      /\ Nulls(l.first) = l.nullBegin + l.nullMiddle
      /\ Nulls(l.second) = l.nullSecond
      /\ \A i \in 1 .. Len(inOrder) - 1 :
           inOrder[i].at + inOrder[i].size <= inOrder[i + 1].at
      /\ EndOf(inOrder) <= LinearSize
      /\ l.sumFree = LinearSize - SumFunction([i \in used |-> inOrder[i].size])

-----------------------------------------------------------------------------
(* The TLSF metadata *)

NullSize(m) == m.blocks[NullIndex(m)].size

(* The physical blocks, with the null block only when there is any of it. *)
PhysicalBlocks(m) == SelectSeq(m.blocks, LAMBDA b : b.size > 0)

(* AddDetailedStatistics: from the null block back *)
DetailedTlsf(m) == Summed(Reverse(PhysicalBlocks(m)))

(* AddStatistics *)
CountedTlsf(m) == [allocs |-> m.allocCount, bytes |-> Total - (m.freeSize + NullSize(m))]

(* PrintDetailedMap: the blocks are put in order by counting back from        *)
(* m_AllocCount + m_BlocksFreeCount; nothing is printed if that is not how    *)
(* many there are.                                                           *)
PrintedTlsf(m) ==
  LET s == DetailedTlsf(m)
  IN  IF m.allocCount + m.freeCount # NullIndex(m) - 1 THEN {}
      ELSE {[unused |-> Total - s.bytes, allocs |-> s.allocs, ranges |-> s.ranges,
             map |-> PhysicalBlocks(m)]}

(* Validate: the null block counts as free, every other block is on the list   *)
(* for its size exactly when it is free, and pages are counted anew.          *)
ValidTlsf(m) ==
  LET physical == 1 .. NullIndex(m) - 1
      free == {k \in physical : IsFree(m.blocks[k])}
      used == physical \ free
      Sum(S) == SumFunction([k \in S |-> m.blocks[k].size]) + NullSize(m)
  IN  /\ m.freeSize + NullSize(m) <= Total
      /\ \A l \in DOMAIN m.lists : \A i \in DOMAIN m.lists[l] :
           IsFree(m.blocks[IndexAt(m, m.lists[l][i])])
      /\ \A k \in physical :
           /\ m.blocks[k].at + m.blocks[k].size = m.blocks[k + 1].at
           /\ IsFree(m.blocks[k]) <=> m.blocks[k].at \in ToSet(m.lists[ListOf(m.blocks[k].size)])
      /\ \A p \in DOMAIN m.pages :
           m.pages[p].count = Cardinality({k \in used :
             p \in Touched(m.blocks[k].at, m.blocks[k].size, granularity)})
      /\ m.blocks[1].at = 0
      /\ Sum(physical) = Total
      /\ Sum(free) = m.freeSize + NullSize(m)
      /\ Cardinality(used) = m.allocCount
      /\ Cardinality(free) = m.freeCount

-----------------------------------------------------------------------------
(* What the numbers ought to be, for ranges in a block of a size *)

FreeRanges(live, size) ==
  LET starts == {0} \union {r.at + r.size : r \in live}
      ends == {size} \union {r.at : r \in live}
  IN  {[at |-> f[1], size |-> f[2] - f[1], type |-> "free"] :
         f \in {g \in starts \X ends :
                 g[1] < g[2] /\ \A r \in live : r.at + r.size <= g[1] \/ g[2] <= r.at}}

StatisticsOf(live, size) ==
  LET Sizes(S) == {r.size : r \in S}
      Smallest(S) == IF S = {} THEN Whole ELSE CHOOSE x \in Sizes(S) : \A y \in Sizes(S) : x <= y
      Largest(S) == IF S = {} THEN 0 ELSE CHOOSE x \in Sizes(S) : \A y \in Sizes(S) : x >= y
      free == FreeRanges(live, size)
  IN  [allocs |-> Cardinality(live), bytes |-> FoldSet(LAMBDA r, sum : sum + r.size, 0, live),
       least |-> Smallest(live), most |-> Largest(live),
       ranges |-> Cardinality(free), leastRange |-> Smallest(free), mostRange |-> Largest(free)]

(* A printed map shows each allocation and each free range once, by offset. *)
Shows(map, live, size) ==
  /\ ToSet(map) = live \union FreeRanges(live, size)
  /\ \A i \in 1 .. Len(map) - 1 : map[i].at + map[i].size = map[i + 1].at

(* The code's own Validate never fails: the counts of null items are right,  *)
(* none is left where it can be dropped, the 2nd vector has a mode exactly   *)
(* when it has items, and the vectors with their null items are in order.    *)
(* (VMA_HEAVY_ASSERT(Validate()) after Alloc and Free)                       *)
LinearValid == ValidLinear(lin)

(* A linear block is what the code takes it for after every Alloc and Free:  *)
(* its vectors and counts are valid, every allocation can be found to be     *)
(* freed, and an empty block is as it began.                                 *)
LinearSound == LinearTypeOK /\ LinearValid /\ ItemsFound /\ EmptyIsFresh

(* The same of TLSF, whose pages are counted once for each allocation that    *)
(* starts or ends on one. (AllocPages, FreePages, FinishValidation)           *)
TlsfValid == ValidTlsf(meta)

(* A TLSF block after every Alloc, Free and Clear: it is typed and without   *)
(* gaps, its lists, bitmaps, pages and counters say the same as its blocks,  *)
(* no free neighbours stay apart, and what it refuses fits nowhere.          *)
TlsfSound == TlsfTypeOK /\ ListsExact /\ Coalesced /\ TlsfValid /\ RefusedOnlyIfFull

(* What a linear block says of itself agrees with its allocations, whichever  *)
(* of the vectors they are in and however many null items are between them:   *)
(* but the count of allocations that AddStatistics makes may be short for a   *)
(* ring buffer whose 1st vector begins with null items.                       *)
(* (AddDetailedStatistics, AddStatistics, PrintDetailedMap)                   *)
LinearStatisticsExact ==
  LET s == StatisticsOf(ItemsLive, LinearSize)
      counted == CountedLinear(lin)
  IN  /\ DetailedLinear(lin) = s
      /\ Shows(PrintedRanges(lin), ItemsLive, LinearSize)
      /\ PrintedHeader(lin) = [unused |-> LinearSize - s.bytes, allocs |-> s.allocs, ranges |-> s.ranges]
      /\ counted.bytes = s.bytes
      /\ counted.allocs <= s.allocs
      /\ counted.allocs = s.allocs \/ (lin.mode = "ring" /\ lin.nullBegin > 0)

(* What a TLSF block says of itself agrees with its allocations: its free      *)
(* blocks are all the space there is, none in two parts. (AddStatistics,       *)
(* AddDetailedStatistics, PrintDetailedMap)                                    *)
TlsfStatisticsExact ==
  LET live == {meta.blocks[k] : k \in {j \in DOMAIN meta.blocks : ~ IsFree(meta.blocks[j])}}
      s == StatisticsOf(live, Total)
  IN  /\ DetailedTlsf(meta) = s
      /\ CountedTlsf(meta) = [allocs |-> s.allocs, bytes |-> s.bytes]
      /\ \E printed \in PrintedTlsf(meta) :
           /\ Shows(printed.map, live, Total)
           /\ printed.allocs = s.allocs /\ printed.ranges = s.ranges
=============================================================================
