------------------------------- MODULE Linear -------------------------------
(***************************************************************************)
(* vk_mem_alloc.h, VmaBlockMetadata_Linear: the algorithm of the pool each *)
(* context has. Two vectors of allocations; a freed one in the middle stays*)
(* as a null item until the items around it go too. The 2nd vector is the  *)
(* front part of a ring buffer or the upper side of a double stack. The    *)
(* code swaps the two by an index; here they change places.                *)
(***************************************************************************)
EXTENDS Granularity, Sequences, FiniteSets, SequencesExt

CONSTANTS
  LinearSize,        \* size of the memory block
  Asked,             \* what is asked for: [size, align, type, upper]
  Pages,             \* what bufferImageGranularity may be
  CompactAbove,      \* the vector is compacted when longer than this (32)
  MaxItems,          \* bound on the live allocations
  UpperOnPages       \* the upper side may be used where pages matter

ASSUME LinearAssumption ==
  /\ LinearSize \in Nat \ {0}
  /\ Pages \subseteq Nat \ {0}
  /\ MaxItems \in Nat
  /\ \A a \in Asked : /\ a.size \in Nat \ {0} /\ a.align \in Nat \ {0} /\ a.upper \in BOOLEAN
                      /\ a.type \in SuballocationTypes \ {"free"}

VARIABLES
  pageSize,          \* m_BufferImageGranularity
  lin     \* [first, second, mode, nullBegin, nullMiddle, nullSecond, sumFree]

linearVars == <<pageSize, lin>>

Fresh == [first |-> <<>>, second |-> <<>>, mode |-> "empty", nullBegin |-> 0,
          nullMiddle |-> 0, nullSecond |-> 0, sumFree |-> LinearSize]

LinearInit == pageSize \in Pages /\ lin = Fresh

IsNull(item) == item.type = "free"

ItemsUsed(l) ==
  Len(l.first) - l.nullBegin - l.nullMiddle + Len(l.second) - l.nullSecond

EndOf(items) == IF items = <<>> THEN 0 ELSE Last(items).at + Last(items).size

-----------------------------------------------------------------------------
(* CreateAllocationRequest *)

(* VmaBlocksOnSamePage: the end of [at, at + size) and the start of next *)
OnSamePage(at, size, next) == (at + size - 1) \div pageSize = next \div pageSize

(* Looking back from the last item, over those on the page of at *)
ConflictBefore(items, at, type) ==
  \E i \in DOMAIN items :
    /\ \A j \in i .. Len(items) : OnSamePage(items[j].at, items[j].size, at)
    /\ Conflict(items[i].type, type)

(* Looking forward, over those on the page where [at, at + size) ends *)
ConflictAfter(items, at, size, type) ==
  \E i \in DOMAIN items :
    /\ \A j \in 1 .. i : OnSamePage(at, size, items[j].at)
    /\ Conflict(type, items[i].type)

(* Fault: the page is not looked at. *)
BehindUnpaged(items, align, type) == AlignUp(EndOf(items), align)

(* The first offset after the items for such an allocation *)
Behind(items, align, type) ==
  LET at == AlignUp(EndOf(items), align)
  IN  IF pageSize > 1 /\ pageSize # align /\ ConflictBefore(items, at, type)
      THEN AlignUp(at, pageSize) ELSE at

(* CreateAllocationRequest_LowerAddress: after the 1st vector or, as a ring   *)
(* buffer, after the 2nd and before the 1st.                                 *)
LowerAddress(size, align, type) ==
  LET uneven(at) == size % pageSize # 0 \/ at % pageSize # 0
      at1 == Behind(lin.first, align, type)
      end1 == IF lin.mode = "double" THEN Last(lin.second).at ELSE LinearSize
      fits1 == lin.mode # "ring" /\ at1 + size <= end1
      at2 == Behind(lin.second, align, type)
      ahead == SubSeq(lin.first, lin.nullBegin + 1, Len(lin.first))
      end2 == IF ahead = <<>> THEN LinearSize ELSE ahead[1].at
      fits2 == lin.mode # "double" /\ at2 + size <= end2
  IN  IF fits1
      THEN IF /\ uneven(at1) /\ lin.mode = "double"
              /\ ConflictAfter(Reverse(lin.second), at1, size, type)
           THEN {} ELSE {[to |-> at1, vector |-> "first"]}
      ELSE IF fits2
      THEN IF uneven(at2) /\ ConflictAfter(ahead, at2, size, type)
           THEN {} ELSE {[to |-> at2, vector |-> "ring"]}
      ELSE {}

(* CreateAllocationRequest_UpperAddress: below the top of the upper stack *)
UpperAddress(size, align, type) ==
  LET top == IF lin.second = <<>> THEN LinearSize ELSE Last(lin.second).at
      down == AlignDown(top - size, align)
      at == IF /\ pageSize > 1 /\ pageSize # align
               /\ ConflictAfter(Reverse(lin.second), down, size, type)
            THEN AlignDown(down, pageSize) ELSE down
  IN  IF /\ lin.mode # "ring" /\ size <= top
         /\ EndOf(lin.first) <= at
         /\ ~ (pageSize > 1 /\ ConflictBefore(lin.first, at, type))
      THEN {[to |-> at, vector |-> "double"]} ELSE {}

(* A request and, when there is room, Alloc *)
AllocateLinear(a) ==
  /\ ItemsUsed(lin) < MaxItems
  /\ a.size <= LinearSize
  /\ a.upper => UpperOnPages \/ pageSize = 1
  /\ \E c \in IF a.upper THEN UpperAddress(a.size, a.align, a.type)
              ELSE LowerAddress(a.size, a.align, a.type) :
       LET item == [at |-> c.to, size |-> a.size, type |-> a.type]
       IN  lin' = IF c.vector = "first"
                  THEN [lin EXCEPT !.first = Append(@, item), !.sumFree = @ - a.size]
                  ELSE [lin EXCEPT !.second = Append(@, item), !.mode = c.vector,
                                   !.sumFree = @ - a.size]
  /\ UNCHANGED pageSize

-----------------------------------------------------------------------------
(* Free *)

NullsAfter(items, from) ==
  Cardinality({i \in from + 1 .. Len(items) : \A j \in from + 1 .. i : IsNull(items[j])})

NullsAtEnd(items) ==
  Cardinality({i \in DOMAIN items : \A j \in i .. Len(items) : IsNull(items[j])})

WithoutLast(items, n) == SubSeq(items, 1, Len(items) - n)

WithoutFirst(items, n) == SubSeq(items, n + 1, Len(items))

AtMost(n, m) == IF n < m THEN n ELSE m

(* Null items at the ends of the vectors go; those at the beginning of the  *)
(* 1st are only counted.                                                    *)
EndsTrimmed(l) ==
  LET begin == NullsAfter(l.first, l.nullBegin)
      middle == l.nullMiddle - begin
      end1 == AtMost(middle, NullsAtEnd(l.first))
      end2 == AtMost(l.nullSecond, NullsAtEnd(l.second))
      second == WithoutLast(l.second, end2)
      begin2 == AtMost(l.nullSecond - end2, NullsAfter(second, 0))
  IN  [l EXCEPT !.nullBegin = @ + begin,
                !.nullMiddle = middle - end1,
                !.first = WithoutLast(@, end1),
                !.nullSecond = @ - end2 - begin2,
                !.second = WithoutFirst(second, begin2)]

(* The loop of the compaction: the items that are not null, in their order *)
Packed(items) ==
  LET kept == {i \in DOMAIN items : ~ IsNull(items[i])}
      Source(d) == CHOOSE i \in kept : Cardinality({j \in kept : j <= i}) = d
  IN  [d \in 1 .. Cardinality(kept) |-> items[Source(d)]]

(* Fault: the null items at the beginning are still counted. *)
CompactedBegun(l) ==
  LET nulls == l.nullBegin + l.nullMiddle
  IN  IF Len(l.first) > CompactAbove /\ nulls * 2 >= (Len(l.first) - nulls) * 3
      THEN [l EXCEPT !.first = Packed(@), !.nullMiddle = 0]
      ELSE l

(* ShouldCompact1st *)
Compacted(l) ==
  LET nulls == l.nullBegin + l.nullMiddle
  IN  IF Len(l.first) > CompactAbove /\ nulls * 2 >= (Len(l.first) - nulls) * 3
      THEN [l EXCEPT !.first = Packed(@),
                     !.nullBegin = 0, !.nullMiddle = 0]
      ELSE l

(* The 2nd vector may be empty now. *)
ModeLeft(l) == [l EXCEPT !.mode = IF l.second = <<>> THEN "empty" ELSE @]

(* With the 1st vector used up the ring's front part becomes the 1st. *)
Swapped(l) ==
  LET begin == NullsAfter(l.second, 0)
  IN  IF Len(l.first) > l.nullBegin THEN l
      ELSE IF l.second # <<>> /\ l.mode = "ring"
      THEN [l EXCEPT !.first = l.second, !.second = <<>>, !.mode = "empty",
                     !.nullBegin = begin, !.nullMiddle = l.nullSecond - begin,
                     !.nullSecond = 0]
      ELSE [l EXCEPT !.first = <<>>, !.nullBegin = 0]

(* CleanupAfterFree *)
CleanedUp(l) ==
  IF ItemsUsed(l) = 0 THEN [Fresh EXCEPT !.sumFree = l.sumFree]
  ELSE Swapped(ModeLeft(Compacted(EndsTrimmed(l))))

Nulled(items, i) == [items EXCEPT ![i].type = "free"]

WhereIn(items, from, at) == {i \in from + 1 .. Len(items) : items[i].at = at}

(* Free: the first allocation, the last of the 2nd vector, the last of the   *)
(* 1st when there is no 2nd, or one in the middle, searched for in both.     *)
FreeLinear(at) ==
  LET first == lin.first  second == lin.second
      begin == lin.nullBegin + 1
      here == WhereIn(first, lin.nullBegin, at)
      there == WhereIn(second, 0, at)
      i == CHOOSE x \in here : TRUE
      j == CHOOSE x \in there : TRUE
      Left(size) == [lin EXCEPT !.sumFree = @ + size]
      freed ==
        IF first # <<>> /\ first[begin].at = at
        THEN [Left(first[begin].size) EXCEPT !.first = Nulled(@, begin), !.nullBegin = @ + 1]
        ELSE IF lin.mode # "empty" /\ Last(second).at = at
        THEN [Left(Last(second).size) EXCEPT !.second = WithoutLast(@, 1)]
        ELSE IF lin.mode = "empty" /\ Last(first).at = at
        THEN [Left(Last(first).size) EXCEPT !.first = WithoutLast(@, 1)]
        ELSE IF here # {}
        THEN [Left(first[i].size) EXCEPT !.first = Nulled(@, i), !.nullMiddle = @ + 1]
        ELSE [Left(second[j].size) EXCEPT !.second = Nulled(@, j), !.nullSecond = @ + 1]
  IN  /\ lin' = CleanedUp(freed)
      /\ UNCHANGED pageSize

Items(items) == {items[i] : i \in {j \in DOMAIN items : ~ IsNull(items[j])}}

ItemsLive == Items(lin.first) \union Items(lin.second)

ClearLinear ==
  /\ lin' = Fresh
  /\ UNCHANGED pageSize

LinearNext ==
  \/ \E a \in Asked : AllocateLinear(a)
  \/ \E r \in ItemsLive : FreeLinear(r.at)
  \/ ClearLinear

LinearSpec == LinearInit /\ [][LinearNext]_linearVars
-----------------------------------------------------------------------------
(* The types. *)
LinearTypeOK ==
  /\ pageSize \in Pages
  /\ lin.mode \in {"empty", "ring", "double"}
  /\ \A items \in {lin.first, lin.second} : \A i \in DOMAIN items :
       /\ items[i].type \in SuballocationTypes
       /\ items[i].at \in Nat /\ items[i].size \in Nat
  /\ lin.nullBegin \in 0 .. Len(lin.first)
  /\ lin.nullBegin + lin.nullMiddle \in 0 .. Len(lin.first)
  /\ lin.nullSecond \in 0 .. Len(lin.second)

Sorted(items) == \A i \in 1 .. Len(items) - 1 : items[i].at < items[i + 1].at

(* Every allocation can be found again to free it: the vectors are sorted,  *)
(* the upper stack downwards, and the parts follow each other.              *)
(* (VmaBinaryFindSorted in Free and FindSuballocation)                      *)
ItemsFound ==
  /\ Sorted(WithoutFirst(lin.first, lin.nullBegin))
  /\ lin.mode = "ring" => Sorted(lin.second)
  /\ lin.mode = "double" => Sorted(Reverse(lin.second))

(* Freeing everything, in whatever order, leaves the block as it began.     *)
(* (CleanupAfterFree; FreeMemory of the context's pool relies on IsEmpty)   *)
EmptyIsFresh == ItemsLive = {} => lin = Fresh

HL == INSTANCE Heap WITH
  Size <- LinearSize,
  Types <- SuballocationTypes,
  live <- ItemsLive,
  page <- pageSize

(* The allocations are what Heap.tla promises. (Alloc, Free, *Address)      *)
LinearIsHeap == HL!HeapSpec
=============================================================================
