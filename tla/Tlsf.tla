-------------------------------- MODULE Tlsf --------------------------------
(***************************************************************************)
(* vk_mem_alloc.h, VmaBlockMetadata_TLSF: where the buffers and images of  *)
(* a memory block are. The block is cut into physical blocks; free ones    *)
(* are also on a list for their size, and two levels of bitmaps say which  *)
(* lists have any. The last physical block, the null block, is the space   *)
(* never used so far and on no list. A block is known by its offset. The   *)
(* debug margin is 0, as in this build.                                    *)
(***************************************************************************)
EXTENDS Granularity, Sequences, FiniteSets, SequencesExt

CONSTANTS
  Total,            \* size of the memory block
  Requests,         \* what is asked for: [size, align, type, strategy]
  Granularities,    \* what bufferImageGranularity may be
  MaxAllocs,        \* bound on the allocations at a time
  WithinPage,       \* requests may be no larger than a page, where pages are counted
  Shift,            \* MEMORY_CLASS_SHIFT
  SecondLevel       \* SECOND_LEVEL_INDEX

Strategies == {"memory", "time", "offset", "none"}

ASSUME TlsfAssumption ==
  /\ Total \in Nat \ {0}
  /\ Granularities \subseteq Nat \ {0}
  /\ MaxLow \in Nat
  /\ Shift \in Nat \ {0} /\ SecondLevel \in Nat /\ SecondLevel <= Shift
  /\ MaxAllocs \in Nat
  /\ \A r \in Requests : /\ r.size \in Nat \ {0} /\ r.align \in Nat \ {0}
                         /\ r.type \in SuballocationTypes \ {"free"}
                         /\ r.strategy \in Strategies
  (* Both are powers of two. *)
  /\ \A r \in Requests, g \in Granularities : g <= r.align => r.align % g = 0

VARIABLES
  granularity,
  meta     \* [blocks, lists, inner, classes, freeCount, freeSize, allocCount, pages]

tlsfVars == <<granularity, meta>>

-----------------------------------------------------------------------------
(* Which list a size belongs to *)

(* 1 shifted to the left *)
Bit[n \in Nat] == IF n = 0 THEN 1 ELSE 2 * Bit[n - 1]

SmallSize == Bit[Shift + 1]

Msb(n) == CHOOSE k \in 0 .. n : Bit[k] <= n /\ n < Bit[k + 1]

Class(size) == IF size > SmallSize THEN Msb(size) - Shift ELSE 0

Second(size) ==
  IF Class(size) = 0 THEN (size - 1) \div (SmallSize \div 4)
  ELSE size \div Bit[Class(size) + Shift - SecondLevel] - Bit[SecondLevel]

List(class, second) ==
  IF class = 0 THEN second ELSE (class - 1) * Bit[SecondLevel] + second + 4

ListOf(size) == List(Class(size), Second(size))

ListsCount ==
  (IF Class(Total) = 0 THEN 0 ELSE (Class(Total) - 1) * Bit[SecondLevel] + Second(Total)) + 5

Classes == 0 .. Class(2 * Total)     \* at least those a request can be looked up in

(* Fault: two steps up. *)
NextSizeFar(size) ==
  IF size > SmallSize THEN size + 2 * Bit[Msb(size) - SecondLevel]
  ELSE size + 2 * (SmallSize \div 4)

(* sizeForNextList: every block on its list is large enough. *)
NextSize(size) ==
  LET step == SmallSize \div 4
  IN  IF size > SmallSize THEN size + Bit[Msb(size) - SecondLevel]
      ELSE IF size > SmallSize - step THEN SmallSize + 1
      ELSE size + step

-----------------------------------------------------------------------------
TlsfInit ==
  /\ granularity \in Granularities
  /\ meta = [blocks |-> <<[at |-> 0, size |-> Total, type |-> "free"]>>,
             lists |-> [l \in 0 .. ListsCount - 1 |-> <<>>],
             inner |-> [c \in Classes |-> {}],
             classes |-> {},
             freeCount |-> 0, freeSize |-> 0, allocCount |-> 0,
             pages |-> NoPages(Total, granularity)]

IsFree(b) == b.type = "free"

NullIndex(m) == Len(m.blocks)

IndexAt(m, at) == CHOOSE k \in DOMAIN m.blocks : m.blocks[k].at = at

(* A list without the block at that offset *)
Unlinked(list, at) == RemoveAt(list, CHOOSE i \in DOMAIN list : list[i] = at)

(* Fault: the bit of the class goes with that of the list. *)
RemoveFreeClass(m, k) ==
  LET b == m.blocks[k]
      c == Class(b.size)
      left == Unlinked(m.lists[ListOf(b.size)], b.at)
  IN  [m EXCEPT !.lists[ListOf(b.size)] = left,
                !.inner[c] = IF left = <<>> THEN @ \ {Second(b.size)} ELSE @,
                !.classes = IF left = <<>> THEN @ \ {c} ELSE @,
                !.blocks[k].type = "unknown",
                !.freeCount = @ - 1, !.freeSize = @ - b.size]

(* RemoveFreeBlock *)
RemoveFree(m, k) ==
  LET b == m.blocks[k]
      c == Class(b.size)
      left == Unlinked(m.lists[ListOf(b.size)], b.at)
      seconds == IF left = <<>> THEN m.inner[c] \ {Second(b.size)} ELSE m.inner[c]
  IN  [m EXCEPT !.lists[ListOf(b.size)] = left,
                !.inner[c] = seconds,
                !.classes = IF seconds = {} THEN @ \ {c} ELSE @,
                !.blocks[k].type = "unknown",
                !.freeCount = @ - 1, !.freeSize = @ - b.size]

(* InsertFreeBlock *)
InsertFree(m, k) ==
  LET b == m.blocks[k]
      c == Class(b.size)
  IN  [m EXCEPT !.lists[ListOf(b.size)] = <<b.at>> \o @,
                !.inner[c] = @ \union {Second(b.size)},
                !.classes = @ \union {c},
                !.blocks[k].type = "free",
                !.freeCount = @ + 1, !.freeSize = @ + b.size]

(* MergeBlock: the block at k takes over the one before it. *)
Merge(m, k) ==
  LET prev == m.blocks[k - 1]
  IN  [m EXCEPT !.blocks = RemoveAt([@ EXCEPT ![k].at = prev.at,
                                              ![k].size = @ + prev.size], k - 1)]

(* FindFreeBlock: the first list from size's on that the bitmaps say has any *)
FindFree(m, size) ==
  LET c == Class(size)
      here == {s \in m.inner[c] : s >= Second(size)}
      above == {d \in m.classes : d > c}
      d == CHOOSE x \in above : \A y \in above : x <= y
      Least(S) == CHOOSE x \in S : \A y \in S : x <= y
  IN  IF here # {} THEN {List(c, Least(here))}
      ELSE IF above = {} THEN {} ELSE {List(d, Least(m.inner[d]))}

-----------------------------------------------------------------------------
(* CreateAllocationRequest *)

(* CheckBlock: where in the block the request can go, if anywhere *)
Fits(m, k, size, align, type) ==
  LET b == m.blocks[k]
      at == AlignUp(b.at, align)
  IN  IF b.size < size + at - b.at THEN {}
      ELSE Settled(m.pages, at, size, b, type, granularity)

OnLists(m, ls) ==
  FlattenSeq([i \in 1 .. ListsCount |->
    IF i - 1 \in ls
    THEN [j \in DOMAIN m.lists[i - 1] |-> [list |-> i - 1, at |-> m.lists[i - 1][j]]]
    ELSE <<>>])

(* The free blocks in the order a request of that size looks at them, each   *)
(* with the list it would be moved to the front of; nextList and prevList     *)
(* are the lists its size is looked up in.                                   *)
Ordered(m, size, strategy, nextList, prevList) ==
  LET null == <<[list |-> ListsCount, at |-> m.blocks[NullIndex(m)].at]>>
      next == OnLists(m, nextList)
      prev == OnLists(m, prevList)
      rest == OnLists(m, {l \in 0 .. ListsCount - 1 : \E n \in nextList : l > n})
      byOffset == FlattenSeq([k \in 1 .. NullIndex(m) - 1 |->
                    IF IsFree(m.blocks[k]) /\ m.blocks[k].size >= size
                    THEN <<[list |-> ListOf(m.blocks[k].size), at |-> m.blocks[k].at]>>
                    ELSE <<>>])
  IN  CASE m.freeCount = 0 -> null
        [] m.freeCount # 0 /\ strategy = "time" ->
             SubSeq(next, 1, IF next = <<>> THEN 0 ELSE 1) \o null \o next \o prev \o rest
        [] m.freeCount # 0 /\ strategy = "memory" -> prev \o null \o next \o rest
        [] m.freeCount # 0 /\ strategy = "offset" -> byOffset \o null
        [] m.freeCount # 0 /\ strategy = "none" -> next \o null \o prev \o rest

Search(m, size, strategy) ==
  Ordered(m, size, strategy, FindFree(m, NextSize(size)), FindFree(m, size))

(* The first of them that fits, if any, and the offset in it *)
FirstOf(tried) ==
  LET fitting == {i \in DOMAIN tried : tried[i].to # {}}
      i == CHOOSE x \in fitting : \A y \in fitting : x <= y
  IN  IF fitting = {} THEN {}
      ELSE {[list |-> tried[i].list, block |-> tried[i].at, to |-> to] : to \in tried[i].to}

WithPlaces(m, tried, size, align, type) ==
  [i \in DOMAIN tried |->
     [list |-> tried[i].list, at |-> tried[i].at,
      to |-> Fits(m, IndexAt(m, tried[i].at), size, align, type)]]

(* The block chosen and the offset in it, or nothing *)
Chosen(m, size, align, type, strategy) ==
  IF size > m.freeSize + m.blocks[NullIndex(m)].size THEN {}
  ELSE FirstOf(WithPlaces(m, Search(m, size, strategy), size, align, type))

(* The block found goes to the front of its list. *)
InFront(m, c) ==
  IF c.list = ListsCount THEN m
  ELSE [m EXCEPT !.lists[c.list] = <<c.block>> \o Unlinked(@, c.block)]

-----------------------------------------------------------------------------
(* Alloc *)

(* The space before the aligned offset goes to the block before or becomes a *)
(* block of its own.                                                         *)
Trimmed(m, k, missing) ==
  LET cut == [m EXCEPT !.blocks[k].at = @ + missing, !.blocks[k].size = @ - missing]
      prev == m.blocks[k - 1]
      grown == [cut EXCEPT !.blocks[k - 1].size = @ + missing]
  IN  IF missing = 0 THEN m
      ELSE IF ~ IsFree(prev)
      THEN InsertFree([cut EXCEPT !.blocks = InsertAt(@, k,
             [at |-> m.blocks[k].at, size |-> missing, type |-> "unknown"])], k)
      ELSE IF ListOf(prev.size) = ListOf(prev.size + missing)
      THEN [grown EXCEPT !.freeSize = @ + missing]
      ELSE InsertFree([RemoveFree(cut, k - 1) EXCEPT !.blocks[k - 1].size = @ + missing], k - 1)

(* The rest of the block becomes the null block or a free one. *)
Split(m, k, size) ==
  LET b == m.blocks[k]
      rest == [at |-> b.at + size, size |-> b.size - size,
               type |-> IF k = NullIndex(m) THEN "free" ELSE "unknown"]
      cut == [m EXCEPT !.blocks =
                InsertAt([@ EXCEPT ![k].size = size, ![k].type = "unknown"], k + 1, rest)]
  IN  IF k = NullIndex(m) THEN cut
      ELSE IF b.size = size THEN m
      ELSE InsertFree(cut, k + 1)

SplitAt(m, at, size) == Split(m, IndexAt(m, at), size)

Occupied(m, at, size, type) ==
  [m EXCEPT !.blocks[IndexAt(m, at)].type = type,
            !.pages = PagesTaken(@, type, at, size, granularity),
            !.allocCount = @ + 1]

AllocAt(m, c, size, type) ==
  LET k == IndexAt(m, c.block)
      taken == IF k = NullIndex(m) THEN m ELSE RemoveFree(m, k)
  IN  Occupied(SplitAt(Trimmed(taken, k, c.to - c.block), c.to, size), c.to, size, type)

(* VmaBlockVector::AllocateFromBlock: a request and, when it finds a block,  *)
(* Alloc.                                                                    *)
Allocate(r) ==
  LET up == Roundup(r.type, r.size, r.align, granularity)
  IN  /\ meta.allocCount < MaxAllocs
      /\ WithinPage \/ ~ Enabled(granularity) \/ r.size > granularity
      /\ \E c \in Chosen(meta, up.size, up.align, r.type, r.strategy) :
           meta' = AllocAt(InFront(meta, c), c, up.size, r.type)
      /\ UNCHANGED granularity

(* Free, up to the merging: no page refers to the block, which is one fewer. *)
GivenBack(m, k) ==
  LET b == m.blocks[k]
  IN  [m EXCEPT !.pages = PagesLeft(@, b.at, b.size, granularity), !.allocCount = @ - 1]

(* The free block at k joined with a free one after it *)
JoinedNext(m, k) ==
  IF ~ IsFree(m.blocks[k + 1]) THEN InsertFree(m, k)
  ELSE IF k + 1 = NullIndex(m) THEN Merge(m, k + 1)
  ELSE InsertFree(Merge(RemoveFree(m, k + 1), k + 1), k)

(* Free *)
Freed(m, k) ==
  IF k > 1 /\ IsFree(m.blocks[k - 1])
  THEN JoinedNext(Merge(RemoveFree(GivenBack(m, k), k - 1), k), k - 1)
  ELSE JoinedNext(GivenBack(m, k), k)

FreeAt(k) ==
  /\ ~ IsFree(meta.blocks[k])
  /\ meta' = Freed(meta, k)
  /\ UNCHANGED granularity

(* Clear *)
ClearTlsf ==
  /\ meta' = [meta EXCEPT
       !.blocks = <<[at |-> 0, size |-> Total, type |-> "free"]>>,
       !.lists = [l \in DOMAIN @ |-> <<>>],
       !.inner = [c \in DOMAIN @ |-> {}],
       !.classes = {},
       !.freeCount = 0, !.freeSize = 0, !.allocCount = 0,
       !.pages = NoPages(Total, granularity)]
  /\ UNCHANGED granularity

TlsfNext ==
  \/ \E r \in Requests : Allocate(r)
  \/ \E k \in DOMAIN meta.blocks : FreeAt(k)
  \/ ClearTlsf

TlsfSpec == TlsfInit /\ [][TlsfNext]_tlsfVars
-----------------------------------------------------------------------------
(* The types, and the physical blocks cover the memory block without gaps.  *)
(* (vk_mem_alloc.h Validate: prev->offset + prev->size == nextOffset)       *)
TlsfTypeOK ==
  /\ granularity \in Granularities
  /\ \A k \in DOMAIN meta.blocks :
       /\ meta.blocks[k].type \in SuballocationTypes
       /\ k < NullIndex(meta) => /\ meta.blocks[k].size > 0
                                 /\ meta.blocks[k + 1].at = meta.blocks[k].at + meta.blocks[k].size
  /\ meta.blocks[1].at = 0
  /\ meta.blocks[NullIndex(meta)].at + meta.blocks[NullIndex(meta)].size = Total
  /\ \A p \in DOMAIN meta.pages : meta.pages[p] \in [type : SuballocationTypes, count : Nat]

FreeBlocks ==
  {meta.blocks[k] : k \in {j \in 1 .. NullIndex(meta) - 1 : IsFree(meta.blocks[j])}}

(* The lists hold exactly the free blocks, each once and on the list for    *)
(* its size, the bitmaps name exactly the lists that have any, and the      *)
(* counters are right. (RemoveFreeBlock, InsertFreeBlock, Validate)         *)
ListsExact ==
  /\ \A l \in DOMAIN meta.lists :
       /\ IsInjective(meta.lists[l])
       /\ ToSet(meta.lists[l]) = {b.at : b \in {f \in FreeBlocks : ListOf(f.size) = l}}
  /\ \A c \in Classes :
       /\ meta.inner[c] = {Second(b.size) : b \in {f \in FreeBlocks : Class(f.size) = c}}
       /\ c \in meta.classes <=> meta.inner[c] # {}
  /\ meta.freeCount = Cardinality(FreeBlocks)
  /\ meta.freeSize = SumFunction([b \in FreeBlocks |-> b.size])
  /\ meta.allocCount = NullIndex(meta) - 1 - meta.freeCount

(* No two neighbours are free, the null block included, so that a block     *)
(* with nothing in it is one null block: what IsEmpty asks. (Free)          *)
Coalesced ==
  /\ \A k \in 1 .. NullIndex(meta) - 1 : ~ (IsFree(meta.blocks[k]) /\ IsFree(meta.blocks[k + 1]))
  /\ meta.allocCount = 0 <=> meta.blocks[NullIndex(meta)].at = 0

(* A request is refused only when no free block can take it: the lists that *)
(* are skipped hold nothing that fits. (CreateAllocationRequest)            *)
RefusedOnlyIfFull ==
  \A r \in Requests :
    LET up == Roundup(r.type, r.size, r.align, granularity)
    IN  Chosen(meta, up.size, up.align, r.type, r.strategy) = {} =>
          \A k \in DOMAIN meta.blocks :
            IsFree(meta.blocks[k]) => Fits(meta, k, up.size, up.align, r.type) = {}

H == INSTANCE Heap WITH
  Size <- Total,
  Types <- SuballocationTypes,
  live <- {meta.blocks[k] : k \in {j \in DOMAIN meta.blocks : ~ IsFree(meta.blocks[j])}},
  page <- granularity

(* The allocations are what Heap.tla promises: inside the block, apart, and *)
(* on no page with one they conflict with. (Alloc, Free, CheckBlock)        *)
TlsfIsHeap == H!HeapSpec
=============================================================================
