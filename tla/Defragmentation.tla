--------------------------- MODULE Defragmentation ---------------------------
(***************************************************************************)
(* vk_mem_alloc.h, VmaDefragmentationContext_T: allocations of a custom    *)
(* pool are moved together in passes. A pass begins by taking, for each    *)
(* allocation to be moved, a temporary one at its new place; the client    *)
(* copies, refuses or destroys; the end of the pass swaps and frees. Other *)
(* threads allocate and free all the while. The blocks are those of        *)
(* Tlsf.tla, all of one size, and the pool keeps no least number of them.  *)
(* There is no break callback. An assertion that fails, an allocation used *)
(* after it was freed and an index outside the vector end a behaviour: its *)
(* stage is "crashed".                                                     *)
(***************************************************************************)
EXTENDS Tlsf

CONSTANTS
  Movables,        \* what clients allocate: [size, align, type, mapped, maps]
  MaxBlocks, MaxClients,
  PassLimits,      \* [bytes, allocs]: maxBytesPerPass, maxAllocationsPerPass
  IgnoreLimit,     \* MAX_ALLOCS_TO_IGNORE
  Algorithms

(* blocks: m_Blocks of the vector, [id, meta, maps]; allocs: VmaAllocation -> *)
(* [block, at, size, align, type, mapped, maps, temporary], temporary as its *)
(* user data says; bytes, count: m_PassStats; stop: why the pass takes no     *)
(* more; firstFree: {} for SIZE_MAX; toMap, refused: mappedBlocks and         *)
(* immovableBlocks, the names of their blocks; shrunk is history: a client's  *)
(* free has deleted a block of a vector the extensive algorithm works on.    *)
VARIABLE defrag

NoContext ==
  [stage |-> "none", algorithm |-> "none", limit |-> [bytes |-> 0, allocs |-> 0],
   moves |-> <<>>, bytes |-> 0, count |-> 0, ignored |-> 0, stop |-> "no", immovable |-> 0,
   average |-> {}, gap |-> 0, toMap |-> <<>>, refused |-> <<>>, shrunk |-> FALSE,
   operation |-> "findTextures", firstFree |-> {}]

SumFree(m) == m.freeSize + m.blocks[NullIndex(m)].size

IndexOf(s, id) == CHOOSE i \in DOMAIN s.blocks : s.blocks[i].id = id

EmptyBlock(b) == b.meta.allocCount = 0

Crashed(s) == [s EXCEPT !.stage = "crashed"]

IsLeast(x, S) == x \in S /\ \A y \in S : x <= y

NewName(S) == CHOOSE n \in 1 .. Cardinality(S) + 1 : IsLeast(n, (1 .. Cardinality(S) + 1) \ S)

OwnerOf(s, id, at) == CHOOSE a \in DOMAIN s.allocs : s.allocs[a].block = id /\ s.allocs[a].at = at

(* CreateAllocationRequest of a block for what allocation a is *)
Found(s, i, a, strategy) ==
  LET up == Roundup(a.type, a.size, a.align, granularity)
  IN  Chosen(s.blocks[i].meta, up.size, up.align, a.type, strategy)

(* CommitAllocationRequest *)
Committed(s, i, name, a, c) ==
  LET up == Roundup(a.type, a.size, a.align, granularity)
  IN  [s EXCEPT
        !.blocks[i].meta = AllocAt(InFront(@, c), c, up.size, a.type),
        !.blocks[i].maps = @ + (IF a.mapped THEN 1 ELSE 0),
        !.allocs = (name :> [a EXCEPT !.block = s.blocks[i].id, !.at = c.to, !.size = up.size]) @@ @]

-----------------------------------------------------------------------------
(* One allocation *)

(* CheckCounters *)
Checked(s, size) ==
  IF s.bytes + size > s.limit.bytes
  THEN [s EXCEPT !.ignored = IF @ < IgnoreLimit THEN @ + 1 ELSE @,
                 !.stop = IF s.ignored + 1 < IgnoreLimit THEN "no" ELSE "end"]
  ELSE [s EXCEPT !.ignored = 0]

(* A temporary allocation and a move; IncrementCounters *)
Moved(s, i, src, c) ==
  LET a == s.allocs[src]
      dst == NewName(DOMAIN s.allocs)
      bytes == s.bytes + a.size
      full == s.count + 1 >= s.limit.allocs \/ bytes >= s.limit.bytes
  IN  [Committed(s, i, dst, [a EXCEPT !.temporary = TRUE, !.maps = 0], c) EXCEPT
        !.moves = Append(@, [src |-> src, dst |-> dst]),
        !.bytes = bytes, !.count = @ + 1,
        !.stop = IF full THEN "full" ELSE @]

(* AllocInOtherBlock: into the first of the blocks from first to last *)
PlacesFor(s, first, last, a) ==
  UNION {{[block |-> i, choice |-> c] : c \in Found(s, i, a, "none")} :
         i \in {x \in first .. last : SumFree(s.blocks[x].meta) >= a.size}}

MovedTo(s, src, places) ==
  LET p == CHOOSE x \in places : \A y \in places : x.block <= y.block
  IN  IF places = {} THEN s ELSE Moved(s, p.block, src, p.choice)

InOtherBlock(s, first, last, src) ==
  MovedTo(s, src, PlacesFor(s, first, last, s.allocs[src]))

(* Only to a lower offset; asking has reordered the free list. *)
MovedLower(s, i, src, found) ==
  LET c == CHOOSE x \in found : TRUE
  IN  IF found = {} THEN s
      ELSE IF c.to < s.allocs[src].at THEN Moved(s, i, src, c)
      ELSE [s EXCEPT !.blocks[i].meta = InFront(@, c)]

WithinBlock(s, i, src) ==
  LET a == s.allocs[src]
  IN  IF a.at = 0 \/ SumFree(s.blocks[i].meta) < a.size THEN s
      ELSE MovedLower(s, i, src, Found(s, i, a, "offset"))

(* GetNextFreeRegionSize: of the physical block before it *)
GapBefore(m, at) ==
  LET k == IndexAt(m, at)
  IN  IF k > 1 /\ IsFree(m.blocks[k - 1]) THEN m.blocks[k - 1].size ELSE 0

(* Balanced: whether moving down within the block is worth it *)
Worthwhile(s, gap, size) ==
  \E v \in s.average : \/ s.gap >= v.free \div 2 \/ gap >= v.free \div 2
                       \/ size <= v.free \/ size <= v.alloc

(* Allocation src of block i, t being s after trying the earlier blocks *)
ThenWithin(s, t, i, src, how) ==
  LET a == s.allocs[src]
      gap == GapBefore(t.blocks[i].meta, a.at)
      lower == \/ how = "within"
               \/ how = "full" /\ t.moves = s.moves
               \/ how = "balanced" /\ t.moves = s.moves /\ Worthwhile(s, gap, a.size)
  IN  [(IF lower THEN WithinBlock(t, i, src) ELSE t) EXCEPT !.gap = gap]

(* What an algorithm does with one allocation of block i *)
Tried(s, i, src, how) ==
  ThenWithin(s, IF how = "within" THEN s ELSE InOtherBlock(s, 1, i - 1, src), i, src, how)

TriedIf(checked, i, src, how) ==
  IF checked.ignored > 0 THEN checked ELSE Tried(checked, i, src, how)

(* One allocation of the loops: temporaries are passed over, but not where    *)
(* the extensive algorithm clears a block.                                   *)
Visited(s, i, src, how) ==
  IF s.allocs[src].temporary /\ how # "clear" THEN s
  ELSE TriedIf(Checked(s, s.allocs[src].size), i, src, how)

(* GetNextAllocation: the allocations of a block are walked downwards. *)
UsedBelow(m, at) == {k \in DOMAIN m.blocks : ~ IsFree(m.blocks[k]) /\ m.blocks[k].at < at}

RECURSIVE SweptBelow(_, _, _, _), SweptDown(_, _, _, _)

SweptBelow(s, i, at, how) ==
  LET m == s.blocks[i].meta
      below == UsedBelow(m, at)
      k == CHOOSE x \in below : \A y \in below : y <= x
      next == m.blocks[k].at
  IN  IF s.stop # "no" \/ below = {} THEN s
      ELSE SweptBelow(Visited(s, i, OwnerOf(s, s.blocks[i].id, next), how), i, next, how)

(* ReallocWithinBlock, and the inner loops of the algorithms *)
Swept(s, i, how) == SweptBelow([s EXCEPT !.gap = 0], i, Total, how)

(* The blocks from i down to least, until the pass takes no more *)
SweptDown(s, i, least, how) ==
  IF i < least \/ s.stop # "no" THEN s
  ELSE SweptDown(Swept(s, i, how), i - 1, least, how)

(* ComputeDefragmentation_Fast, _Balanced and _Full: from the last block down *)
(* to the first after those that are not to be moved                         *)
SweptAll(s, how) == SweptDown(s, Len(s.blocks), s.immovable + 2, how)

(* UpdateVectorStatistics, once: no later call has update = false. *)
Averaged(s) ==
  LET Sum(Of(_)) == FoldLeft(LAMBDA sum, b : sum + Of(b.meta), 0, s.blocks)
      free == Sum(SumFree)
  IN  IF s.average # {} THEN s
      ELSE [s EXCEPT !.average =
              {[free |-> free \div Sum(LAMBDA m : m.freeCount + 1),
                alloc |-> (Len(s.blocks) * Total - free) \div Sum(LAMBDA m : m.allocCount)]}]

-----------------------------------------------------------------------------
(* ComputeDefragmentation_Extensive *)

Finding == {"findBuffers", "findTextures", "findAll"}

AfterFinding(operation) ==
  CASE operation = "findBuffers" -> "moveBuffers"
    [] operation = "findTextures" -> "moveTextures"
    [] operation = "findAll" -> "moveAll"

(* One allocation of MoveDataToFreeBlocks. r.seen: the kinds met, moved or not *)
DataVisited(r, checked, src, type, first) ==
  LET a == r.s.allocs[src]
      kind == IF ~ Conflict(a.type, "optimal") THEN "texture"
              ELSE IF ~ Conflict(a.type, "buffer") THEN "buffer" ELSE "other"
      Met(t) == [s |-> t, seen |-> IF t.stop = "no" THEN r.seen \union {kind} ELSE r.seen]
  IN  IF a.temporary THEN r
      ELSE IF checked.ignored > 0 THEN [r EXCEPT !.s = checked]
      ELSE Met(IF Conflict(a.type, type) THEN checked
               ELSE InOtherBlock(checked, first + 1, Len(checked.blocks), src))

RECURSIVE DataSwept(_, _, _, _, _)

DataSwept(r, i, at, type, first) ==
  LET m == r.s.blocks[i].meta
      below == UsedBelow(m, at)
      k == CHOOSE x \in below : \A y \in below : y <= x
      next == m.blocks[k].at
      src == OwnerOf(r.s, r.s.blocks[i].id, next)
  IN  IF r.s.stop # "no" \/ i = 0 THEN r
      ELSE IF below = {} THEN DataSwept(r, i - 1, Total, type, first)
      ELSE DataSwept(DataVisited(r, Checked(r.s, r.s.allocs[src].size), src, type, first),
                     i, next, type, first)

(* MoveDataToFreeBlocks: nothing, whether it had nothing to move. A pass that *)
(* ends because all that is left is too large counts as that.                *)
DataOutcome(s, r) ==
  [s |-> IF r.s.stop = "end" THEN [r.s EXCEPT !.stop = "no"] ELSE r.s,
   seen |-> r.seen,
   nothing |-> r.s.stop = "end" \/ r.s.moves = s.moves]

DataMoved(s, type) ==
  LET first == CHOOSE n \in s.firstFree : TRUE
  IN  DataOutcome(s, DataSwept([s |-> s, seen |-> {}], first, Total, type, first))

(* Moves everything down within its block; done when nothing was moved. *)
CleanedOutcome(s, t) ==
  IF t.stop = "no" /\ t.moves = s.moves THEN [t EXCEPT !.operation = "done"] ELSE t

CleanedBlocks(s) ==
  CleanedOutcome(s, FoldLeft(LAMBDA u, i : IF u.stop # "no" THEN u ELSE Swept(u, i, "within"),
                             s, [i \in DOMAIN s.blocks |-> i]))

RECURSIVE Extensive(_)

(* BlockFreed empties the last block that is not free, t being s after that;  *)
BlockCleared(s, t, last) ==
  IF t.stop = "full"
  THEN IF UsedBelow(t.blocks[last].meta, t.allocs[t.moves[Len(t.moves)].src].at) = {}
       THEN [t EXCEPT !.firstFree = {last - 1}] ELSE t
  ELSE IF t.stop = "end" THEN t
  ELSE Extensive([t EXCEPT !.operation = AfterFinding(@), !.firstFree = {last - 1}])

(* failing that it makes room in the others, or does as the fast algorithm.  *)
RoomMade(s, t) == IF t.stop = "no" /\ t.moves = s.moves THEN SweptAll(t, "fast") ELSE t

BlockFreed(s) ==
  LET last == IF s.firstFree = {} THEN Len(s.blocks) ELSE CHOOSE n \in s.firstFree : TRUE
      Next(t) == IF t.stop = "no" /\ t.moves = s.moves
                 THEN RoomMade(s, SweptDown(t, last - 1, 2, "within"))
                 ELSE BlockCleared(s, t, last)
  IN  IF last = 0 THEN SweptAll([s EXCEPT !.operation = "cleanup"], "fast")
      ELSE Next(Swept(s, last, "clear"))

(* The operations that move data: what they have nothing of to move decides    *)
(* which comes next.                                                         *)
AfterMoving(operation, r) ==
  IF ~ r.nothing THEN r.s
  ELSE Extensive([r.s EXCEPT !.operation =
         CASE operation = "moveTextures" ->
                IF "texture" \in r.seen THEN "findTextures"
                ELSE IF r.seen # {} THEN "moveBuffers" ELSE "cleanup"
           [] operation = "moveBuffers" ->
                IF "buffer" \in r.seen THEN "findBuffers"
                ELSE IF "other" \in r.seen THEN "moveAll" ELSE "cleanup"
           [] operation = "moveAll" ->
                IF "other" \in r.seen THEN "findBuffers" ELSE "cleanup"])

TypeMoved ==
  [operation \in {"moveTextures", "moveBuffers", "moveAll"} |->
     CASE operation = "moveTextures" -> "optimal"
       [] operation = "moveBuffers" -> "buffer"
       [] operation = "moveAll" -> "free"]

Extensive(s) ==
  IF granularity = 1 THEN SweptAll(s, "full")
  ELSE IF s.operation \notin {"cleanup", "done"} /\ \E n \in s.firstFree : n > Len(s.blocks)
  THEN Crashed(s)
  ELSE CASE s.operation \in Finding -> BlockFreed(s)
         [] s.operation \in DOMAIN TypeMoved ->
              AfterMoving(s.operation, DataMoved(s, TypeMoved[s.operation]))
         [] s.operation = "cleanup" -> CleanedBlocks(s)
         [] s.operation = "done" -> s

-----------------------------------------------------------------------------
(* The end of a pass *)

SortedOnceByFree(bs) ==
  LET wrong == {i \in 2 .. Len(bs) : SumFree(bs[i - 1].meta) > SumFree(bs[i].meta)}
      i == CHOOSE x \in wrong : IsLeast(x, wrong)
  IN  IF wrong = {} THEN bs ELSE [bs EXCEPT ![i] = bs[i - 1], ![i - 1] = bs[i]]

(* m_IncrementalSort is off while there is a context. *)
Resorted(s) == IF s.stage = "none" THEN [s EXCEPT !.blocks = SortedOnceByFree(@)] ELSE s

Freeless(s, a) == [x \in DOMAIN s.allocs \ {a} |-> s.allocs[x]]

(* VmaDeviceMemoryBlock::Unmap *)
BlockUnmapped(s, i, count) ==
  IF count > s.blocks[i].maps THEN Crashed(s) ELSE [s EXCEPT !.blocks[i].maps = @ - count]

(* vmaUnmapMemory, as often as the client has mapped the allocation *)
ClientUnmaps(s, a) ==
  [BlockUnmapped(s, IndexOf(s, s.allocs[a].block), s.allocs[a].maps) EXCEPT !.allocs[a].maps = 0]

(* A block just emptied goes if there was an empty one or the heap is over    *)
(* its budget; if it is not empty, an empty one at the end goes.              *)
WithoutSecond(s, i, hadEmpty, budgetExceeded) ==
  LET last == Len(s.blocks)
      gone == IF EmptyBlock(s.blocks[i])
              THEN IF hadEmpty \/ budgetExceeded THEN {i} ELSE {}
              ELSE IF hadEmpty /\ EmptyBlock(s.blocks[last]) THEN {last} ELSE {}
  IN  [s EXCEPT !.blocks = IF gone = {} THEN @ ELSE RemoveAt(@, CHOOSE k \in gone : TRUE)]

Released(s, a, i) ==
  LET x == s.allocs[a]
  IN  [BlockUnmapped(s, i, IF x.mapped THEN 1 ELSE 0) EXCEPT
         !.blocks[i].meta = Freed(@, IndexAt(@, x.at)), !.allocs = Freeless(s, a)]

(* VmaBlockVector::Free; the budget is that of the whole heap, of which this  *)
(* vector is a part.                                                         *)
FreedAlloc(s, a, budgetExceeded) ==
  LET i == IndexOf(s, s.allocs[a].block)
      hadEmpty == \E k \in DOMAIN s.blocks : EmptyBlock(s.blocks[k])
  IN  Resorted(WithoutSecond(Released(s, a, i), i, hadEmpty, budgetExceeded))

(* The allocations of a move change places; the old block is unmapped. *)
PlacesExchanged(s, move) ==
  LET src == s.allocs[move.src]
      dst == s.allocs[move.dst]
  IN  [BlockUnmapped(s, IndexOf(s, src.block), src.maps) EXCEPT
         !.allocs[move.src].block = dst.block, !.allocs[move.src].at = dst.at,
         !.allocs[move.dst].block = src.block, !.allocs[move.dst].at = src.at]

(* Fault: the new place is not mapped as often as the old one was. *)
SwappedPlacesUnmapped(s, move) == PlacesExchanged(s, move)

(* Fault: the allocations are exchanged whole, user data and all. *)
SwappedWhole(s, move) == [s EXCEPT !.allocs[move.src] = s.allocs[move.dst],
                                   !.allocs[move.dst] = s.allocs[move.src]]

(* SwapBlockAllocation; the new blocks are mapped when all moves are done. *)
SwappedPlaces(s, move) ==
  LET maps == s.allocs[move.src].maps
      to == s.allocs[move.dst].block
  IN  [PlacesExchanged(s, move) EXCEPT
         !.toMap = IF maps > 0 THEN Append(@, [block |-> to, maps |-> maps]) ELSE @]

(* The client would not move it: its block is not to be moved. *)
Refused(s, move) ==
  LET id == s.allocs[move.src].block
  IN  [s EXCEPT !.refused = IF id \in ToSet(@) THEN @ ELSE Append(@, id)]

(* Fault: the temporary allocation of a refused move stays. *)
MoveDoneLeft(s, move, operation, over) ==
  CASE operation = "copy" -> FreedAlloc(SwappedPlaces(s, move), move.dst, over.dst)
    [] operation = "ignore" -> Refused(s, move)
    [] operation = "destroy" -> FreedAlloc(FreedAlloc(s, move.src, over.src), move.dst, over.dst)

(* One move as the client has decided; over: what each free finds the budget *)
MoveDone(s, move, operation, over) ==
  CASE operation = "copy" -> FreedAlloc(SwappedPlaces(s, move), move.dst, over.dst)
    [] operation = "ignore" -> Refused(FreedAlloc(s, move.dst, over.dst), move)
    [] operation = "destroy" -> FreedAlloc(FreedAlloc(s, move.src, over.src), move.dst, over.dst)

(* Extensive: the first of the free blocks moves with the blocks freed. *)
FirstFreeMoved(s, before) ==
  LET n == CHOOSE x \in s.firstFree : TRUE
      m == n - (before - Len(s.blocks))
  IN  IF s.algorithm # "extensive" \/ granularity = 1 \/ s.firstFree = {} THEN s
      ELSE IF m <= 0 THEN [s EXCEPT !.firstFree = {0}]
      ELSE IF m > Len(s.blocks) THEN Crashed(s)
      ELSE [s EXCEPT !.firstFree = {IF EmptyBlock(s.blocks[m]) THEN m - 1 ELSE m}]

(* What may become of one move: whether the heap is over its budget is read    *)
(* at each free.                                                             *)
EndedMove(s, move, operation) ==
  IF s.stage = "crashed" THEN {s}
  ELSE IF move.src \notin DOMAIN s.allocs THEN {Crashed(s)}
  ELSE LET Ended(done) ==
             FirstFreeMoved(done, IF operation = "ignore" THEN Len(done.blocks) ELSE Len(s.blocks))
       IN  {Ended(MoveDone(s, move, operation, over)) : over \in [{"src", "dst"} -> BOOLEAN]}

Exchanged(bs, i, j) == [bs EXCEPT ![i] = bs[j], ![j] = bs[i]]

(* Extensive: a block that is not to be moved goes before the others at the   *)
(* end,                                                                      *)
ToEnd(s, id) ==
  LET at == {i \in 1 .. Len(s.blocks) - s.immovable : s.blocks[i].id = id}
      i == CHOOSE x \in at : TRUE
      n == CHOOSE x \in s.firstFree : TRUE
      bs == Exchanged(s.blocks, i, Len(s.blocks) - s.immovable)
      before == s.firstFree # {} /\ i < n
  IN  IF s.operation = "cleanup" THEN s
      ELSE IF s.immovable > Len(s.blocks) THEN Crashed(s)
      ELSE IF at = {} THEN s
      ELSE [s EXCEPT !.immovable = @ + 1,
                     !.blocks = IF before /\ n > 1 THEN Exchanged(bs, i, n) ELSE bs,
                     !.firstFree = IF before THEN {n - 1} ELSE @]

(* with the other algorithms behind the others at the beginning. *)
ToBeginning(s, id) ==
  LET at == {i \in s.immovable + 1 .. Len(s.blocks) : s.blocks[i].id = id}
  IN  IF at = {} THEN s
      ELSE [s EXCEPT !.immovable = @ + 1,
                     !.blocks = Exchanged(@, CHOOSE x \in at : TRUE, s.immovable + 1)]

(* Those of refused moves, each once, in order *)
Immovables(s) ==
  FoldLeft(LAMBDA t, id : IF s.algorithm = "extensive" /\ granularity # 1
                          THEN ToEnd(t, id) ELSE ToBeginning(t, id),
           s, s.refused)

(* The new blocks are mapped; the pass is over. *)
Mapped(s) ==
  [FoldLeft(LAMBDA t, m : [t EXCEPT !.blocks[IndexOf(t, m.block)].maps = @ + m.maps], s, s.toMap)
     EXCEPT !.moves = <<>>, !.bytes = 0, !.count = 0, !.toMap = <<>>, !.refused = <<>>, !.stage = "idle"]

(* DefragmentPassEnd; what is to be destroyed the client has unmapped. *)
PassEnded(s, operations) ==
  LET destroyed == {s.moves[j].src : j \in {k \in DOMAIN operations : operations[k] = "destroy"}}
      unmapped == FoldSet(LAMBDA a, t : ClientUnmaps(t, a), s, destroyed)
      moved == FoldLeft(LAMBDA S, j : UNION {EndedMove(t, s.moves[j], operations[j]) : t \in S},
                        {unmapped}, [j \in DOMAIN operations |-> j])
      Over(t) == IF t.stage = "crashed" THEN t ELSE Mapped(t)
  IN  {IF t.stage = "crashed" THEN t ELSE Over(Immovables(t)) : t \in moved}

-----------------------------------------------------------------------------
DefragInit == defrag = NoContext @@ [blocks |-> <<>>, allocs |-> <<>>, made |-> 0]

(* A client allocates in some block with room, or in a new one. *)
ClientAllocates(r) ==
  LET s == defrag
      a == r @@ [temporary |-> FALSE, block |-> 0, at |-> 0]
      roomy == {i \in DOMAIN s.blocks : Found(s, i, a, "none") # {}}
      id == NewName({s.blocks[i].id : i \in DOMAIN s.blocks})
      name == NewName(DOMAIN s.allocs)
      grown == [s EXCEPT !.blocks = Append(@, [id |-> id, maps |-> 0, meta |->
                  [blocks |-> <<[at |-> 0, size |-> Total, type |-> "free"]>>,
                   lists |-> [l \in 0 .. ListsCount - 1 |-> <<>>],
                   inner |-> [c \in Classes |-> {}], classes |-> {},
                   freeCount |-> 0, freeSize |-> 0, allocCount |-> 0,
                   pages |-> NoPages(Total, granularity)]])]
      In(t, i) == LET u == Committed(t, i, name, a, CHOOSE c \in Found(t, i, a, "none") : TRUE)
                  IN  [u EXCEPT !.blocks[i].maps = @ + r.maps, !.made = @ + 1]
  IN  /\ s.made < MaxClients
      /\ \/ \E i \in roomy : defrag' = Resorted(In(s, i))
         \/ /\ roomy = {} /\ Len(s.blocks) < MaxBlocks
            /\ defrag' = Resorted(In(grown, Len(s.blocks) + 1))
      /\ UNCHANGED granularity

(* It unmaps and frees what is not being moved, at any time. *)
ClientFrees(a) ==
  /\ ~ defrag.allocs[a].temporary
  /\ \A j \in DOMAIN defrag.moves : defrag.moves[j].src # a
  /\ \E budgetExceeded \in BOOLEAN :
       LET s == FreedAlloc(ClientUnmaps(defrag, a), a, budgetExceeded)
       IN  defrag' = [s EXCEPT !.shrunk =
             @ \/ (s.algorithm = "extensive" /\ Len(s.blocks) < Len(defrag.blocks))]
  /\ UNCHANGED granularity

(* vmaBeginDefragmentation *)
BeginDefragmentation(algorithm, limit) ==
  /\ defrag.stage = "none"
  /\ defrag' = [defrag EXCEPT !.stage = "idle", !.algorithm = algorithm, !.limit = limit,
                  !.blocks = SortSeq(@, LAMBDA b, c : SumFree(b.meta) < SumFree(c.meta))]
  /\ UNCHANGED granularity

(* DefragmentPassBegin *)
PassMoves(s) ==
  CASE Len(s.blocks) = 0 -> s
    [] Len(s.blocks) = 1 -> Swept(s, 1, "within")
    [] Len(s.blocks) > 1 /\ s.algorithm = "extensive" -> Extensive(s)
    [] Len(s.blocks) > 1 /\ s.algorithm # "extensive" ->
         SweptAll(IF s.algorithm = "balanced" THEN Averaged(s) ELSE s, s.algorithm)

PassBegun(s) ==
  [s EXCEPT !.gap = 0, !.stop = "no",
            !.stage = IF s.stage = "crashed" THEN @ ELSE IF s.moves = <<>> THEN "idle" ELSE "pass"]

PassBegin ==
  /\ defrag.stage = "idle"
  /\ defrag' = PassBegun(PassMoves(defrag))
  /\ UNCHANGED granularity

PassEnd ==
  /\ defrag.stage = "pass"
  /\ \E operations \in [DOMAIN defrag.moves -> {"copy", "ignore", "destroy"}] :
       defrag' \in PassEnded(defrag, operations)
  /\ UNCHANGED granularity

(* vmaEndDefragmentation *)
EndDefragmentation ==
  /\ defrag.stage = "idle"
  /\ defrag' = NoContext @@ defrag
  /\ UNCHANGED granularity

DefragCall ==
  \/ \E r \in Movables : ClientAllocates(r)
  \/ \E a \in DOMAIN defrag.allocs : ClientFrees(a)
  \/ \E algorithm \in Algorithms, limit \in PassLimits : BeginDefragmentation(algorithm, limit)
  \/ PassBegin \/ PassEnd \/ EndDefragmentation

DefragNext ==
  \/ defrag.stage # "crashed" /\ DefragCall
  \/ defrag.stage = "crashed" /\ UNCHANGED <<defrag, granularity>>

-----------------------------------------------------------------------------
(* Properties *)

PlaceOf(a) == <<defrag.allocs[a].block, defrag.allocs[a].at, defrag.allocs[a].size>>

UsedPlaces ==
  UNION {LET b == defrag.blocks[i] IN
           {<<b.id, b.meta.blocks[k].at, b.meta.blocks[k].size>> :
              k \in {j \in DOMAIN b.meta.blocks : ~ IsFree(b.meta.blocks[j])}} :
         i \in DOMAIN defrag.blocks}

(* Every allocation has a place of its own and every place an allocation,     *)
(* through all swaps and frees. (DefragmentPassBegin, DefragmentPassEnd)      *)
PlacesOwned ==
  /\ UsedPlaces = {PlaceOf(a) : a \in DOMAIN defrag.allocs}
  /\ \A a, b \in DOMAIN defrag.allocs : PlaceOf(a) = PlaceOf(b) => a = b

(* The temporary allocations are the destinations of the moves of an open     *)
(* pass, none is moved itself, and none is left after it. No allocation is    *)
(* moved twice in a pass, save by the extensive algorithm: what it did not    *)
(* clear a block of it hands to the fast one, which moves the same again.     *)
(* (GetUserData() == this)                                                    *)
TemporariesEnd ==
  LET moves == defrag.moves
  IN  /\ {a \in DOMAIN defrag.allocs : defrag.allocs[a].temporary} = {moves[j].dst : j \in DOMAIN moves}
      /\ \A j \in DOMAIN moves : moves[j].src \in DOMAIN defrag.allocs
                                 /\ ~ defrag.allocs[moves[j].src].temporary
      /\ defrag.algorithm # "extensive" =>
           \A j, k \in DOMAIN moves : moves[j].src = moves[k].src => j = k

(* A block is mapped as often as its allocations are, wherever they were     *)
(* moved. (SwapBlockAllocation, the bulk map of DefragmentPassEnd)            *)
MapsKept ==
  \A i \in DOMAIN defrag.blocks :
    LET here == {a \in DOMAIN defrag.allocs : defrag.allocs[a].block = defrag.blocks[i].id}
    IN  defrag.blocks[i].maps =
          FoldSet(LAMBDA a, sum : sum + defrag.allocs[a].maps + (IF defrag.allocs[a].mapped THEN 1 ELSE 0),
                  0, here)

(* A pass moves no more than it may, and with every algorithm but the         *)
(* extensive one each allocation to an earlier block or a lower offset, so    *)
(* that the passes come to an end. (CheckCounters, IncrementCounters)         *)
MovesDown ==
  /\ defrag.bytes <= defrag.limit.bytes /\ Len(defrag.moves) <= defrag.limit.allocs
  /\ defrag.algorithm # "extensive" =>
       \A j \in DOMAIN defrag.moves :
         LET src == defrag.allocs[defrag.moves[j].src]
             dst == defrag.allocs[defrag.moves[j].dst]
         IN  \/ IndexOf(defrag, dst.block) < IndexOf(defrag, src.block)
             \/ dst.block = src.block /\ dst.at < src.at

(* What a client has allocated keeps its size and kind, stays where it is     *)
(* until the end of a pass that moves it, and goes only when freed.           *)
(* (DefragmentPassEnd)                                                        *)
ClientsKept ==
  [][\A a \in DOMAIN defrag.allocs :
       LET old == defrag.allocs[a]
           new == defrag'.allocs[a]
           moves == {j \in DOMAIN defrag.moves : defrag.moves[j].src = a}
           ended == defrag.stage = "pass" /\ defrag'.stage # "pass"
       IN  ~ old.temporary /\ defrag'.stage # "crashed" =>
             IF a \notin DOMAIN defrag'.allocs
             THEN IF moves = {} THEN defrag'.moves = defrag.moves /\ ~ ended ELSE ended
             ELSE \/ new = old
                  \/ /\ ended
                     /\ \E j \in moves : LET dst == defrag.allocs[defrag.moves[j].dst]
                                         IN new = [old EXCEPT !.block = dst.block, !.at = dst.at]
    ]_defrag

MovedTwice ==
  \E j, k \in DOMAIN defrag.moves : j # k /\ defrag.moves[j].src = defrag.moves[k].src

(* Together: no place is lost, doubled or mapped wrongly by a move, and a     *)
(* pass is bounded, goes one way, and cleans up after itself. The program is  *)
(* stopped, by an assertion, an allocation used after its free or an index    *)
(* outside the vector, by the extensive algorithm alone, and there only if    *)
(* the pass moves one allocation twice (vk_mem_alloc.h:12742), a client has   *)
(* deleted a block under firstFreeBlock (12217), or more blocks are not to be *)
(* moved than are left, of which 12256 subtracts the one from the other.      *)
PassesSound ==
  IF defrag.stage = "crashed"
  THEN /\ defrag.algorithm = "extensive"
       /\ MovedTwice \/ defrag.shrunk \/ defrag.immovable > Len(defrag.blocks)
  ELSE PlacesOwned /\ MapsKept /\ TemporariesEnd /\ MovesDown
=============================================================================
