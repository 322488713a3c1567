------------------------------- MODULE Memory -------------------------------
(***************************************************************************)
(* How vkm's buffers and images get their memory: vk_mem_alloc.h from the  *)
(* memory type to the VkDeviceMemory, as buffer.cpp, image.cpp and         *)
(* context.cpp call it. One block vector for each memory type and one, 0,  *)
(* for the pool of a context. Threads create and destroy at the same time; *)
(* a step is what happens under one lock. Where in a block an allocation   *)
(* goes is the subject of Tlsf.tla and Linear.tla: here a block that is    *)
(* not empty may take it or refuse. What the driver says of the budget is  *)
(* any of Estimates.                                                       *)
(***************************************************************************)
EXTENDS DeviceMemory, Sequences, FiniteSets, SequencesExt

CONSTANTS
  Threads,
  Uses,              \* which kinds each thread may create; one has the context
  Handles,           \* names for allocations
  MemoryTypes,       \* a sequence of [flags, heap]
  HeapSizes,         \* what the driver has, by heap
  Preferred,         \* m_PreferredBlockSize
  Sizes,             \* of what is created
  Wishes,            \* what the driver may say of dedicated memory: <<kind, size, which>>
  Estimates,         \* how much of the budget may seem to be left
  Refuses,           \* the driver may refuse memory it has, and mappings
  MaxMemoryCount,    \* maxMemoryAllocationCount
  MaxCounter,        \* bound on the counters of the mapping hysteresis
  None

VARIABLES
  uses,       \* the kinds each thread creates
  blocks,     \* m_Blocks of each vector
  allocs,     \* handle -> the allocation
  thread,     \* what each thread is in the middle of
  memory,     \* the VkDeviceMemory there is, as [id, size, heap]
  counts,     \* m_Budget and m_DeviceMemoryCount
  died        \* vkm::fatal was called, and why

memoryVars == <<uses, blocks, allocs, thread, memory, counts, died>>

Heaps == DOMAIN HeapSizes
Vectors == 0 .. Len(MemoryTypes)
Types == 1 .. Len(MemoryTypes)
Kinds == {"host", "device", "scratch"}

MemoryFlags == {"device", "visible", "cached", "coherent", "uncached"}

Allocations ==
  [kind : Kinds, size : Sizes, vector : Vectors, dedicated : BOOLEAN,
   id : 1 .. MaxMemoryCount, maps : 0 .. 1]

ASSUME MemoryAssumption ==
  /\ Uses \subseteq [Threads -> SUBSET Kinds] /\ IsFiniteSet(Handles)
  /\ MemoryTypes \in Seq([flags : SUBSET MemoryFlags, heap : Heaps])
  /\ MaxMemoryCount \in Nat \ {0} /\ MaxCounter \in Nat
  /\ Sizes \subseteq Nat \ {0} /\ Preferred \in Nat \ {0}
  /\ None \notin Handles /\ None \notin Allocations

Idle == [pc |-> "idle"]

-----------------------------------------------------------------------------
(* FindMemoryTypeIndex, for host buffers and scratch buffers                *)
(* (AUTO_PREFER_HOST, sequential writes) and for device buffers and images. *)

HostFlags == {"visible", "cached", "coherent"}

DeviceFlags == {"device"}

(* noBARMemoryTypeBits, which restricts nothing when it is empty *)
NoBAR == {m \in Types : ~ {"device", "visible"} \subseteq MemoryTypes[m].flags}

Suits(type, kind) ==
  LET flags == MemoryTypes[type].flags
  IN  /\ NoBAR # {} => type \in NoBAR
      /\ (IF kind = "device" THEN DeviceFlags ELSE HostFlags) \subseteq flags

Cost(type, kind) ==
  Cardinality(MemoryTypes[type].flags \intersect
    IF kind = "device" THEN {"uncached"} ELSE {"cached", "device", "uncached"})

(* The cheapest of the types that suit and were not tried, the first of them *)
FindType(kind, tried) ==
  LET suiting == {m \in Types \ tried : Suits(m, kind)}
  IN  {m \in suiting : \A n \in suiting :
         Cost(m, kind) < Cost(n, kind) \/ (Cost(m, kind) = Cost(n, kind) /\ m <= n)}

(* The pool of a context is of the type a host buffer would first get. *)
PoolType == CHOOSE m \in FindType("host", {}) : TRUE

TypeOf(v) == IF v = 0 THEN PoolType ELSE v

HeapOf(v) == MemoryTypes[TypeOf(v)].heap

-----------------------------------------------------------------------------
MemoryInit ==
  /\ uses \in Uses
  /\ blocks = [v \in Vectors |-> <<>>]
  /\ allocs = [h \in Handles |-> None]
  /\ thread = [t \in Threads |-> Idle]
  /\ memory = {}
  /\ counts = [bytes |-> [p \in Heaps |-> 0], blocks |-> [p \in Heaps |-> 0],
               allocBytes |-> [p \in Heaps |-> 0], allocs |-> [p \in Heaps |-> 0],
               memories |-> 0]
  /\ died = "no"

MemoryOn(p) == {m \in memory : m.heap = p}

(* AllocateVulkanMemory: what the driver may answer *)
Granted(v, size) ==
  LET used == SumFunction([m \in MemoryOn(HeapOf(v)) |-> m.size])
      room == used + size <= HeapSizes[HeapOf(v)] /\ Cardinality(memory) < MaxMemoryCount
  IN  {yes \in BOOLEAN : (yes => room) /\ (~ yes => ~ room \/ Refuses)}

NewId == CHOOSE i \in 1 .. MaxMemoryCount :
  /\ \A m \in memory : m.id # i
  /\ \A j \in 1 .. i - 1 : \E m \in memory : m.id = j

(* The memory one gets for vector v *)
MemoryOf(id, size, v) == [id |-> id, size |-> size, heap |-> HeapOf(v)]

WithMemory(c, v, size) ==
  [c EXCEPT !.bytes[HeapOf(v)] = @ + size, !.blocks[HeapOf(v)] = @ + 1, !.memories = @ + 1]

(* Fault: the number of memories stays. *)
WithoutMemoriesCounted(c, v, sizes) ==
  [c EXCEPT !.bytes[HeapOf(v)] = @ - SumFunction(sizes), !.blocks[HeapOf(v)] = @ - Len(sizes)]

(* FreeVulkanMemory, of one after the other *)
WithoutMemories(c, v, sizes) ==
  [c EXCEPT !.bytes[HeapOf(v)] = @ - SumFunction(sizes), !.blocks[HeapOf(v)] = @ - Len(sizes),
            !.memories = @ - Len(sizes)]

WithoutMemory(c, v, size) == WithoutMemories(c, v, <<size>>)

(* AddAllocation *)
WithAllocation(c, v, size) ==
  [c EXCEPT !.allocBytes[HeapOf(v)] = @ + size, !.allocs[HeapOf(v)] = @ + 1]

(* RemoveAllocation *)
WithoutAllocation(c, v, size) ==
  [c EXCEPT !.allocBytes[HeapOf(v)] = @ - size, !.allocs[HeapOf(v)] = @ - 1]

(* The memory comes without a mapping; buffers for the host are mapped next. *)
Allocated(t, dedicated, id) ==
  LET r == thread[t]
  IN  /\ allocs' = [allocs EXCEPT ![r.handle] =
           [kind |-> r.kind, size |-> r.size, vector |-> r.vector,
            dedicated |-> dedicated, id |-> id, maps |-> 0]]
      /\ thread' = [thread EXCEPT ![t] =
           IF r.kind = "device" THEN Idle ELSE [pc |-> "map", handle |-> r.handle]]

-----------------------------------------------------------------------------
(* vmaCreateBuffer, vmaCreateImage *)

(* What the driver says of dedicated memory for what is created               *)
Dedications == {"indifferent", "prefers", "requires"}

(* AllocateMemoryOfType: dedicated memory first where the driver prefers it or *)
(* for more than half a block, unless there are many memories already.       *)
Attempt(r, v) ==
  LET first == /\ r.driver # "indifferent" \/ r.size > Preferred \div 2
               /\ counts.memories <= (MaxMemoryCount * 3) \div 4
  IN  [r EXCEPT !.vector = v, !.first = first,
                !.pc = IF r.driver = "requires" \/ first THEN "dedicated" ELSE "block"]

(* The memory types to begin with; the pool is of one a host buffer would get, *)
(* and a context without such a type is not created.                         *)
FirstTypes(kind) ==
  IF kind # "scratch" THEN FindType(kind, {})
  ELSE {v \in {0} : FindType("host", {}) # {}}

(* Without a memory type that suits it fails before any is tried. *)
Create(t, kind, size, driver, h) ==
  /\ died = "no" /\ thread[t].pc = "idle"
  /\ kind \in uses[t] /\ (driver = "indifferent" \/ <<kind, size, driver>> \in Wishes)
  /\ allocs[h] = None
  /\ \A u \in Threads : thread[u].pc # "idle" => thread[u].handle # h
  /\ IF FirstTypes(kind) = {}
     THEN died' = "unsuited" /\ UNCHANGED thread
     ELSE /\ \E v \in FirstTypes(kind) : thread' = [thread EXCEPT ![t] =
               Attempt([pc |-> "", handle |-> h, kind |-> kind, size |-> size, driver |-> driver,
                        vector |-> v, first |-> FALSE, tried |-> {}, refused |-> {}], v)]
          /\ UNCHANGED died
  /\ UNCHANGED <<blocks, allocs, memory, counts>>

(* Fault: a type that has no room is not followed by the next. *)
NextTypeNone(r) == {}

(* AllocateMemory: the next memory type; a pool has only its own. *)
NextType(r) ==
  IF r.kind = "scratch" THEN {} ELSE FindType(r.kind, r.tried \union {r.vector})

NextOrRefused(t, r) ==
  IF NextType(r) = {}
  THEN died' = "refused" /\ thread' = [thread EXCEPT ![t] = r]
  ELSE /\ thread' = [thread EXCEPT ![t] =
            Attempt([r EXCEPT !.tried = @ \union {r.vector}], CHOOSE v \in NextType(r) : TRUE)]
       /\ UNCHANGED died

(* AllocateMemoryOfType: dedicated memory last, if it was not first *)
AfterBlocks(t) ==
  LET r == thread[t]
  IN  IF r.first THEN NextOrRefused(t, r)
      ELSE thread' = [thread EXCEPT ![t].pc = "dedicated"] /\ UNCHANGED died

(* AllocateDedicatedMemory *)
Dedicated(t) ==
  LET r == thread[t]
      refused == [r EXCEPT !.refused = @ \union {r.vector}]
  IN  /\ died = "no" /\ r.pc = "dedicated"
      /\ \E yes \in Granted(r.vector, r.size) :
           IF yes
           THEN /\ memory' = memory \union {MemoryOf(NewId, r.size, r.vector)}
                /\ counts' = WithAllocation(WithMemory(counts, r.vector, r.size), r.vector, r.size)
                /\ Allocated(t, TRUE, NewId)
                /\ UNCHANGED died
           ELSE /\ IF r.first /\ r.driver # "requires"
                   THEN thread' = [thread EXCEPT ![t] = [refused EXCEPT !.pc = "block"]] /\ UNCHANGED died
                   ELSE NextOrRefused(t, refused)
                /\ UNCHANGED <<allocs, memory, counts>>
      /\ UNCHANGED blocks

FreeIn(b) == b.size - SumFunction([h \in b.used |-> allocs[h].size])

(* IncrementallySortBlocks: the first pair out of order, but not in a pool *)
SortedOnce(v, bs, free) ==
  LET wrong == {i \in 2 .. Len(bs) : free[bs[i - 1]] > free[bs[i]]}
      i == CHOOSE x \in wrong : \A y \in wrong : x <= y
  IN  IF v = 0 \/ wrong = {} THEN bs
      ELSE [bs EXCEPT ![i - 1] = bs[i], ![i] = bs[i - 1]]

(* Which of two blocks is asked first: where the host can map, one that is     *)
(* mapped as the request will be.                                            *)
AskedFirst(v, kind, i, j) ==
  LET alike(k) == blocks[v][k].mapped = (kind # "device")
  IN  IF "visible" \in MemoryTypes[TypeOf(v)].flags /\ alike(i) # alike(j) THEN alike(i) ELSE i <= j

(* The blocks that are asked: only the last of a pool                          *)
Asked(v) == IF v = 0 THEN DOMAIN blocks[v] \intersect {Len(blocks[v])} ELSE DOMAIN blocks[v]

(* The sizes a new block is tried with: an 8th, a quarter or a half of the    *)
(* preferred size while all blocks are smaller and two of the requests fit,   *)
(* then smaller again for as long as the request fits.                       *)
BlockSizes(v, size) ==
  LET Size(k) == Preferred \div <<1, 2, 4, 8>>[k + 1]
      Small(k) == k = 0 \/ (/\ \A i \in DOMAIN blocks[v] : Size(k) > blocks[v][i].size
                            /\ Size(k) >= size * 2)
      start == CHOOSE k \in 0 .. 3 : Small(k) /\ \A j \in k + 1 .. 3 : ~ Small(j)
  IN  {Size(k) : k \in {j \in start .. 3 : j = start \/ Size(j) >= size}}

(* CreateBlock, with the first size that is within the estimate and granted,  *)
(* or 0                                                                      *)
NewBlockSizes(v, size, left) ==
  LET asked == {s \in BlockSizes(v, size) : s <= left}
  IN  IF left < size THEN {0}
      ELSE {s \in asked : /\ TRUE \in Granted(v, s)
                          /\ \A u \in asked : u > s => FALSE \in Granted(v, u)}
           \union {s \in {0} : \A u \in asked : FALSE \in Granted(v, u)}

(* CommitAllocationRequest *)
Placed(b, h) == [PostAlloc(b) EXCEPT !.used = @ \union {h}]

(* VmaBlockVector::Allocate: an existing block, or a new one *)
FromBlocks(t) ==
  LET r == thread[t]  v == r.vector
      bs == blocks[v]
      Free(b) == b.size - SumFunction([h \in b.used |-> IF h = r.handle THEN r.size ELSE allocs[h].size])
      SetBlocks(to) == blocks' = [blocks EXCEPT ![v] = SortedOnce(v, to, [b \in Range(to) |-> Free(b)])]
      Counted(c) == counts' = WithAllocation(c, v, r.size)
  IN  /\ died = "no" /\ r.pc = "block"
      /\ \A i \in DOMAIN bs : bs[i].major < MaxCounter
      /\ \E refusing \in SUBSET {i \in DOMAIN bs : bs[i].used # {}} :
           LET able == {i \in Asked(v) \ refusing : FreeIn(bs[i]) >= r.size}
           IN  IF r.size <= Preferred /\ able # {}
               THEN \E i \in {k \in able : \A j \in able : AskedFirst(v, r.kind, k, j)} :
                      /\ SetBlocks([bs EXCEPT ![i] = Placed(@, r.handle)])
                      /\ Allocated(t, FALSE, bs[i].id)
                      /\ Counted(counts)
                      /\ UNCHANGED <<memory, died>>
               ELSE \E s \in IF r.size > Preferred THEN {0}
                             ELSE UNION {NewBlockSizes(v, r.size, left) : left \in Estimates} :
                      IF s = 0
                      THEN AfterBlocks(t) /\ UNCHANGED <<blocks, allocs, memory, counts>>
                      ELSE /\ memory' = memory \union {MemoryOf(NewId, s, v)}
                           /\ SetBlocks(Append(bs, Placed(NewBlock(NewId, s), r.handle)))
                           /\ Allocated(t, FALSE, NewId)
                           /\ Counted(WithMemory(counts, v, s))
                           /\ UNCHANGED died

WhereIs(v, id) == CHOOSE i \in DOMAIN blocks[v] : blocks[v][i].id = id

BlockOf(a) == blocks[a.vector][WhereIs(a.vector, a.id)]

(* vmaMapMemory, of a buffer just created: fatal when it fails *)
MapNew(t) ==
  LET h == thread[t].handle  a == allocs[h]
      fresh == ~ a.dedicated => NeedsMapping(BlockOf(a))
  IN  /\ died = "no" /\ thread[t].pc = "map"
      /\ ~ a.dedicated => BlockOf(a).major < MaxCounter
      /\ \/ /\ allocs' = [allocs EXCEPT ![h].maps = @ + 1]
            /\ blocks' = IF a.dedicated THEN blocks
                         ELSE [blocks EXCEPT ![a.vector][WhereIs(a.vector, a.id)] = Mapped(@)]
            /\ thread' = [thread EXCEPT ![t] = Idle]
            /\ UNCHANGED died
         \/ /\ fresh /\ Refuses
            /\ died' = "unmappable"
            /\ UNCHANGED <<allocs, blocks, thread>>
      /\ UNCHANGED <<memory, counts>>

-----------------------------------------------------------------------------
(* vmaUnmapMemory, vmaDestroyBuffer, vmaDestroyImage *)

Destroy(t, h) ==
  LET a == allocs[h]
  IN  /\ died = "no" /\ thread[t].pc = "idle"
      /\ a # None
      /\ \A u \in Threads : thread[u].pc # "idle" => thread[u].handle # h
      /\ a.kind \in uses[t]
      /\ a.kind # "device" /\ ~ a.dedicated => BlockOf(a).major < MaxCounter
      /\ thread' = [thread EXCEPT ![t] = [pc |-> "free", handle |-> h]]
      /\ IF a.kind = "device" THEN UNCHANGED <<allocs, blocks>>
         ELSE /\ allocs' = [allocs EXCEPT ![h].maps = @ - 1]
              /\ blocks' = IF a.dedicated THEN blocks
                           ELSE [blocks EXCEPT ![a.vector][WhereIs(a.vector, a.id)] = Unmapped(@)]
      /\ UNCHANGED <<memory, counts, died>>

(* FreeDedicatedMemory *)
FreeDedicated(t) ==
  LET h == thread[t].handle  a == allocs[h]
  IN  /\ died = "no" /\ thread[t].pc = "free" /\ a.dedicated
      /\ memory' = {m \in memory : m.id # a.id}
      /\ counts' = WithoutAllocation(WithoutMemory(counts, a.vector, a.size), a.vector, a.size)
      /\ allocs' = [allocs EXCEPT ![h] = None]
      /\ thread' = [thread EXCEPT ![t] = Idle]
      /\ UNCHANGED <<blocks, died>>

(* HasEmptyBlock, before the free *)
HadEmpty(bs) == \E b \in Range(bs) : b.used = {}

(* The block to delete: the one just emptied when there is another or the      *)
(* budget is exceeded, or else the last when it is empty.                      *)
NotNeeded(bs, i, had, exceeded) ==
  IF bs[i].used = {} THEN IF had \/ exceeded THEN {i} ELSE {}
  ELSE IF had /\ Last(bs).used = {} THEN {Len(bs)} ELSE {}

(* VmaBlockVector::Free, with its lock held; the budget was asked before.     *)
FreeInBlock(t) ==
  LET h == thread[t].handle  a == allocs[h]  v == a.vector
      i == WhereIs(v, a.id)
      bs == [blocks[v] EXCEPT ![i] = PostFree([blocks[v][i] EXCEPT !.used = @ \ {h}])]
      SetBlocks(to) == blocks' = [blocks EXCEPT ![v] = SortedOnce(v, to, [b \in Range(to) |-> FreeIn(b)])]
  IN  /\ died = "no" /\ thread[t].pc = "free" /\ ~ a.dedicated
      /\ blocks[v][i].major < MaxCounter
      /\ \E exceeded \in BOOLEAN :
           LET gone == NotNeeded(bs, i, HadEmpty(blocks[v]), exceeded)
           IN  \/ /\ gone = {}
                  /\ SetBlocks(bs)
                  /\ thread' = [thread EXCEPT ![t] = Idle]
               \/ \E j \in gone :
                  /\ SetBlocks(RemoveAt(bs, j))
                  /\ thread' = [thread EXCEPT ![t] =
                       [pc |-> "delete", handle |-> None, vector |-> v, block |-> bs[j]]]
      /\ counts' = WithoutAllocation(counts, v, a.size)
      /\ allocs' = [allocs EXCEPT ![h] = None]
      /\ UNCHANGED <<memory, died>>

(* The block found not needed is destroyed after the lock is given back.      *)
DeleteBlock(t) ==
  LET b == thread[t].block
  IN  /\ died = "no" /\ thread[t].pc = "delete"
      /\ memory' = {m \in memory : m.id # b.id}
      /\ counts' = WithoutMemory(counts, thread[t].vector, b.size)
      /\ thread' = [thread EXCEPT ![t] = Idle]
      /\ UNCHANGED <<blocks, allocs, died>>

(* vkm_context_destroy, once its scratch buffers are gone, and a new context. *)
DestroyPool(t) ==
  /\ died = "no" /\ thread[t].pc = "idle" /\ "scratch" \in uses[t]
  /\ blocks[0] # <<>>
  /\ \A h \in Handles : allocs[h] # None => allocs[h].kind # "scratch"
  /\ memory' = {m \in memory : \A b \in Range(blocks[0]) : m.id # b.id}
  /\ counts' = WithoutMemories(counts, 0, [i \in DOMAIN blocks[0] |-> blocks[0][i].size])
  /\ blocks' = [blocks EXCEPT ![0] = <<>>]
  /\ UNCHANGED <<allocs, thread, died>>

(* vkm::fatal aborted the process, or a counter is at its bound.              *)
Stopped ==
  /\ died # "no" \/ \E v \in Vectors : \E b \in Range(blocks[v]) : b.major = MaxCounter
  /\ UNCHANGED memoryVars

MemoryNext ==
  /\ \/ \E t \in Threads, kind \in Kinds, size \in Sizes, driver \in Dedications, h \in Handles :
          Create(t, kind, size, driver, h)
     \/ \E t \in Threads, h \in Handles : Destroy(t, h)
     \/ \E t \in Threads :
          \/ Dedicated(t) \/ FromBlocks(t) \/ MapNew(t)
          \/ FreeDedicated(t) \/ FreeInBlock(t) \/ DeleteBlock(t) \/ DestroyPool(t)
     \/ Stopped
  /\ UNCHANGED uses

MemorySpec == MemoryInit /\ [][MemoryNext]_memoryVars
-----------------------------------------------------------------------------
AllBlocks == UNION {Range(blocks[v]) : v \in Vectors}

Live == {h \in Handles : allocs[h] # None}

DedicatedHandles == {h \in Live : allocs[h].dedicated}

AllocationsOn(p) == {h \in Live : HeapOf(allocs[h].vector) = p}

Deleting == {thread[t].block : t \in {u \in Threads : thread[u].pc = "delete"}}

(* VmaBlockVector::AddDetailedStatistics: a field of the statistics *)
VectorStatistics(v, field) ==
  LET bs == blocks[v]
      used == UNION {b.used : b \in Range(bs)}
  IN  CASE field = "blocks" -> Len(bs)
        [] field = "bytes" -> SumFunction([i \in DOMAIN bs |-> bs[i].size])
        [] field = "allocs" -> Cardinality(used)
        [] field = "allocBytes" -> SumFunction([h \in used |-> allocs[h].size])

(* VmaDedicatedAllocationList::AddDetailedStatistics *)
DedicatedStatistics(v, field) ==
  LET there == {h \in DedicatedHandles : allocs[h].vector = v}
  IN  IF field \in {"blocks", "allocs"} THEN Cardinality(there)
      ELSE SumFunction([h \in there |-> allocs[h].size])

(* CalculateStatistics: block vectors, pools and dedicated allocations, summed *)
(* from memory types to a heap                                                *)
CalculateStatistics(p) ==
  [field \in {"blocks", "bytes", "allocs", "allocBytes"} |->
     SumFunction([v \in {w \in Vectors : HeapOf(w) = p} |->
       VectorStatistics(v, field) + DedicatedStatistics(v, field)])]

(* GetHeapBudgets: the same from the counters *)
HeapStatistics(p) ==
  [blocks |-> counts.blocks[p], bytes |-> counts.bytes[p],
   allocs |-> counts.allocs[p], allocBytes |-> counts.allocBytes[p]]

(* The types; the minor counter of a block never passes the major one, so    *)
(* that neither wraps below zero. (PostMinorCounter)                         *)
MemoryTypeOK ==
  /\ \A b \in AllBlocks :
       /\ b.id \in 1 .. MaxMemoryCount /\ b.size \in 1 .. Preferred /\ b.used \subseteq Handles
       /\ b.mapCount \in Nat /\ b.mapped \in BOOLEAN /\ b.extra \in 0 .. 1
       /\ b.minor \in 0 .. b.major
  /\ \A h \in Live : /\ allocs[h].kind \in Kinds /\ allocs[h].vector \in Vectors
                      /\ allocs[h].size \in Sizes /\ allocs[h].maps \in 0 .. 1
  /\ \A t \in Threads : thread[t].pc \in {"idle", "dedicated", "block", "map", "free", "delete"}
  /\ died \in {"no", "unsuited", "refused", "unmappable"}

(* A block is mapped exactly while a buffer in it is or the hysteresis holds  *)
(* on to it: the pointer in a vkm_hostBuffer stays good until it is destroyed,*)
(* whatever other threads do to the block. (Map, Unmap, PostFree)            *)
MapsCounted ==
  \A b \in AllBlocks :
    /\ b.mapCount = Cardinality({h \in b.used : allocs[h].maps = 1})
    /\ b.mapped <=> b.mapCount + b.extra # 0

(* Every VkDeviceMemory belongs to one block, one dedicated allocation or one *)
(* thread about to free it, and every allocation is in the block it names:    *)
(* nothing is leaked, freed twice or used after it was freed.                 *)
(* (CreateBlock, Free, FreeDedicatedMemory, ~VmaBlockVector)                  *)
MemoryOwned ==
  LET held == UNION {{v} \X DOMAIN blocks[v] : v \in Vectors}
      waiting == {t \in Threads : thread[t].pc = "delete"}
  IN  /\ {m.id : m \in memory} =
           {b.id : b \in AllBlocks \union Deleting} \union {allocs[h].id : h \in DedicatedHandles}
      /\ Cardinality(memory) =
           Cardinality(held) + Cardinality(waiting) + Cardinality(DedicatedHandles)
      /\ \A h \in Live \ DedicatedHandles :
           \E b \in Range(blocks[allocs[h].vector]) : b.id = allocs[h].id /\ h \in b.used

(* The counters are what there is: memory of each heap, allocations made in    *)
(* it, and VkDeviceMemory objects.                                            *)
CountersExact ==
  /\ counts.memories = Cardinality(memory)
  /\ \A p \in Heaps :
       /\ counts.bytes[p] = SumFunction([m \in MemoryOn(p) |-> m.size])
       /\ counts.blocks[p] = Cardinality(MemoryOn(p))
       /\ counts.allocBytes[p] = SumFunction([h \in AllocationsOn(p) |-> allocs[h].size])
       /\ counts.allocs[p] = Cardinality(AllocationsOn(p))

(* They agree with the statistics found by walking everything, in which the    *)
(* blocks that threads are about to destroy are missing.                       *)
StatisticsAgree ==
  \A p \in Heaps :
    LET walked == CalculateStatistics(p)
        doomed == {t \in Threads : thread[t].pc = "delete" /\ HeapOf(thread[t].vector) = p}
    IN  HeapStatistics(p) =
          [walked EXCEPT !.blocks = @ + Cardinality(doomed),
                         !.bytes = @ + SumFunction([t \in doomed |-> thread[t].block.size])]

(* The budget, which decides whether memory is asked for and blocks are kept,  *)
(* is exact after any calls of any threads. (AllocateVulkanMemory,             *)
(* FreeVulkanMemory, AddAllocation, RemoveAllocation, CalculateStatistics,     *)
(* GetHeapBudgets)                                                            *)
BudgetExact == CountersExact /\ StatisticsAgree

(* No vector keeps two empty blocks. (vk_mem_alloc.h Free: "Already had empty  *)
(* block. We don't want to have two, so delete this one.")                     *)
OneEmptyBlock ==
  \A v \in Vectors : \A i, j \in DOMAIN blocks[v] :
    blocks[v][i].used = {} /\ blocks[v][j].used = {} => i = j

(* The block a thread destroys without the lock holds no allocation and no     *)
(* mapping but the hysteresis's own. (VmaDeviceMemoryBlock::Destroy, the       *)
(* "most important assert in the entire library", and its destructor)          *)
DeletedUnused == \A b \in Deleting : b.used = {} /\ b.mapCount = 0

(* A buffer or image is refused, which vkm makes fatal, only after the driver  *)
(* refused memory of its own for it in every memory type that suits.           *)
(* (AllocateMemory, AllocateMemoryOfType)                                      *)
RefusedByDriver ==
  died = "refused" =>
    \E t \in Threads :
      /\ thread[t].pc \in {"dedicated", "block"}
      /\ thread[t].refused =
           IF thread[t].kind = "scratch" THEN {0} ELSE {m \in Types : Suits(m, thread[t].kind)}

(* Together: memory is owned, mapped and given back right whichever thread    *)
(* does what: (VmaBlockVector, VmaDeviceMemoryBlock)                          *)
MemorySound == MemoryTypeOK /\ MapsCounted /\ MemoryOwned /\ OneEmptyBlock /\ DeletedUnused
=============================================================================
