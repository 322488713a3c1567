# TLA+ models of vkm

vkm is a C++ library with a C interface that takes the bookkeeping out of a
Vulkan renderer: it finds a device that meets a client's requirements, recycles
semaphores and fences, keeps a ring of frame slots whose resources are given up
only when the GPU is done with them, drives swapchains, and hands out memory
through the allocator it carries along. This directory holds TLA+ models of
those parts, TLC configurations that check them on small instances, and TLAPS
proofs, for every value of the constants, of what matters most about frames,
handles, present modes, start-up, device memory, TLSF and linear blocks, installations,
the generator and the ring buffer.

Paths of the code are relative to the repository (`src/context/...`).

## How to run

    for c in Frames Present Modes TwoSwapchains Faulty NoMaint FailedAcquire FailedResize
      do tlc -workers 2 -config $c.cfg MCContext.tla; done
    tlc -workers 2 -config Standalone.cfg MCStandalone.tla
    tlc -workers 2 -config Device.cfg     MCDevice.tla
    tlc -workers 2 -config FailedInit.cfg MCStartup.tla
    tlc -workers 2 -config SharedPage.cfg MCTlsf.tla
    for m in ContextProofs HandleProofs SupportProofs StartupProofs CountingProofs \
             MemoryProofs LinearProofs TlsfProofs
      do tlapm $m.tla; done

The runs `FailedAcquire`, `FailedResize`, `FailedInit` and `SharedPage` are meant to
end in a counterexample; see Findings. `PROJECT.json` lists the runs, says which source
lines each definition translates, and gives for each checked property a mutation
of the model that breaks it. The mutated definitions stand in the modules before
the ones they replace, under a comment beginning "Fault:"; no specification uses
them.

## The system

| component | source | state | operations |
|---|---|---|---|
| Context | `src/context/`, `src/semaphore.cpp` | timeline semaphore and `pendingValue`; per frame slot: pending value, command buffers acquired and submitted, binary semaphores held, semaphores to wait on, scratch buffers, destroyers; `frameID` | create, destroy, begin, queueDestroyer, createScratchHostBuffer, acquireSwapchain, beginCommandBuffer, endCommandBuffer, end, wait |
| Swapchain | `src/swapchain/` | `VkSwapchainKHR`, images (each a semaphore and a fence), `imageIndex`, mode, extent, compatible modes, pending mode declaration | create, destroy, resize, changeVkPresentMode, acquire, semaphore, present |
| Sync objects | `src/device/sync/`, `device_sync.cpp` | two stacks of free handles | acquire and release of binary semaphores and fences, clear |
| Instance, Device | `src/vkm.cpp`, `src/device/` | the `VkInstance` and whether it is owned, loader and global function tables, debug messenger; devices and their UUIDs | init, shutdown, getProcAddr, initDevice, destroyDevice, look-up by UUID |
| Initializer | `src/initializer/` | requested extensions, two feature chains, formats, queue roles, surfaces; the order of candidate GPUs and why each was rejected | the find... calls, createInstance, ranking, createDevice |
| Containers | `include/vkm/std/` | arrays, lengths and capacities of `vector`, `ringbuffer`, `string`, `stringbuilder` | every operation that changes them |
| Structure chains | `src/reflect_struct.hpp` | a vector of structures linked by `pNext` | clone, append, drop |
| Vulkan Memory Allocator | `src/device/vma/vk_mem_alloc.h`, `device_vma.cpp` | blocks of device memory, the books kept inside each (TLSF or linear), mappings, dedicated memory, pools, budget counters, defragmentation passes | allocate, free, map, unmap, statistics, defragment |
| Buffers, images, barriers | `src/buffer.cpp`, `image.cpp`, `barrier.hpp` | none of their own | create and destroy through the allocator |
| Build and install | `make/make.go` | the files of an installation and its meta file | installVKM |
| Code generator | `make/gen.go`, `vkspec/` | the registry, and the entries computed so far | closure of extension dependencies, dispatch table, reflection of structures |

### How they interact

    client --begin/acquire/endCommandBuffer/end--> context
    context --acquire / semaphore / present------> swapchain
    context, swapchain --acquire / release-------> syncObjectManager of the device
    context --vkQueueSubmit2----> GPU queue      --timeline---> context (begin, wait)
    swapchain --vkQueuePresentKHR> engine        --fences-----> swapchain (present, ~image)
    engine --acquire semaphore--> GPU queue --release semaphore--> engine

    client --find.../create...--> initializer --vkm_init, vkm_initDevice--> instance, devices
    generator --tables--> initializer (dependencies), chains (structures), instance (commands)
    context, buffers, images --vmaCreate.../vmaDestroy...--> allocator --vkAllocateMemory--> driver
    allocator: memory types -> block vectors -> blocks -> TLSF or linear books

Around frames and swapchains the host is one thread. What runs concurrently with it is
the GPU's queue and the presentation engine, and everything the library recycles
(command buffers, buffers, semaphores, fences, swapchain images) is shared with
them. The whole difficulty is in the question *when may this be used again*,
which the code answers four ways: a timeline value per frame slot, a fence per
swapchain image, `vkDeviceWaitIdle`, and "the submission waits for it". The
allocator is the one part that takes locks: several threads use it at once.

### What makes each component correct, and what makes it hard

*Context.* `begin` destroys and recycles what a slot collected, while later
submissions are running, on the strength of one number. That number must bound
every use of everything in the slot. A semaphore handed back must be unsignaled
and in nobody's queue. Nothing may wait for what cannot come, since every wait
of the library is fatal after a second. Whatever was handed to `queueDestroyer`
must be destroyed in the end.

*Swapchain.* The release semaphore of an image is signaled by each submission
that presents it; the previous present must have consumed it. A resize gives
fences and semaphores of the old images to the new ones or to anyone else. An
index or a mode kept over a resize or a failure refers to something else than
it did. `vkSwapchainPresentModeInfoKHR` must name a mode the `VkSwapchainKHR`
was declared with.

*Sync objects.* `acquireFence(true)` hands out recycled fences as they are,
relying on a check made when they came in. Handles must not be lent twice.

*Instance, Device.* Who destroys an instance; a function pointer or a messenger
of one instance must not be called on the next; a UUID must find its GPU again.

*Initializer.* The comparator that ranks GPUs is not a strict weak ordering. A
GPU is given up after part of its queues, features and extensions have been
assigned, and nothing of that may reach the next. What is enabled must have its
dependencies enabled.

*Containers, chains.* A ring buffer that grows while it wraps, a formatted write
that runs out of room, a terminator one past the text, compacting in place,
chains in which copies and the caller's own structures are linked.

*Allocator.* The same facts are kept in several places (lists, two levels of
bitmaps, page counts, null-item counts, counters) and each drives decisions. A
block is mapped once for all its allocations. Blocks are taken from their list
under a lock and freed outside it. Allocations of different kinds must not share
a page. During a defragmentation pass everything exists twice, while other threads
free and allocate.

*Install.* An installation is judged by its meta file, and not everything it is made
from is looked at: after an interruption or an edit one that passes may be broken or
stale. *Generator.* Extensions share commands and structures, are promoted under other
names or cannot be enabled; what is left out for one may be needed for another.

`PROJECT.json` has the full list, "hazards", each at its line, with the
properties that cover it and what they do not cover.

## The modules

| module | what it is |
|---|---|
| `Vulkan` | the environment: one queue with its timeline, binary semaphores, fences, the presentation engine. Written from how `src/` uses them |
| `Swapchain` | EXTENDS Vulkan: the swapchain's state and its operations, as operators |
| `Context` | EXTENDS Swapchain: the frame slots, the next-state relation of the whole, the properties |
| `DeferredDestruction` | abstract: things are given up first, destroyed later, never while work uses them. `Context` implements it |
| `SyncObjects` | the syncObjectManager on its two stacks, with arbitrary borrowers |
| `SyncPool` | abstract: handles go round, none is forgotten, none is made while one is free. `SyncObjects` implements it twice, `Context` once |
| `Runtime` | instances, the function table, the debug messenger, devices and their UUIDs |
| `Initializer` | EXTENDS Runtime: a client's requests, and the device found for them |
| `RingBuffer` / `Fifo` | the circular array / abstract: the queue it implements |
| `Vector` / `Lists` | vectors on a heap of arrays / abstract: the independent lists they implement |
| `LinkedList` / `Orders` | `VmaIntrusiveLinkedList`, doubly linked through its items / abstract: the orders such lists implement |
| `PoolAllocator` | `VmaPoolAllocator`: blocks of items that hold an object or the index of the next free item |
| `Strings`, `Chains` | strings and their builder; structure chains |
| `Granularity` | `VmaBlockBufferImageGranularity`: pages and conflicts, as operators |
| `Tlsf`, `Linear` / `Heap` | the two books of a memory block / abstract: disjoint ranges, apart by page. Both implement it |
| `Statistics` | EXTENDS both: what a block says of itself, against what there is |
| `DeviceMemory` | a `VkDeviceMemory` and its mapping with hysteresis, as operators |
| `Memory` | EXTENDS DeviceMemory: allocation through memory types, blocks, pools and dedicated memory, by threads under locks |
| `Defragmentation` | EXTENDS Tlsf: the passes over a vector of TLSF blocks |
| `Install`, `Registry` | `installVKM`; the code generator |
| `MCContext` | values for TLC and symmetry sets for `Context` |
| `MCStandalone` | composes the components that share no state with others: the first state chooses which one runs, so the state space is the sum of theirs |
| `MCDevice`, `MCStartup` | composes `Initializer` and `Memory` likewise; the machines and clients of `Initializer` |
| `MCTlsf` | the requests made of a TLSF block |
| `ContextProofs` | proofs: types of `Context`; the frame invariant and the refinement of `DeferredDestruction`; destroyers; present modes |
| `HandleProofs` | proofs: semaphores, fences and images; that no wait times out |
| `SupportProofs` | proofs: the stacks are `SyncPool`s; the ring buffer is a `Fifo`; strings; structure chains; what a meta file stands for; the closure of dependencies |
| `StartupProofs` | proofs: instances and the function table; requests; the device that is found |
| `CountingProofs` | lemmas: sums over finite sets and sequences, cardinalities of what a step changes |
| `MemoryProofs` | proofs: who owns device memory and its mappings; the counters of the budget |
| `LinearProofs` | proofs: a linear block is in order, and implements `Heap` |
| `TlsfProofs` | proofs: the books of TLSF say what its blocks say, it refuses only what fits nowhere, and it implements `Heap` |

### Context and Swapchain against the code

Each entry point is an action, and so is each present of `endCommandBuffer`
after the submit, because a present blocks on a fence while the GPU moves.
A variable carries the name of the field it stands for. Some points are not
a field-by-field copy:

* **Blocking.** A host wait is the guard of the action that follows it (the
  timeline value reached, the fences signaled, the device idle). When the guard
  is false and the environment can never move again (`Stuck`), the action may
  instead set `fatal` to `"wait"`: this is the library's own timeout and abort.
  There is no clock, so work that is merely slow does not time out.
* **`fatal`.** `"misuse"` is a `vkm::fatal` that tests the caller's use of the
  interface, `"wait"` one that tests a wait (or `vkDeviceWaitIdle` never
  returning), `"abort"` an index out of bounds in `images`. The process then
  does nothing more. `endCommandBuffer` indexes `commandBuffers` just before it
  tests for an active one, so without one it may die of the index instead of the
  message; both are `"misuse"` here.
* **Frame slots** are functions over `Frames == 0 .. NumFrames-1`;
  `acquiredCommandBuffers # submittedCommandBuffers` of the current slot is the
  "active command buffer" test. Command buffers of a slot are its pool's first,
  second and so on, so a submission records its slot and ordinal.
* **The syncObjectManager** is two sets here. `Acquirable` says what the stack
  gives: what is free is taken before anything is created, and what is created
  is a handle nobody holds. Which free handle comes off the stack is left open.
  `SyncObjects` models the stack itself; both are shown to be a `SyncPool`.
* **Objects and buffers.** `live` is what exists. A command buffer may use
  anything that is live and was not given up in an earlier frame (`Usable`): the
  rule `vkm.h` states for `queueDestroyer`, which speaks of "this frame".
* **Images** are numbered from 1 and `NoIndex` is 0, for `UINT32_MAX`.
* **Present modes** are computed as in the code, `FindPresentMode` included.
  `vkSwapchain[sc].modes` is what the `VkSwapchainKHR` was declared with,
  `.mode` what it presents in.

### Start-up against the code

`Runtime` has one step per entry point of `vkm.cpp` and `device.cpp`; an instance
is lent to the library, given to it, or made by an initializer, and a `"trap"` is
the call of a null function. The build is a debug one, which does more. A system
(loader, instance functions it lacks, GPUs) is chosen at the start and never
changes. `Initializer` collects requests in any order and number up to
`MaxCalls`; `FindDevice` ranks the GPUs, any order the comparator allows being
possible where it is inconsistent; `CreateDevice` tries one GPU after the other,
one step each, up to the driver's own refusal. Extensions, feature structures and
formats are names, a feature is a pair of a structure and a field.

### The allocator against the code

The blocks of `Tlsf` are a sequence by offset, the doubly linked list of the code;
a block is known by its offset, the free lists hold offsets, `inner` and `classes` are
the two levels of bitmaps. Rounding of sizes to lists, the four strategies,
`CheckBlock` with alignment and granularity, splitting, merging and the null
block follow the code's arithmetic with smaller size classes (`Shift`,
`SecondLevel`). `Linear` has the two vectors with their three counts of null items,
in the modes empty, ring and double; the code swaps vectors by an index, here they change
places. Both may be asked for everything at any time.

`Memory` leaves open where in a block an allocation goes (a block that is not empty
may take or refuse it) and keeps everything around that: which memory types suit
and in which order, preference for existing blocks, new blocks at a half, a quarter
and an eighth of the preferred size, dedicated memory, pools, the budget, mapping
at creation, and the free of a block outside the lock. A step is what happens under
one lock; what a thread carries from one lock to the next is in `thread`. The
driver may refuse any allocation and says anything of the set `Estimates` about
the budget. It may prefer or require dedicated memory for what is created (`Dedications`).
A request no memory type suits ends in `died = "unsuited"`, as vkm makes it fatal.

`Defragmentation` is over blocks that are `Tlsf`'s own; a pass begins,
clients copy, refuse or destroy, other threads allocate and free, and the pass ends.
Whether the heap is over its budget is read at each free (`vk_mem_alloc.h:11616`) and
decides whether a block just emptied is deleted, so it is left open there. `VMA_ASSERT` is
`assert` in a debug build: an assertion that fails, an allocation used after its free
and an index outside the vector put the model in the stage `"crashed"`. The extensive
algorithm gets there, in three ways that `PassesSound` names; the others do not.

### Containers, chains, install, generator against the code

Cells of `Vector` and `RingBuffer` hold an element or are raw memory, so that constructing
over an element, or destroying or reading raw memory, shows; a `size_t` that wraps
does so at `MaxIndex`. Strings are arrays with a terminator, and what was never
written is `Garbage`. `Chains` has memory as places with an `sType` and a `pNext`;
entries of the vector own theirs or refer to the caller's. `LinkedList` has the two ends
and the count of each list and the two links of each item, as the code does; an item
remembers the list it is in, as `VmaAllocation_T` knows its pool. An item of `PoolAllocator`
is the object built in it or the index of the next free one; that is a union in the code,
so what an object overwrites is gone. `MoveAssign` overwrites the pointer it moves onto, as the
code does; the arrays leaked are collected in `lost`.

`Install` knows of each file what it was made from: make/, src/ and include/, which are
scanned for the newest modification time; the generator, compiled from make/ before the
scan; vkspec/, vulkan-headers and vulkan-docs. Each may change at any time, an edit may come
within the second of the last, and the process may be killed anywhere, in the removal
of the old installation too. The history `missed` collects what changed where the code cannot see it;
the properties say that nothing else is wrong with an installation left alone. cgodep, which writes and
compares meta files, is external. `Registry` takes the registry as parsed and leaves the order of Go's
maps open.

### The discipline of the client

Unless a constant says otherwise the client of `Context` does what the header
asks for: frame calls come inside begin and end; `end` and `destroyContext` do
not come while an acquired image awaits its submission; no resize, mode change or
destroy of a swapchain with an acquired image; no acquire from a swapchain whose last
create, resize or mode change failed; destroyers do not queue destroyers.
It may still call things in the wrong order inside a frame (a second
`beginCommandBuffer`, a present without an acquire, two acquires), which ends in
`fatal = "misuse"`. `Faults` are refusals of the driver: `"acquire"`, `"modes"`,
`"capabilities"`, `"format"`, `"create"`.

Each of the following constants drops one such rule. The runs keep the rule; with
it dropped TLC finds the property named violated, so what they say is how much the code
relies on its callers:

| constant | what is then allowed | what fails |
|---|---|---|
| `Liberties` has `"carryAcquire"` | a frame ends with an acquired image unsubmitted | `AcquiresWaited`: the wait list is the slot's, and the next frame has another (`context.cpp:405`) |
| `"resizeAcquired"` | a resize with an image acquired | `PresentsAcquired`: `imageIndex` survives (`swapchain.cpp:357`) |
| `"reentrant"` | destroyers queue destroyers | `DestroyersRemembered`: the list is cleared after the walk (`context.cpp:174`), or the slot is done with (136) |
| `LateCalls` | extensions asked for after `createInstance` | `EnabledUsable` (`initializer.cpp:332`) |
| `InitAgain` | `vkm_init` without an instance while one is owned | `RuntimeSound` (`vkm.cpp:218`) |
| `LongAppends` | chains of several structures appended by reference | `ChainsHold` (`reflect_struct.hpp:276`) |
| `PopsLast` | popping the only item of a linked list; nothing in `vk_mem_alloc.h` pops | `ContainersHold`: the other end keeps pointing to it (`vk_mem_alloc.h:5566`, `5583`) |
| `IndexEmpty` | indexing an empty ring buffer | `RingSound`: the bound wraps (`ringbuffer.hpp:104`) |
| `UpperOnPages` | the upper side of a linear block where pages matter; vkm does not use it | `LinearIsHeap` |
| `WithinPage` | requests no larger than a page, on a device that counts pages | `TlsfIsHeap`: run `SharedPage` |

What the code does wrong by itself no constant rules out. The properties name it, and say that
it is all:

| property | what it lets the code do |
|---|---|
| `ArraysOwned` (in `ContainersHold`) | a move onto a vector that has an array leaks the array (`vector.hpp:214`); `swapchain.cpp:522` makes such a move when the present mode changes twice before a present |
| `MetaMeansComplete`, `UpToDate` (in `InstallSound`) | a removal cut short may spare the meta file of a broken installation (`make.go:139`); not seen are changes of vkspec/ (73) and vulkan-docs (99), an edit in the second of an earlier one (116), one of make/ after the process was compiled, and vulkan-headers replaced while they are in use |
| `CommandsLookedUp` (in `TablesFound`) | a command that some extension not on offer has is not looked up, even if one on offer has it too (`gen.go:209`) |
| `StructsReflected`, `StructsListed` (in `TablesFound`) | a structure several extensions have may be reflected for none (`gen.go:331`), one without another name is left out with an extension taken to be in the core (324), and a platform's or promoted extension may list one twice |
| `PassesSound` | the extensive algorithm stops the program after moving one allocation twice in a pass (`vk_mem_alloc.h:12742`), after a client's free has deleted a block under `firstFreeBlock` (12217), or with more immovable blocks than blocks (12256) |
| `LinearStatisticsExact` | `AddStatistics` undercounts the allocations of a ring (`vk_mem_alloc.h:7709`; nothing in vkm reads the count) |

## The runs

| run | instance | question |
|---|---|---|
| `Frames` | 2 slots, 2 objects, 1 scratch buffer, 4 submissions | is anything destroyed, recycled or reset under the GPU; is anything given up forgotten; do the slots implement `DeferredDestruction` |
| `Present` | 1 swapchain, 2 images, 4 semaphores, 2 fences, 2 slots, 3 submissions, maintenance1 | do semaphores and fences go round without being reused early; is what is presented acquired |
| `TwoSwapchains` | 2 swapchains of 1 image, 3 fences, 2 submissions, `maxPendingFrames` 0 | does any wait hang, and is every acquire waited for, where one submission serves two swapchains and there is one slot |
| `NoMaint` | 1 swapchain of 1 image, 1 object, 2 slots, 2 submissions, no maintenance1, fair | the same handles where the device is waited for instead of fences; does every destroyer run |
| `Modes` | 4 modes, 3 supported, 2 compatible; 2 extents; 1 slot; 2 submissions, fair | are modes switched in place only where allowed; does every submission complete |
| `Faulty` | every fault and every liberty, 1 slot, 2 submissions | what survives all of them: the frame invariant and the single holder of a semaphore |
| `Standalone` | the twelve parts of `MCStandalone` | does each part keep its books, and implement its abstract specification |
| `Device` | five machines; two threads on three memory types | does the device fit its request; is memory owned, mapped and counted right |

`Standalone` has 384 003 distinct states and takes nearly three minutes; `Device`
1 987 143 and as long. Some properties are conjunctions, one name per
question; the parts are defined, with their own comments, in the component's module:

| property | parts |
|---|---|
| `FramesSound` | `TypeOK`, `FrameInvariant` (which holds `NoUseAfterFree`, `CommandBuffersDone`) |
| `HandlesSafe` | `OneHolder`, `UnheldIdle`, `PooledFencesSignaled` |
| `StacksSafe`; `StacksArePools` | `TypeOK`, `StacksExclusive`, `FreeFencesSignaled`; `SemaphoresPooled`, `FencesPooled`, `FencesAsAsked` |
| `RingSound` | `RingTypeOK`, `CellsInUse`, `IndexAnswers` |
| `ContainersHold` | of vectors, `TypeOK`, `CellsBuilt`, `ArraysOwned`, `VectorsAreLists` (refinement of `Lists`), `CompactIsExact`; of linked lists, `ListsThreaded`, `ListsAreOrders` (refinement of `Orders`); of the pool allocator, `ObjectsIntact`, `FreeListsExact`, `GrowsOnlyWhenFull` |
| `StringsHold`; `ChainsHold` | `StrTypeOK`, `Terminated`, `EqualMeansSame`, `WritesAppend`, `AssignTakes`; `ChainTypeOK`, `ChainLinked`, `AppendsAll` |
| `InstallSound` | `InstallTypeOK`, `MetaMeansComplete`, `UpToDate` |
| `TlsfSound` | `TlsfTypeOK`, `ListsExact`, `Coalesced`, `TlsfValid`, `RefusedOnlyIfFull` |
| `LinearSound`; `StatisticsExact` | `LinearTypeOK`, `LinearValid`, `ItemsFound`, `EmptyIsFresh`; `TlsfStatisticsExact`, `LinearStatisticsExact` |
| `PassesSound` | `PlacesOwned`, `MapsKept`, `TemporariesEnd`, `MovesDown` |
| `TablesFound` | `RegistryTypeOK`, `CommandsLookedUp`, `StructsReflected`, `StructsListed` |
| `RequestsSound`; `RuntimeSound` | `StartupTypeOK`, `ChainsInStep`, `PreferredFirst`; `ProcsCurrent`, `InstancesOwned`, `UuidNamesDevice` |
| `DeviceFits`; `EnabledUsable` | `DeviceAsRequired`, `QueuesAsRequired`; `DependenciesEnabled`, `FeaturesBacked` |
| `MemorySound` | `MemoryTypeOK`, `MapsCounted`, `MemoryOwned`, `OneEmptyBlock`, `DeletedUnused` |

Alone stand `DestroyersRemembered`, `DestructionDeferred`, `PresentsAcquired`, `SignalsUnsignaled`,
`SemaphoresRecycled`, `ModeInEffect`, `SubmissionsComplete`, `NeverHangs`,
`AcquiresWaited`, `DestroyersRun` of `Context`; `RingIsQueue`, `TlsfIsHeap`, `LinearIsHeap`
(refinements), `ClientsKept` (what a client allocated moves only at the end of a pass that moves it);
`DependenciesComplete` (the generator lists all that an extension needs); `FirstThatFits` (the device is made from the first GPU nothing is held against, and
every one before it is listed with a reason), `BudgetExact` (the counters are what there
is and agree with a walk over everything), `RefusedByDriver` (a client is refused only
after the driver refused in every suitable memory type).

### Bounds

*Context.* `MaxValue` bounds submissions in the life of a context (contexts come and go
without bound), `MaxWaits` a slot's wait list, `MaxPresents` the swapchains of one
submission.

* With two slots and four submissions a slot is reused twice while the other has
  work in flight, and a frame may submit nothing, once or more than once.
* With two images and two slots both images are on the engine's side at once,
  an image comes around with its own fence pending, and a resize meets a present
  in flight. Four semaphores are the two images' and two more on loan to slots,
  so the free list is both empty and not empty on some acquisition. A larger
  instance only adds idle handles, since `Acquirable` creates only when
  nothing is free.
* Three submissions are enough for acquire, present, and acquire of the same image
  again, with a resize in between.
* That the bounds are enough is proved rather than argued for the properties under
  "What is proved".

*Standalone.* Three semaphores and three fences put a handle below, between and above
others on a stack. A ring of capacity up to 6 grows twice while it wraps (0, 1, 3, 6).
Strings of up to 2 characters in builder blocks of 2 meet every end of a block
exactly, one short and one over. Chains of up to 3 structures in 5 places, two
vectors on two arrays with capacity up to 4 and the doubling ending at `Threshold` 3 (an array
leaked is one less to allocate, and both may be), two changes of what an installation is
made from, with any number of runs and kills. Two linked lists share four items, so that one is moved onto
another while both have ends and a middle. Four objects in item blocks of 2 and 3 fill
one block, grow a second, and free in any order. A TLSF block of 20 bytes, with requests of five shapes and sizes in
small and large lists, four allocations at a time, granularity 2 (met by rounding)
and 4 (met by pages); with four allocations there are up to five free blocks, two of them on
one list. A linear block of 10 with pages of 1 and 4 and at most 4 live items is
compacted above 3, turned into a ring and a double stack, and emptied from either
end. Defragmentation has up to three blocks, three allocations in the life of a behaviour (of a
mapped kind, one the client maps, and an image), passes of 2 moves and 15 or 20 bytes, and gives
a pass up after 2 ignored allocations: enough for each of the ways the program is stopped.
Registries: all of four extensions that need each other without a cycle, in every
mix of alternatives, kinds and promotion into the core; and one extension promoted to another or into
the core, beside a third that may be invalid, provisional or of a platform and may share its commands
and structures, keep a structure or add one.

*Device.* Machines: `mixed` (the preferred kind is not enumerated first, and one GPU lacks an
extension), `uneven` (three GPUs that fail for different reasons, among them the driver's
refusal), `broken`, `incompatible`, `headless`. Three requests in any order cover a
required and an optional one of the same thing and one of another. Memory: two threads, two
allocations and three `VkDeviceMemory` at a time are the fewest with which one thread deletes an
empty block while another allocates; sizes 2 and 5 against a preferred block of 8
and heaps of 5 and 8 give shared blocks (the driver may prefer dedicated memory for an image of 2
and require it for one of 5), full blocks, dedicated memory and a heap
at its limit; counters of the hysteresis go to 3, past the 2 at which it keeps a mapping.

*Symmetry.* Semaphores, fences, objects, buffers, swapchains, names of strings and
vectors, characters, instances and allocation names are interchangeable (nothing
orders them, and no property tells them apart). `Modes` and `NoMaint`, which have
liveness properties, and the runs that end in a counterexample use none.

Deadlock is checked everywhere: an abort stutters explicitly, and the parts of a
behaviour that are done do too.

### Fairness

`FairSpec` assumes weak fairness of:

* the engine's acquire signals, the execution of batches, the engine's work on
  presents (three conjuncts): a Vulkan implementation makes forward progress, and
  the library itself gives it one second before it dies;
* `Begin`, `BeginCommandBuffer`, `EndCommandBuffer`, `PresentNext` and `End`: the
  calls return once what they wait for is there, and the client is a render loop
  that keeps making frames and submits in them. The header requires each `begin`
  to be matched by an `end`, and an acquired image to be followed by a submission.

Nothing is assumed of resizes, mode changes, acquires, or of creating and
destroying anything. The batch at the head of the queue may depend on an engine's
signal; no fairness can make it run if that signal was never promised, which is
what `SubmissionsComplete` is about.

The other components have no liveness property: their calls return by themselves, and
what ends in them (a search through GPUs, a defragmentation) is bounded by
what `FirstThatFits` and `MovesDown` say of each step.

## What is proved

`tlapm` checks the eight proof modules for every value of the constants that meets the
named assumptions: the bounds are numbers, objects and scratch buffers are
different things, there is at least one image, FIFO is among the supported
modes, a mode is compatible with itself (`Swapchain`, `Context`); an element is not raw
memory and capacities stay below the width of an index (`RingBuffer`); sizes and
counters are numbers, allocations are finitely many (`Memory`); sizes and alignments asked for are
positive, what is allocated is not of the type of a free item, pages and the block have a size
(`Linear`, `Tlsf`); an alignment no smaller than a page is a multiple of it, both being powers of two, and a size class has no
more lists than the smallest size in it (`Tlsf`); a registry names what it describes (`Registry`); what Vulkan and the generated
tables promise about extensions, and that clients ask for at least as many queues at most as
at least (`Runtime`, `Initializer`; below); nothing (`SyncObjects`).
No number of slots, images, swapchains, handles, submissions, GPUs, requests, threads, memory
types, allocations or edits is assumed.

*Frames (`ContextProofs`), for every set of faults and liberties.*
`TypeOK` is not inductive: `TypeInvariant` adds `Shape` (a swapchain handed out has a real
mode, its images are all there or none, a present still to be made has an image
behind its index), and `TypeCorrect` follows. `FrameInvariant` says that the queue holds consecutive timeline
values up to `pendingValue` (`QueueNumbered`), that each slot remembers a value that
bounds every submission using what the slot collected (`SlotsRemember`), and that
nothing is collected twice (`RetiredOnce`). `begin` waits for the remembered value, the
queue is numbered, so what it gives up is used by no unfinished submission:
`NothingFreedInUse`, `CommandBuffersReusable`, and with `TypeCorrect`,
`FramesAlwaysSound`. `FramesDeferDestruction` is the refinement of
`DeferredDestruction`: `QueueDestroyer` is its `Retire`, `CreateScratchHostBuffer` its `Lease`,
`EndCommandBuffer` its `Submit`, `ExecuteBatch` its `Finish`, `Begin` and
`DestroyContext` its `Destroy`, all else a stutter. It is for clients whose destroyers queue nothing:
`destroyContext` may run such a destroyer in the very call that queued it.

*Destroyers and modes (`ContextProofs`).* `DestroyersAlwaysRemembered`, for clients whose
destroyers queue nothing, needs that what is live and was handed over is in a slot's
list, through every frame and every end of a context. `ModeAlwaysInEffect`, where no resize fails
for want of a surface format (`Faults` without `"format"`), rests on `ModesDeclared`: the modes a
swapchain takes for compatible were declared when its `VkSwapchainKHR` was created, and the mode set
is in effect or is one of them that the next present will declare.

*Handles (`HandleProofs`), for clients that neither carry an acquire over a frame
nor resize an acquired image (`Disciplined`), whatever the driver refuses.*
`HandleInvariant` says who holds each handle. A semaphore is lent to one slot or to one
image (`Exclusive`); one that is not lent is idle (`UnlentIdle`). A submission waits only for semaphores lent to
its slot, and when a frame is over none is left to be waited for (`WaitsLent`, `PromisesWaited`); it
signals only semaphores lent to an image, each once (`SignalsLent`). A present still to be executed
matches the image it is of, and its fence (`PresentsMatch`, `PresentsOnce`). `FrameInvariant`
is used in `Begin`: the slot's value is reached, so no batch waits for the
semaphores it gives back. A resize waits for the fences of the images, so the presents
of those images are past their wait before their handles go. From it follow
`HandlesAlwaysSafe`, `PresentsAlwaysAcquired`, `AcquiresAlwaysWaited`,
`SignalsAlwaysUnsignaled` and the refinement `SemaphoresAlwaysRecycled` (slots and images
together implement `SyncPool`). Both exclusions are needed: with either liberty one of
these properties fails, as the table of liberties says.
`OneHolderAlways` needs neither exclusion: `Exclusive` alone is kept by every step,
whatever the driver and the client do, so a semaphore may come back too early but never twice.

*Waits (`HandleProofs`), for disciplined clients and a driver that refuses no acquire.*
`WaitInvariant` says that what a submission waits for is signaled or promised by the
engine (`WaitsComing`) and is waited for once (`WaitsDistinct`); that a present waits for what the
queue will signal (`PresentsComing`); that an image that is not available is acquired, or
in a present that releases it (`ImagesReturn`); that a fence that is not signaled is in a
present that signals it (`FencesReturn`). If no step of the GPU or the engine is
possible, the queue and the presents are then empty (`StuckIsDone`), so every value is
reached, every fence signaled and an image available (`StuckIsHarmless`): whoever
waits then is let go. Hence `NeverHangsAlways`. The run `FailedAcquire` shows that the
exclusion of refused acquires is needed.

*Sync objects (`SupportProofs`).* `StacksSafe` is inductive as it stands: a handle is on
a stack once, and not while lent, so resetting the fence on top leaves
the others signaled. `HandlesExclusive`, `RecycledFencesSignaled`, `FencesCorrect`
and the refinements of `SyncPool` follow, gathered in `StacksAlwaysSafe` and `StacksPool`.

*Ring buffer (`SupportProofs`).* `RingInv` joins the layout and the cells in use;
the work is in `reserve`, which moves the wrapped part. `RingTypeCorrect`, `RingCellsInUse`
and the refinement of `Fifo` (`RingImplementsQueue`) hold for any calls;
`RingIndexAnswers` and `RingAlwaysSound` assume `IndexEmpty = FALSE`, that is, that nobody indexes an empty buffer
(`ringbuffer.hpp:104` lets every index pass then).

*Strings (`SupportProofs`), for any texts and any size of block.* `StrInvariant` says that each string
either has no array or shows a text (`Shows`): its characters, then the terminator, within the array, whatever garbage
lies behind. A write that does not fit leaves the array cut off, and the text before it must survive both that and the
growing (`RoomFor`, `GrownEnough`) for the second attempt to append all of it. The comparison walks to the
first difference; that it answers what comparing the texts answers (`SameIsEqual`) is by a least counterexample.
`StringsAlwaysHold` needs no assumption on the calls.

*Structure chains (`SupportProofs`), where chains of several structures are only copied (`LongAppends = FALSE`).*
`ChainInvariant` says that the vector's structures are there and each links to the next, that those it owns are none of the
caller's, and that the caller's are linked as it left them (`Structured`), except one that was lent to a chain since dropped and
links to where the next was. The walk is recursive, so that it has an answer at all is
proved first: `WalksEnd` gives one in every state of the invariant, `WalkIs` that along linked structures it finds
those. Cloning and lending are both a chain that is continued (`Continues`), which keeps the invariant and
adds what was handed in. `ChainsAlwaysHold` follows.

*Start-up (`StartupProofs`).* `RuntimeInvariant` joins the types with `ProcsCurrent` and
`InstancesOwned`; it is kept as long as nobody calls `vkm_init` while an instance is owned
(`InitAgain = FALSE`), and gives `RuntimeAlwaysSound`. `StartupInvariant` is about the search: the requests
are typed (`Requested`), every GPU before `at` is in the reasons and they are all in the
order found (`Searching`), that order has the preferred type first (`PreferredFirst`), and
each list of extensions holds what its members depend on (`Closed`). `DeviceAlwaysFits`
and `FirstAlwaysFits` follow for every client. `RequestsAlwaysSound` needs that the chains of required
and of optional features hold the same structures in the same order. They are built by
folds over sequences; what a fold does is proved with a least counterexample
(`AppendAllIs`, `OrdersStayEqual`), since the induction theorems cannot be used.
`DependenciesAlwaysEnabled` and `EnabledAlwaysUsable` are for clients that ask before they create the
instance (`LateCalls = FALSE`); `Scanned` says that an initializer that made the instance either knows of
nothing but instance extensions or has enabled what of them the instance has.
`EnabledAlwaysUsable` also takes a driver that reports a feature only along with the extensions that
define it (`ExtensionsOfFeatures`); without that a feature whose extension was promoted under another name is
enabled without it.

`StartupAssumption` is what these rest on: dependencies are closed (`DependenciesComplete` is about the generator
that makes them so), an instance extension depends only on instance extensions, a driver
that has an extension has what it depends on, and the structures the library asks for itself
are of the core.

*Device memory (`MemoryProofs`), for any threads under the locks and any refusals of
the driver.* A step ends where a lock ends, so half of `MemoryInvariant` is about what threads carry
from one lock to the next: a request has its handle to itself (`InFlight`) and is refused by the types it
tried (`Trying`), a block taken out of its vector is empty and unmapped (`Unused`). The other half is
about what is stored: an allocation is in the block it names and in no other (`Located`),
a host buffer is mapped unless a thread is just creating or destroying it (`MapsKept`), a block counts
the mappings in it (`Counted`), a vector has at most one empty block (`OneEmpty`), and every
`VkDeviceMemory` belongs to one vector, one thread or one dedicated allocation (`OwnedOnce`,
`AllOwned`). The last two carry `MemoryAlwaysSound` through `DeleteBlock`, which runs outside the lock;
`Trying` gives `RefusedOnlyByDriver`.

The counters are sums over sets, and each step adds to one or takes from one. `BudgetInvariant` adds to
`MemoryInvariant` that every owner of memory knows its size and heap (`Sized`), which is what
the counters are changed by, and that they equal the sums over the memory and the allocations there are
(`MemoryExact`, `AllocationsExact`). It gives `BudgetAlwaysExact`. The statistics walk the blocks and
the dedicated allocations, the counters know nothing of either, so the two sums are shown equal by
renaming one's elements to the other's (`SumRenamed`) after splitting both (`SumApart`, `SumOfSums`,
`SumOfParts`). All of these (`CountingProofs`) follow from one lemma, `SumIsCount`: a sum of numbers is the cardinality of a set of
pairs. It is proved by a least counterexample over the size of the set, the only place where
the definition of a fold is opened; after it there are only bijections.

*Install (`SupportProofs`), for any number of changes and kills.* `InstallInvariant` says that the
process was compiled from what it scans, up to what changed unnoticed (`CompiledFresh`); that what it has
made is there and of what there is, as long as no edit came that the next scan sees (`MadeFresh`); that
the products a meta file stands for are so too, unless a removal was cut short (`MetaFresh`); and that no meta
file stands while others are made, except one left alone (`MetaOlder`). The versions only grow, so one
that is the present one was never passed by an edit with another time: `InstallAlwaysSound`. Nothing is
assumed of when edits come or where the process dies; what the code cannot see is in the statement.

*Linear blocks (`LinearProofs`), for any requests on either side and any pages.* `LinearInvariant`
says in which order the two vectors are, null items included: each ascends, or descends if it
is the upper stack, a ring's 2nd vector ends before what is left of the 1st begins, and the 1st ends before the
upper stack (`InOrder`). It says that the three counts are the null items there are, those of
`nullBegin` at the beginning (`Counted`), that no null item is left at an end where it can be dropped
(`NoneToDrop`), and that `sumFree` is the size less what is allocated (`SumRight`). The last is why Free and
CleanupAfterFree have to be taken apart: between them only `Loose` holds, the
first two, and each stage of the clean-up (trimming both vectors, compacting, leaving a mode, swapping the
vectors) is shown to keep it and to add a part of the rest. An allocation shows in `Live`, what there is of
the two vectors; every stage of the clean-up leaves it alone. `LinearAlwaysSound` follows: the code's Validate
passes, Free finds every allocation where it looks for it (a binary search relies on the
order of null items too), and an empty block is as it began.

`LinearImplementsHeap` is the refinement of `Heap`: a new range lies apart from every other and is not on a
page with one it conflicts with. Looking back through a vector as long as items are on the same page
is enough, because the vector is in order (`BehindIs`). It assumes that the upper side is not asked for where
pages matter (`UpperOnPages = FALSE`): CreateAllocationRequest_UpperAddress moves a request that conflicts to
the start of its page and does not look again (`vk_mem_alloc.h:8809`), though the range may still end on the page of the one
above it.

*TLSF blocks (`TlsfProofs`), for any size of the block, any size classes and any requests.* `TlsfInv` says
that the physical blocks lie end to end from 0 to the size of the memory block (`Laid`), that the books of those that are
free are right (`Books`: a list holds the blocks of its sizes, each once; the two levels of bitmaps have a bit for a
list that is not empty and for a class that has one; the counters are their number and the sum of their sizes), that
no free block has a free neighbour (`NoNeighbours`), and that a page is counted once for each allocation
that begins or ends on it (`PagesExact`). Between the steps of Alloc and Free less is so: the block taken or given
back is neither free nor used, its neighbours may be free. `Held` and `Around` say what is, and each step (the
search, the trimming in front, the split behind, the merges) is shown to keep them and the last one to close the gap. The
size classes need arithmetic: powers of two as a recursive function, the highest bit, and that one list has one class and one
second level, each by a least counterexample. `TlsfRight` follows: the code's Validate passes.

That a request is refused only if it fits in no free block (`RefusedOnlyIfFull`) is about the search. Lists are in the order of sizes
(`ListMonotone`), the size CreateAllocationRequest rounds up to is on the very next list (`NextIs`), FindFreeBlock answers the
first list from there on that has a block (`FoundIs`); so the list of the size itself, the next one found
and those after it hold all that is large enough (`ListsHaveAll`), and each of the four strategies gets to them
and to the null block (`SearchAll`).

`TlsfImplementsHeap` is the refinement of `Heap`. `TlsfKinds` says what pages know: where they are counted, an allocation that begins or
ends on a page has the type the page remembers, or both are linear; where the granularity is small, what is tiled begins
and ends at whole pages. It assumes that requests are larger than a page where pages are
counted (`WithinPage = FALSE`). A range that moved to the next page and ends in it is not compared with what is there
(`vk_mem_alloc.h:7048-7053`), which is the finding `SharedPage`; one larger than a page ends on a later page, which is looked at.

*The generator (`SupportProofs`), for every registry that names what it describes.* The order in which Go visits its
maps is left open, so `RegistryInvariant` says what is true of an extension whatever has been visited: it is named with its
direct dependencies (`Named`) in the first pass, and completed with the closure of them (`Completed`) in the
second, whichever were completed before it. `Closure` is stated as the least set that has what its
members want; the recursion of `All` is shown to compute it by way of the
counterexample that lacks the fewest extensions. `DependenciesAlwaysComplete` is that the result is sufficient, minimal,
and each dependency in the list of its kind. This is what `StartupAssumption` takes for granted of the tables.

### Only model-checked

* `StatisticsExact`, `TablesFound`, `ContainersHold`. The
  statistics and the tables are folds over lists, so what they compute is an induction over data.
* `PassesSound`, `ClientsKept`: `Defragmentation` uses recursive operators, which the prover's backends cannot take.
* `SubmissionsComplete`, `DestroyersRun`: the prover cannot reason about fairness.

## Findings

Four runs end in a counterexample; `PROJECT.json` has the whole text.

* `FailedAcquire` (`NeverHangs`). `acquireSwapchain` puts a semaphore in the wait list
  before it knows whether the acquire succeeded, and leaves it there when it did
  not (`context.cpp:262-271`). The next submission waits for a semaphore nobody signals,
  and the next wait of the context is fatal.
* `FailedResize` (`NeverOutOfBounds`). A resize that fails at `findSurfaceFormat` leaves a swapchain
  with no images and its old extent and mode; `changeVkPresentMode` with those answers
  `VK_SUCCESS` (`swapchain.cpp:506-511`), and the next acquire indexes an empty vector.
* `FailedInit` (`ShutdownReturns`). In a debug build whose instance lacks the debug-utils
  functions, `vkm_init` fails and refuses to be called again before `vkm_shutdown`, which
  then calls a null function (`vkm.cpp:121`, `226`).
* `SharedPage` (`TlsfIsHeap`). A request moved to the next page, which ends in that page, is
  not compared with what is there (`vk_mem_alloc.h:7048-7053`): a buffer and an optimal
  image share a page.

## Not modelled

* Context and swapchain: the client's own wait and signal semaphores in
  `endCommandBuffer`; fatal errors of Vulkan other than timeouts; errors of
  `vkGetSwapchainImagesKHR` and `vkCreateImageView`; the choice of surface format and number of
  images; reuse of a retired `oldSwapchain` after a failed resize; what the engine still
  does with the semaphores of a replaced swapchain after its waits; the test for an
  active command buffer in `begin`, which cannot be reached; two contexts or two
  threads on one device, except in `Memory` (no source says which calls may run
  concurrently).
* Logger and allocation callbacks, property and function tables: passed
  through, or filled once and read. The list of validation layers: fixed.
* `array`, `smartPtr`, `defer`, `algorithm`: no state of their own. Barriers and views: single
  Vulkan calls.
* VMA: virtual blocks, user data strings, sparse binding, JSON text, external
  memory, debug margins: vkm uses none of them. Of defragmentation, all default vectors at
  once and the break callback; `Standalone` runs the balanced and extensive
  algorithms, the fast and full ones are modelled and not in the run; the branch of
  the balanced one that updates its statistics again is never reached.
* Allocation: the mask of memory types a resource may be in (`memoryTypeBits`), so that
  `"unsuited"` is not reached on the machine of the run, which has every type a kind asks for.
* Containers: `malloc` that fails, except as the bound on the arrays of the run.
* Install: a meta file half written (cgodep writes it), and a change of the `-static` flag.
* Parsing of XML and C headers and the text of generated files; compiler flags and
  target platforms of the build.

## Plan

Done: the frames, handles, swapchains and waits; the free lists; containers; start-up
and device selection; the allocator; install and generator. Proved: all that the runs of `Context`
check except liveness, the free lists, the ring buffer, strings, structure chains, start-up, the ownership and mapping of device
memory, the budget, TLSF and linear blocks, install, and the closure of dependencies.

Proofs worth having next: `FreeListsExact` of `PoolAllocator` and the refinement of `Orders` by `LinkedList`. Models worth having next: two contexts on one
device sharing its free lists, and a device destroyed under them.
