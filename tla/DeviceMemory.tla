---------------------------- MODULE DeviceMemory ----------------------------
(***************************************************************************)
(* vk_mem_alloc.h, VmaDeviceMemoryBlock and VmaMappingHysteresis: a piece  *)
(* of VkDeviceMemory that several allocations share, and its one mapping.  *)
(* The block is mapped while any allocation in it is, and stays mapped for *)
(* a while longer when that has been happening often (extra).              *)
(***************************************************************************)
EXTENDS Integers

CONSTANT MinExtra     \* COUNTER_MIN_EXTRA_MAPPING

NewBlock(id, size) ==
  [id |-> id, size |-> size, used |-> {}, mapCount |-> 0, mapped |-> FALSE,
   extra |-> 0, major |-> 0, minor |-> 0]

(* PostMinorCounter *)
PostMinor(b) ==
  IF b.minor < b.major THEN [b EXCEPT !.minor = @ + 1]
  ELSE IF b.major > 0 THEN [b EXCEPT !.major = @ - 1, !.minor = @ - 1] ELSE b

(* VmaMappingHysteresis::PostMap *)
PostMap(b) ==
  IF b.extra = 1 THEN PostMinor(b)
  ELSE IF b.major + 1 >= MinExtra
  THEN [b EXCEPT !.extra = 1, !.major = 0, !.minor = 0]
  ELSE [b EXCEPT !.major = @ + 1]

PostUnmap(b) == IF b.extra = 1 THEN PostMinor(b) ELSE [b EXCEPT !.major = @ + 1]

PostAlloc(b) == IF b.extra = 0 THEN PostMinor(b) ELSE [b EXCEPT !.major = @ + 1]

(* Fault: the mapping is given up although allocations still use it. *)
PostFreeUncounted(b) ==
  IF b.extra = 0 THEN PostMinor(b)
  ELSE IF b.major + 1 >= MinExtra /\ b.major > b.minor
  THEN [b EXCEPT !.extra = 0, !.major = 0, !.minor = 0, !.mapped = FALSE]
  ELSE [b EXCEPT !.major = @ + 1]

(* VmaDeviceMemoryBlock::PostFree: the extra reference may have been the last. *)
PostFree(b) ==
  IF b.extra = 0 THEN PostMinor(b)
  ELSE IF b.major + 1 >= MinExtra /\ b.major > b.minor
  THEN [b EXCEPT !.extra = 0, !.major = 0, !.minor = 0, !.mapped = @ /\ b.mapCount # 0]
  ELSE [b EXCEPT !.major = @ + 1]

(* vkMapMemory is called when nothing holds the mapping yet. *)
NeedsMapping(b) == b.mapCount + b.extra = 0

(* Map, once vkMapMemory has not failed *)
Mapped(b) == [PostMap(b) EXCEPT !.mapCount = @ + 1, !.mapped = TRUE]

(* Unmap: whether to unmap the memory is decided before the hysteresis is told. *)
Unmapped(b) ==
  PostUnmap([b EXCEPT !.mapCount = @ - 1, !.mapped = @ /\ b.mapCount - 1 + b.extra # 0])
=============================================================================
