---------------------------- MODULE PoolAllocator ----------------------------
(***************************************************************************)
(* vk_mem_alloc.h, VmaPoolAllocator: where VmaAllocation_T objects and the *)
(* items of its lists live. Blocks of items; an item is an object, or the  *)
(* index of the next free item of its block in the same bytes.             *)
(***************************************************************************)
EXTENDS Integers, Sequences

CONSTANTS
  Objects,         \* what is allocated
  NoItem,          \* where an object is that is not allocated
  FirstCapacity,   \* m_FirstBlockCapacity
  MaxItemBlocks    \* bound on the blocks

NoFree == -1       \* UINT32_MAX

ASSUME PoolAllocatorAssumption ==
  /\ FirstCapacity \in Nat /\ FirstCapacity > 1
  /\ Objects \intersect (Nat \union {NoFree}) = {}
  /\ NoItem \notin Nat \X Nat

VARIABLES
  itemBlocks,   \* m_ItemBlocks
  held          \* object -> the pointer to it, as its block and index

poolAllocatorVars == <<itemBlocks, held>>

CapacityOf(b) == itemBlocks[b].capacity

PoolAllocatorInit ==
  /\ itemBlocks = <<>>
  /\ held = [o \in Objects |-> NoItem]

(* CreateNewBlock *)
NewItemBlock ==
  LET n == Len(itemBlocks)
      capacity == IF n = 0 THEN FirstCapacity ELSE (CapacityOf(n) * 3) \div 2
  IN  [items |-> [i \in 0 .. capacity - 1 |-> IF i = capacity - 1 THEN NoFree ELSE i + 1],
       capacity |-> capacity, first |-> 0]

(* o is built in the first free item of block b of bs. *)
BuildIn(bs, b, o) ==
  LET i == bs[b].first
  IN  /\ itemBlocks' = [bs EXCEPT ![b] = [@ EXCEPT !.items[i] = o, !.first = bs[b].items[i]]]
      /\ held' = [held EXCEPT ![o] = <<b, i>>]

(* Fault: the search from the back begins one block too far in front. *)
BlocksBeforeLast == {b \in DOMAIN itemBlocks : b < Len(itemBlocks) /\ itemBlocks[b].first # NoFree}

BlocksWithFree == {b \in DOMAIN itemBlocks : itemBlocks[b].first # NoFree}

(* The last block that has a free item, or a new one *)
AllocItem(o) ==
  /\ held[o] = NoItem
  /\ \/ \E b \in BlocksWithFree : (\A c \in BlocksWithFree : c <= b) /\ BuildIn(itemBlocks, b, o)
     \/ /\ BlocksWithFree = {} /\ Len(itemBlocks) < MaxItemBlocks
        /\ BuildIn(Append(itemBlocks, NewItemBlock), Len(itemBlocks) + 1, o)

(* In the block whose addresses include the pointer *)
FreeItem(o) ==
  /\ held[o] # NoItem
  /\ LET b == held[o][1]  i == held[o][2]
     IN  itemBlocks' = [itemBlocks EXCEPT ![b] = [@ EXCEPT !.items[i] = itemBlocks[b].first, !.first = i]]
  /\ held' = [held EXCEPT ![o] = NoItem]

PoolAllocatorNext == \E o \in Objects : AllocItem(o) \/ FreeItem(o)

PoolAllocatorSpec == PoolAllocatorInit /\ [][PoolAllocatorNext]_poolAllocatorVars
-----------------------------------------------------------------------------
(* Every object is intact where its pointer points, in an item of its own.   *)
ObjectsIntact ==
  \A o \in Objects :
    held[o] # NoItem =>
      /\ held[o][1] \in DOMAIN itemBlocks
      /\ held[o][2] \in DOMAIN itemBlocks[held[o][1]].items
      /\ itemBlocks[held[o][1]].items[held[o][2]] = o

ItemsOf(b) == 0 .. CapacityOf(b) - 1

(* The items the free list of b leads to from item i on, n at most *)
FreeFrom[b \in Nat, i \in Nat \union {NoFree}, n \in Nat] ==
  IF i = NoFree \/ n = 0 THEN <<>> ELSE <<i>> \o FreeFrom[b, itemBlocks[b].items[i], n - 1]

(* The free list of a block ends, and has each item that no object is in     *)
(* once: none is lost and none is given to two objects.                     *)
FreeListsExact ==
  \A b \in DOMAIN itemBlocks :
    LET free == FreeFrom[b, itemBlocks[b].first, CapacityOf(b) + 1]
        inUse == {held[o][2] : o \in {p \in Objects : held[p] # NoItem /\ held[p][1] = b}}
    IN  /\ {free[k] : k \in DOMAIN free} = ItemsOf(b) \ inUse
        /\ \A j, k \in DOMAIN free : free[j] = free[k] => j = k

(* The driver's heap is asked for a block of items only while all are in use. *)
GrowsOnlyWhenFull ==
  [][Len(itemBlocks') > Len(itemBlocks) =>
       \A b \in DOMAIN itemBlocks : \A i \in ItemsOf(b) : \E o \in Objects : held[o] = <<b, i>>]_poolAllocatorVars
=============================================================================
