----------------------------- MODULE LinkedList -----------------------------
(***************************************************************************)
(* vk_mem_alloc.h, VmaIntrusiveLinkedList: lists whose links are in their  *)
(* items. The dedicated allocations of a memory type or a pool are such a  *)
(* list, and so are the pools; an allocation that is freed is unlinked by  *)
(* its own pointers, whichever list it is in. A pop of the only item       *)
(* leaves the other end of the list on it; nothing here ever pops.         *)
(***************************************************************************)
EXTENDS Integers, Sequences, FiniteSets

CONSTANTS
  Lists,
  Elements,     \* the items that may be linked
  Null,
  PopsLast      \* a list may be popped until it is empty

VARIABLES
  list,         \* m_Front, m_Back and m_Count of each list
  prev, next,   \* the links of each item
  home          \* the list an item is in, as its owner remembers

linkVars == <<list, prev, next, home>>

Init ==
  /\ list = [l \in Lists |-> [front |-> Null, back |-> Null, count |-> 0]]
  /\ prev = [x \in Elements |-> Null]
  /\ next = [x \in Elements |-> Null]
  /\ home = [x \in Elements |-> Null]

Only(x) == [front |-> x, back |-> x, count |-> 1]

PushBack(l, x) ==
  /\ home[x] = Null
  /\ home' = [home EXCEPT ![x] = l]
  /\ IF list[l].count = 0
     THEN list' = [list EXCEPT ![l] = Only(x)] /\ UNCHANGED <<prev, next>>
     ELSE /\ prev' = [prev EXCEPT ![x] = list[l].back]
          /\ next' = [next EXCEPT ![list[l].back] = x]
          /\ list' = [list EXCEPT ![l].back = x, ![l].count = @ + 1]

PushFront(l, x) ==
  /\ home[x] = Null
  /\ home' = [home EXCEPT ![x] = l]
  /\ IF list[l].count = 0
     THEN list' = [list EXCEPT ![l] = Only(x)] /\ UNCHANGED <<prev, next>>
     ELSE /\ next' = [next EXCEPT ![x] = list[l].front]
          /\ prev' = [prev EXCEPT ![list[l].front] = x]
          /\ list' = [list EXCEPT ![l].front = x, ![l].count = @ + 1]

(* y = Null means the end. *)
InsertBefore(l, y, x) ==
  \/ y = Null /\ PushBack(l, x)
  \/ /\ y # Null /\ home[y] = l /\ home[x] = Null
     /\ prev' = [prev EXCEPT ![x] = prev[y], ![y] = x]
     /\ next' = [z \in Elements |-> IF z = x THEN y ELSE IF z = prev[y] THEN x ELSE next[z]]
     /\ list' = [list EXCEPT ![l].front = IF prev[y] = Null THEN x ELSE @, ![l].count = @ + 1]
     /\ home' = [home EXCEPT ![x] = l]

(* y = Null means the beginning. *)
InsertAfter(l, y, x) ==
  \/ y = Null /\ PushFront(l, x)
  \/ /\ y # Null /\ home[y] = l /\ home[x] = Null
     /\ next' = [next EXCEPT ![x] = next[y], ![y] = x]
     /\ prev' = [z \in Elements |-> IF z = x THEN y ELSE IF z = next[y] THEN x ELSE prev[z]]
     /\ list' = [list EXCEPT ![l].back = IF next[y] = Null THEN x ELSE @, ![l].count = @ + 1]
     /\ home' = [home EXCEPT ![x] = l]

(* The links of x are taken back. *)
Unlinked(x) ==
  /\ home' = [home EXCEPT ![x] = Null]
  /\ prev' = [z \in Elements |-> IF z = x THEN Null ELSE IF z = next[x] THEN prev[x] ELSE prev[z]]
  /\ next' = [z \in Elements |-> IF z = x THEN Null ELSE IF z = prev[x] THEN next[x] ELSE next[z]]

PopBack(l) ==
  /\ list[l].count > IF PopsLast THEN 0 ELSE 1
  /\ Unlinked(list[l].back)
  /\ list' = [list EXCEPT ![l].back = prev[@], ![l].count = @ - 1]

PopFront(l) ==
  /\ list[l].count > IF PopsLast THEN 0 ELSE 1
  /\ Unlinked(list[l].front)
  /\ list' = [list EXCEPT ![l].front = next[@], ![l].count = @ - 1]

(* Fault: the last item stays the back of its list when it goes. *)
RemoveFront(l, x) ==
  /\ home[x] = l
  /\ Unlinked(x)
  /\ list' = [list EXCEPT ![l].front = IF prev[x] = Null THEN next[x] ELSE @, ![l].count = @ - 1]

Remove(l, x) ==
  /\ home[x] = l
  /\ Unlinked(x)
  /\ list' = [list EXCEPT ![l].front = IF prev[x] = Null THEN next[x] ELSE @,
                          ![l].back = IF next[x] = Null THEN prev[x] ELSE @,
                          ![l].count = @ - 1]

(* The n items from x on, in the direction of link *)
Walk[link \in [Elements -> Elements \union {Null}], x \in Elements \union {Null}, n \in Nat] ==
  IF x = Null \/ n = 0 THEN <<>> ELSE <<x>> \o Walk[link, link[x], n - 1]

Forward(l) == Walk[next, list[l].front, Cardinality(Elements)]

Backward(l) == Walk[prev, list[l].back, Cardinality(Elements)]

RemoveAll(l) ==
  LET gone == {Backward(l)[i] : i \in DOMAIN Backward(l)}
  IN  /\ list[l].count # 0
      /\ list' = [list EXCEPT ![l] = [front |-> Null, back |-> Null, count |-> 0]]
      /\ prev' = [z \in Elements |-> IF z \in gone THEN Null ELSE prev[z]]
      /\ next' = [z \in Elements |-> IF z \in gone THEN Null ELSE next[z]]
      /\ home' = [z \in Elements |-> IF home[z] = l THEN Null ELSE home[z]]

(* The move constructor and operator= *)
Move(l, from) ==
  /\ list[l].count = 0
  /\ list' = [list EXCEPT ![l] = list[from], ![from] = [front |-> Null, back |-> Null, count |-> 0]]
  /\ home' = [z \in Elements |-> IF home[z] = from THEN l ELSE home[z]]
  /\ UNCHANGED <<prev, next>>

Next ==
  \E l \in Lists :
    \/ \E x \in Elements :
         \/ PushBack(l, x) \/ PushFront(l, x) \/ Remove(l, x)
         \/ \E y \in Elements \union {Null} : InsertBefore(l, y, x) \/ InsertAfter(l, y, x)
    \/ PopBack(l) \/ PopFront(l) \/ RemoveAll(l)
    \/ \E from \in Lists \ {l} : Move(l, from)

Spec == Init /\ [][Next]_linkVars
-----------------------------------------------------------------------------
(* VmaDedicatedAllocationList::Validate for each list, walked both ways: as  *)
(* many items as were counted, those that are at home in it, and the items   *)
(* at home nowhere point nowhere, as the next push relies on.               *)
ListsThreaded ==
  /\ \A l \in Lists :
       /\ Len(Forward(l)) = list[l].count
       /\ Backward(l) = [i \in DOMAIN Forward(l) |-> Forward(l)[list[l].count + 1 - i]]
       /\ {x \in Elements : home[x] = l} = {Forward(l)[i] : i \in DOMAIN Forward(l)}
  /\ \A x \in Elements : home[x] = Null => prev[x] = Null /\ next[x] = Null

O == INSTANCE Orders WITH order <- [l \in Lists |-> Forward(l)]

(* The calls put items in, and take them out of, independent orders: an item *)
(* unlinked from anywhere takes nothing else along.                         *)
ListsAreOrders == O!Spec
=============================================================================
