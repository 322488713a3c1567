---------------------------- MODULE MCStandalone ----------------------------
(***************************************************************************)
(* The components that share no state with the others, one at a time: the  *)
(* first state chooses which one runs, the rest stay as they began. The    *)
(* state space is the sum of theirs, not the product.                      *)
(***************************************************************************)
EXTENDS SyncObjects, RingBuffer, Strings, Chains, Install, Statistics, MCTlsf, Registry, Defragmentation,
  PoolAllocator

CONSTANTS
  Parts,                                  \* which components
  Numbers, Default, Vectors, Arrays, NoArray, Threshold,   \* of Vector.tla
  MaxVectorCap, MaxVectorLength,
  LinkedLists, LinkedItems, PopsLast                       \* of LinkedList.tla

VARIABLES
  part,
  vLen, vCap, vPtr, vHeap, vTaken, vFatal, vLost,
  iList, iPrev, iNext, iHome

V == INSTANCE Vector WITH
  Elements <- Numbers, Names <- Vectors, MaxCap <- MaxVectorCap, MaxLength <- MaxVectorLength,
  len <- vLen, cap <- vCap, ptr <- vPtr, heap <- vHeap, taken <- vTaken, fatal <- vFatal,
  lost <- vLost

vectorVars == <<vLen, vCap, vPtr, vHeap, vTaken, vFatal, vLost>>

I == INSTANCE LinkedList WITH Lists <- LinkedLists, Elements <- LinkedItems,
  list <- iList, prev <- iPrev, next <- iNext, home <- iHome

linkVars == <<iList, iPrev, iNext, iHome>>

MCAsked ==
  {[size |-> 1, align |-> 1, type |-> "buffer", upper |-> FALSE],
   [size |-> 3, align |-> 2, type |-> "optimal", upper |-> FALSE],
   [size |-> 3, align |-> 1, type |-> "buffer", upper |-> TRUE],
   [size |-> 2, align |-> 1, type |-> "optimal", upper |-> TRUE]}

MCMovables ==
  {[size |-> 6, align |-> 1, type |-> "buffer", mapped |-> TRUE, maps |-> 1],
   [size |-> 4, align |-> 1, type |-> "buffer", mapped |-> FALSE, maps |-> 1],
   [size |-> 12, align |-> 4, type |-> "optimal", mapped |-> FALSE, maps |-> 0]}

MCPassLimits == {[bytes |-> 15, allocs |-> 2], [bytes |-> 20, allocs |-> 2]}

(* Strings, vectors and arrays differ in nothing but their names.            *)
NamesAndChars == Permutations(Chars) \union Permutations(Names) \union Permutations(Arrays)

Least(S) == CHOOSE x \in S : \A y \in S : x <= y
Greatest(S) == CHOOSE x \in S : \A y \in S : y <= x

-----------------------------------------------------------------------------
(* The registries: four extensions that need each other in every way without  *)
(* a cycle; and one promoted to another or into a version, with commands and  *)
(* structures.                                                               *)
Plain(kind) ==
  [kind |-> kind, valid |-> TRUE, platform |-> FALSE, provisional |-> FALSE, promoted |-> None,
   core |-> 0, depends |-> {}, commands |-> {}, types |-> {}]

Handles ==
  [h \in {"VkInstance", "VkPhysicalDevice", "VkDevice", "VkQueue", "OldQueue"} |->
     [alias |-> IF h = "OldQueue" THEN "VkQueue" ELSE None,
      parent |-> CASE h = "VkPhysicalDevice" -> "VkInstance"
                   [] h = "VkDevice" -> "VkPhysicalDevice"
                   [] h = "VkQueue" -> "VkDevice"
                   [] OTHER -> None]]

Needing ==
  {[exts |-> [x \in {"a", "b", "c", "d"} |->
      CASE x = "a" -> [Plain("device") EXCEPT !.depends = needs[1]]
        [] x = "b" -> [Plain("device") EXCEPT !.depends = needs[2], !.valid = valid]
        [] x = "c" -> [Plain("instance") EXCEPT !.depends = needs[3], !.core = core]
        [] x = "d" -> Plain(kind)],
    commands |-> <<>>, handles |-> Handles, types |-> <<>>] :
    needs \in {{}, {{"b"}}, {{"b"}, {"c"}}} \X {{}, {{"c"}}, {{"d"}}, {{"c", "d"}}} \X {{}, {{"d"}}},
    valid \in BOOLEAN, core \in {0, 3, 4}, kind \in {"instance", "device"}}

Promoting ==
  {[exts |-> [x \in {"old", "new", "other"} |->
      CASE x = "old" -> [Plain("device") EXCEPT
             !.promoted = IF old = "new" THEN "new" ELSE None,
             !.core = IF old = "core" THEN core ELSE 0,
             !.commands = {"vkOld"}, !.types = {"SOld"} \union (IF "kept" \in Q THEN {"SKept"} ELSE {})]
        [] x = "new" -> [Plain("device") EXCEPT !.core = core,
             !.commands = {"vkNew"}, !.types = {"SNew"} \union (IF "extra" \in Q THEN {"SExtra"} ELSE {})]
        [] x = "other" -> [Plain("instance") EXCEPT
             !.valid = other # "invalid", !.platform = (other = "platform"), !.core = later,
             !.provisional = (other = "provisional"),
             !.commands = {"vkOther"} \union (IF "shared" \in Q THEN {"vkNew"} ELSE {}),
             !.types = {"SOther"} \union (IF "shared" \in Q THEN {"SNew"} ELSE {}) \union (IF "platform" \in Q THEN {"SSecond"} ELSE {})]],
    commands |->
      [c \in {"vkOld", "vkNew", "vkOther", "vkDestroyDevice", "vkCreateInstance"} |->
         [alias |-> IF c = "vkOld" /\ old = "new" THEN "vkNew" ELSE None,
          handle |-> CASE c = "vkNew" -> "OldQueue" [] c = "vkOther" -> "VkPhysicalDevice"
                       [] c = "vkCreateInstance" -> "const VkInstanceCreateInfo*"
                       [] OTHER -> "VkDevice"]],
    handles |-> Handles,
    types |->
      [t \in {"SOld", "SNew", "SOther", "SKept", "SExtra", "SSecond"}
             \union (IF core = 0 THEN {} ELSE IF old = "core" THEN {"Core", "OldCore"} ELSE {"Core"}) |->
         [alias |-> CASE t = "SOld" /\ old = "new" -> "SNew"
                      [] t = "SOld" /\ old = "core" /\ core # 0 -> "OldCore"
                      [] t = "SNew" /\ core # 0 -> "Core"
                      [] OTHER -> None,
          plain |-> CASE t = "SNew" -> "Core" [] t = "SOld" -> "OldCore" [] OTHER -> None]]] :
    old \in {"apart", "new", "core"}, core \in {0, 2, 4},
    other \in {"valid", "invalid", "platform", "provisional"}, later \in {0, 4},
    Q \in SUBSET {"kept", "extra", "shared", "platform"}}

MCRegistries == Needing \union Promoting

(* Where no registry is looked at *)
NoRegistry == [exts |-> <<>>, commands |-> <<>>, handles |-> <<>>, types |-> <<>>]

-----------------------------------------------------------------------------
MCInit ==
  /\ part \in Parts
  /\ Init /\ RingInit /\ StrInit /\ ChainInit /\ InstallInit /\ V!Init /\ I!Init /\ PoolAllocatorInit
  /\ TlsfInit
  /\ part = "defrag" => granularity = Greatest(Granularities)
  /\ part \notin {"tlsf", "defrag"} => granularity = Least(Granularities)
  /\ DefragInit
  /\ LinearInit /\ (part # "linear" => pageSize = Least(Pages))
  /\ IF part = "registry" THEN RegistryInit
     ELSE registry = NoRegistry /\ stage = "done" /\ left = {} /\ entries = <<>>

OthersStay ==
  /\ part # "sync" => UNCHANGED vars
  /\ part # "ring" => UNCHANGED ringVars
  /\ part # "string" => UNCHANGED strVars
  /\ part # "chain" => UNCHANGED chainVars
  /\ part # "install" => UNCHANGED installVars
  /\ part # "vector" => UNCHANGED vectorVars
  /\ part # "links" => UNCHANGED linkVars
  /\ part # "items" => UNCHANGED poolAllocatorVars
  /\ part # "tlsf" => UNCHANGED tlsfVars
  /\ part # "linear" => UNCHANGED linearVars
  /\ part # "registry" => UNCHANGED registryVars
  /\ part # "defrag" => UNCHANGED defrag

MCNext ==
  /\ \/ part = "sync" /\ Next
     \/ part = "ring" /\ RingNext
     \/ part = "string" /\ StrNext
     \/ part = "chain" /\ ChainNext
     \/ part = "install" /\ InstallNext
     \/ part = "vector" /\ V!Next
     \/ part = "links" /\ I!Next
     \/ part = "items" /\ PoolAllocatorNext
     \/ part = "tlsf" /\ TlsfNext
     \/ part = "linear" /\ LinearNext
     \/ part = "registry" /\ RegistryNext
     \/ part = "defrag" /\ DefragNext
  /\ OthersStay
  /\ UNCHANGED part

allVars ==
  <<part, vars, ringVars, strVars, chainVars, installVars, vectorVars, linkVars,
    poolAllocatorVars, tlsfVars, linearVars, registryVars, defrag>>

MCSpec == MCInit /\ [][MCNext]_allVars
-----------------------------------------------------------------------------
(* The properties of Vector.tla, for the instance here: the cells that hold  *)
(* elements are the first len, only moves leak arrays, vectors behave as     *)
(* independent lists, and compact keeps one of each run (vector.hpp).        *)
VectorsHold ==
  [](V!TypeOK /\ V!CellsBuilt /\ V!ArraysOwned) /\ V!VectorsAreLists /\ V!CompactIsExact

(* And what the containers inside vk_mem_alloc.h promise: the linked lists   *)
(* can be walked both ways and are independent orders; the items of a pool   *)
(* allocator that no object is in are on its free lists, once, and a block   *)
(* is added only when there are none.                                        *)
ContainersHold ==
  /\ VectorsHold
  /\ []I!ListsThreaded /\ I!ListsAreOrders
  /\ []ObjectsIntact /\ []FreeListsExact /\ GrowsOnlyWhenFull

(* The tables of Registry.tla, in the behaviours that have one               *)
(* (genDispatchTable, genStructReflection).                                  *)
TablesFound == part = "registry" => TablesComplete

(* What a block of memory says of itself, in the behaviours that have one    *)
(* (AddDetailedStatistics, AddStatistics, PrintDetailedMap).                 *)
StatisticsExact ==
  /\ part = "tlsf" => TlsfStatisticsExact
  /\ part = "linear" => LinearStatisticsExact
=============================================================================
