------------------------------- MODULE Vector -------------------------------
(***************************************************************************)
(* include/vkm/std/vector.hpp: vectors on a heap. A cell of an array holds *)
(* an element or is raw memory, and an array nobody points at is leaked.   *)
(***************************************************************************)
EXTENDS Integers, Sequences, SequencesExt

CONSTANTS
  Elements,       \* numbers
  Default,        \* T()
  Raw,            \* a cell without an element
  Names,          \* the vectors
  Arrays,         \* what malloc returns
  NoArray,        \* nullptr
  Threshold,      \* 256 in the code
  MaxCap,         \* bound on the capacity
  MaxLength       \* bound on the length

VARIABLES
  len, cap, ptr,   \* of every vector
  heap,            \* array -> its cells, <<>> when it is not allocated
  taken,           \* {what dequeueBack or operator[] returned last}
  fatal,           \* abort was called
  lost             \* history: the arrays a move has overwritten the pointer to

vars == <<len, cap, ptr, heap, taken, fatal, lost>>

Init ==
  /\ len = [v \in Names |-> 0]
  /\ cap = [v \in Names |-> 0]
  /\ ptr = [v \in Names |-> NoArray]
  /\ heap = [a \in Arrays |-> <<>>]
  /\ taken = {}
  /\ fatal = FALSE
  /\ lost = {}

Allocated == {a \in Arrays : heap[a] # <<>>}

Cells(v) == IF ptr[v] = NoArray THEN <<>> ELSE heap[ptr[v]]

(* The elements of v, from its cells *)
List(v) == SubSeq(Cells(v), 1, len[v])

(* reserve: the cells once there are at least n, the new ones raw *)
Reserved(v, n) ==
  Cells(v) \o [i \in 1 .. (IF cap[v] < n THEN n - cap[v] ELSE 0) |-> Raw]

(* The vector has these cells from now on, the first n of them in use. *)
Becomes(v, n, cells) ==
  /\ Len(cells) <= MaxCap
  /\ n <= MaxLength
  /\ len' = [len EXCEPT ![v] = n]
  /\ cap' = [cap EXCEPT ![v] = Len(cells)]
  /\ \/ cells = <<>> /\ UNCHANGED <<ptr, heap>>
     \/ /\ ptr[v] # NoArray
        /\ heap' = [heap EXCEPT ![ptr[v]] = cells]
        /\ UNCHANGED ptr
     \/ /\ ptr[v] = NoArray /\ cells # <<>>
        /\ \E a \in Arrays \ Allocated :
             /\ ptr' = [ptr EXCEPT ![v] = a]
             /\ heap' = [heap EXCEPT ![a] = cells]
  /\ UNCHANGED <<taken, fatal, lost>>

Reserve(v, n) == Becomes(v, len[v], Reserved(v, n))

(* The destructor loops, from the cell behind the first n on *)
Destroyed(cells, n, size) ==
  [i \in DOMAIN cells |-> IF i \in n + 1 .. size THEN Raw ELSE cells[i]]

(* The constructor loops, of list behind the first n *)
Built(cells, n, list) ==
  [i \in DOMAIN cells |-> IF i \in n + 1 .. n + Len(list) THEN list[i - n] ELSE cells[i]]

(* grow(1), where only the small are doubled *)
Grown(c) ==
  IF c + 1 > c + c THEN c + 1
  ELSE IF c + 1 < Threshold THEN c + c
  ELSE c + (c + 3 * Threshold) \div 4

(* pushBack of one *)
PushBack(v, e) ==
  LET room == IF len[v] = cap[v] THEN Grown(cap[v]) ELSE cap[v]
  IN  Becomes(v, len[v] + 1, Built(Reserved(v, room), len[v], <<e>>))

(* pushBack of several *)
PushBackAll(v, list) ==
  Becomes(v, len[v] + Len(list),
          Built(Reserved(v, len[v] + Len(list)), len[v], list))

(* Fault: what is cut off is not destroyed. *)
ResizedOnly(v, n) ==
  Built(Reserved(v, n), len[v], [i \in 1 .. n - len[v] |-> Default])

(* The cells after resize(n) *)
Resized(v, n) ==
  Built(Destroyed(Reserved(v, n), n, len[v]), len[v], [i \in 1 .. n - len[v] |-> Default])

(* resize, with and without a value *)
Resize(v, n) == Becomes(v, n, Resized(v, n))

(* popBack *)
PopBack(v) ==
  /\ len[v] # 0
  /\ Becomes(v, len[v] - 1, Destroyed(Cells(v), len[v] - 1, len[v]))

(* abort does not return. *)
Abort == fatal' = TRUE /\ UNCHANGED <<len, cap, ptr, heap, taken, lost>>

(* dequeueBack *)
DequeueBack(v) ==
  \/ len[v] = 0 /\ Abort
  \/ /\ len[v] # 0
     /\ taken' = {Cells(v)[len[v]]}
     /\ len' = [len EXCEPT ![v] = @ - 1]
     /\ heap' = [heap EXCEPT ![ptr[v]][len[v]] = Raw]
     /\ UNCHANGED <<cap, ptr, fatal, lost>>

(* operator[] *)
Index(v, i) ==
  \/ (len[v] = 0 \/ i > len[v] - 1) /\ Abort
  \/ /\ len[v] # 0 /\ i <= len[v] - 1
     /\ taken' = {Cells(v)[i + 1]}
     /\ UNCHANGED <<len, cap, ptr, heap, fatal, lost>>

(* operator= from an array or from a vector of another type, and the       *)
(* constructors that call it                                               *)
CopyAssign(v, list) ==
  Becomes(v, Len(list),
          Built(Destroyed(Reserved(v, Len(list)), 0, len[v]), 0, list))

(* operator=(vector&&) and the constructor that calls it: what v pointed at   *)
(* is overwritten, and moved onto itself v is empty in the end.             *)
MoveAssign(v, w) ==
  /\ len' = [len EXCEPT ![v] = len[w], ![w] = 0]
  /\ cap' = [cap EXCEPT ![v] = cap[w], ![w] = 0]
  /\ ptr' = [ptr EXCEPT ![v] = ptr[w], ![w] = NoArray]
  /\ lost' = lost \union ({ptr[v]} \ {NoArray})
  /\ UNCHANGED <<heap, taken, fatal>>

(* ~vector, and a new one in its place *)
Destroy(v) ==
  /\ len' = [len EXCEPT ![v] = 0]
  /\ cap' = [cap EXCEPT ![v] = 0]
  /\ ptr' = [ptr EXCEPT ![v] = NoArray]
  /\ heap' = [a \in Arrays |-> IF a = ptr[v] THEN <<>> ELSE heap[a]]
  /\ UNCHANGED <<taken, fatal, lost>>

(* The first position from i on where s differs from the one before, or 0  *)
NextChange(s, i, n) ==
  LET changes == {j \in i .. n : s[j] # s[j - 1]}
  IN  IF changes = {} THEN 0 ELSE CHOOSE j \in changes : \A k \in changes : j <= k

(* Where the outer loop goes on after it kept position j *)
After(j) == j + 1

(* The loops of compact, from position i of the first size cells on, n being *)
(* kept: the cells and how many are kept in the end                         *)
Compacted[s \in Seq(Elements), n \in Nat, i \in Nat] ==
  IF i > Len(s) THEN [list |-> s, size |-> n]
  ELSE IF s[i] # s[i - 1] THEN Compacted[[s EXCEPT ![n + 1] = s[i]], n + 1, After(i)]
  ELSE LET j == NextChange(s, i + 1, Len(s))
       IN  IF j = 0 THEN [list |-> s, size |-> n]
           ELSE Compacted[[s EXCEPT ![n + 1] = s[j]], n + 1, After(j)]

(* compact, once the elements are those of list *)
CompactFrom(v, list) ==
  LET done == IF Len(list) <= 1 THEN [list |-> list, size |-> Len(list)]
              ELSE Compacted[list, 1, 2]
  IN  Becomes(v, done.size, Destroyed(Built(Cells(v), 0, done.list), done.size, len[v]))

Compact(v) == CompactFrom(v, List(v))

(* sortComptact *)
SortComptact(v) == CompactFrom(v, SortSeq(List(v), <))

Call ==
  \E v \in Names :
    \/ \E n \in 0 .. MaxCap : Reserve(v, n)
    \/ \E e \in Elements : PushBack(v, e)
    \/ \E list \in [1 .. 2 -> Elements] : PushBackAll(v, list)
    \/ \E n \in 0 .. MaxLength : Resize(v, n) \/ Index(v, n)
    \/ PopBack(v)
    \/ DequeueBack(v)
    \/ Compact(v)
    \/ SortComptact(v)
    \/ Destroy(v)
    \/ \E w \in Names \ {v} : CopyAssign(v, List(w))
    \/ \E w \in Names : MoveAssign(v, w)

Next == (~ fatal /\ Call) \/ (fatal /\ UNCHANGED vars)

Spec == Init /\ [][Next]_vars
-----------------------------------------------------------------------------
(* Type invariant *)
TypeOK ==
  /\ len \in [Names -> 0 .. MaxLength]
  /\ cap \in [Names -> 0 .. MaxCap]
  /\ ptr \in [Names -> Arrays \union {NoArray}]
  /\ DOMAIN heap = Arrays
  /\ taken \subseteq Elements

(* An array has as many cells as the vector that points at it says, and     *)
(* only its first len hold elements, so every element is destroyed once.   *)
CellsBuilt ==
  \A v \in Names :
    /\ Len(Cells(v)) = cap[v]
    /\ \A i \in 1 .. cap[v] : Cells(v)[i] # Raw <=> i <= len[v]

(* Every array is the array of one vector, so none is freed twice, and only a *)
(* move onto a vector that has an array leaks it, as swapchain.cpp:522 does   *)
(* when the present mode is changed again: no vector points at a lost array, *)
(* and growing, copying, emptying and destroying lose none.                  *)
ArraysOwned ==
  /\ Allocated = ({ptr[v] : v \in Names} \union lost) \ {NoArray}
  /\ \A v \in Names : ptr[v] \notin lost
  /\ \A v, w \in Names : v # w /\ ptr[v] # NoArray => ptr[v] # ptr[w]

L == INSTANCE Lists WITH lists <- [v \in Names |-> List(v)]

(* The calls are those of independent lists: no vector shows the elements    *)
(* of another after arrays changed hands or moved.                          *)
VectorsAreLists == L!Spec

(* compact keeps the first of each run although it reads what it may have   *)
(* overwritten, so sorting and compacting yields each element once, in      *)
(* order, as the lists of extensions and features need it.                  *)
CompactIsExact ==
  [][\A v \in Names :
       /\ Compact(v) => L!IsCompacted(List(v)', List(v))
       /\ SortComptact(v) => L!SortCompact(v)]_vars
=============================================================================
