-------------------------------- MODULE Heap --------------------------------
(***************************************************************************)
(* What a block of memory promises whoever suballocates it, whichever      *)
(* algorithm keeps its books: ranges inside the block, no two of them      *)
(* overlapping, and none on the same page as a range it conflicts with.    *)
(***************************************************************************)
EXTENDS Integers

CONSTANTS
  Size,              \* of the block
  Types,             \* suballocation types
  Conflict(_, _)     \* types that must not share a page

VARIABLES
  live,              \* the ranges in use, as [at, size, type]
  page               \* bufferImageGranularity of the device

Range == [at : 0 .. Size, size : 1 .. Size, type : Types]

Within(r) == r.at + r.size <= Size

Apart(r, s) == r.at + r.size <= s.at \/ s.at + s.size <= r.at

SharePage(r, s) ==
  /\ r.at \div page <= (s.at + s.size - 1) \div page
  /\ s.at \div page <= (r.at + r.size - 1) \div page

Compatible(r, s) == ~ (SharePage(r, s) /\ Conflict(r.type, s.type))

HeapInit == live = {} /\ page \in Nat \ {0}

Allocate ==
  /\ \E r \in live' \ live :
       /\ r \in Range /\ Within(r)
       /\ \A s \in live : Apart(r, s) /\ Compatible(r, s) /\ Compatible(s, r)
       /\ live' = live \union {r}
  /\ UNCHANGED page

Free == /\ \E r \in live : live' = live \ {r}
        /\ UNCHANGED page

Clear == live' = {} /\ UNCHANGED page

HeapNext == Allocate \/ Free \/ Clear

HeapSpec == HeapInit /\ [][HeapNext]_<<live, page>>
=============================================================================
