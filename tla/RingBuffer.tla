----------------------------- MODULE RingBuffer -----------------------------
(***************************************************************************)
(* include/vkm/std/ringbuffer.hpp: a queue in a circular array that grows. *)
(* A cell holds an element or is raw memory: constructing on an element    *)
(* loses it, destroying or reading raw memory is undefined.                *)
(***************************************************************************)
EXTENDS Integers, Sequences

CONSTANTS
  Elements,
  Raw,          \* a cell without an element
  MaxCap,       \* bound on the capacity
  MaxIndex,     \* largest index a caller asks for, and the largest size_t
  IndexEmpty    \* a caller may index an empty buffer

ASSUME RingAssumption ==
  /\ Raw \notin Elements
  /\ MaxCap \in Nat
  /\ MaxIndex \in Nat
  /\ MaxCap < MaxIndex

VARIABLES
  start, len, cap,
  cells,        \* ptr[0 .. cap - 1]
  got,          \* {what the last call returned}, {} before
  ringFatal     \* "no", "abort", or "trap" for undefined behaviour

ringVars == <<start, len, cap, cells, got, ringFatal>>

RingInit ==
  /\ start = 0
  /\ len = 0
  /\ cap = 0
  /\ cells = <<>>
  /\ got = {}
  /\ ringFatal = "no"

(* (start + i) % cap *)
Slot(i, c) == (start + i) % c

(* The elements run over the end of the array. *)
Wraps == len # 0 /\ start > Slot(len - 1, cap)

(* Fault: the tail stays where it was. *)
StartUnmoved(n) == start

(* Where the first element is once the array has n cells: the part before   *)
(* the end of the old array moves to the end of the new one.                *)
StartIn(n) == IF Wraps THEN start + (n - cap) ELSE start

(* realloc and memmove *)
CellsIn(n) ==
  [j \in 0 .. n - 1 |->
     IF ~ Wraps THEN IF j < cap THEN cells[j] ELSE Raw
     ELSE IF j < start THEN cells[j]
     ELSE IF j >= start + (n - cap) THEN cells[j - (n - cap)]
     ELSE Raw]

(* reserve, which is also what the constructor with a capacity does *)
Reserve(n) ==
  /\ n <= MaxCap
  /\ \/ /\ cap >= n
        /\ UNCHANGED <<start, cap, cells>>
     \/ /\ cap < n
        /\ start' = StartIn(n)
        /\ cells' = CellsIn(n)
        /\ cap' = n
  /\ UNCHANGED <<len, got, ringFatal>>

(* grow(1) *)
Grown == ((cap + 1) * 3) \div 2

(* pushBack *)
PushBack(e) ==
  /\ \/ /\ len < cap
        /\ cells' = [cells EXCEPT ![Slot(len, cap)] = e]
        /\ UNCHANGED <<start, cap>>
     \/ /\ len = cap
        /\ Grown <= MaxCap
        /\ start' = StartIn(Grown)
        /\ cap' = Grown
        /\ cells' = [CellsIn(Grown) EXCEPT ![(StartIn(Grown) + len) % Grown] = e]
  /\ len' = len + 1
  /\ UNCHANGED <<got, ringFatal>>

(* dequeueFront: the element is moved out, then destroyed. *)
DequeueFront ==
  /\ \/ /\ len = 0
        /\ ringFatal' = "abort"
        /\ UNCHANGED <<start, len, cells, got>>
     \/ /\ len # 0
        /\ got' = {cells[start]}
        /\ cells' = [cells EXCEPT ![start] = Raw]
        /\ start' = Slot(1, cap)
        /\ len' = len - 1
        /\ UNCHANGED ringFatal
  /\ UNCHANGED cap

(* Fault: the length itself counts as in range. *)
InRangeLong(i) == i <= len

(* inRange(i, 0, len - 1) on size_t: len - 1 is the largest of all if len is 0. *)
InRange(i) == i <= (len - 1) % (MaxIndex + 1)

(* operator[] *)
Index(i) ==
  /\ len # 0 \/ IndexEmpty
  /\ \/ /\ InRange(i) => cap = 0 \/ cells[Slot(i, cap)] = Raw
        /\ ringFatal' = IF InRange(i) THEN "trap" ELSE "abort"
        /\ UNCHANGED got
     \/ /\ InRange(i)
        /\ cap # 0 /\ cells[Slot(i, cap)] # Raw
        /\ got' = {cells[Slot(i, cap)]}
        /\ UNCHANGED ringFatal
  /\ UNCHANGED <<start, len, cap, cells>>

(* ~ringbuffer, and what a move leaves behind: the array is gone, and so are *)
(* its elements or they are another's. What follows is a fresh buffer.       *)
GiveUp ==
  /\ start' = 0
  /\ len' = 0
  /\ cap' = 0
  /\ cells' = <<>>
  /\ UNCHANGED <<got, ringFatal>>

RingCall ==
  \/ \E n \in 0 .. MaxCap : Reserve(n)
  \/ \E e \in Elements : PushBack(e)
  \/ DequeueFront
  \/ \E i \in 0 .. MaxIndex : Index(i)
  \/ GiveUp

RingAborted == ringFatal # "no" /\ UNCHANGED ringVars

RingNext == (ringFatal = "no" /\ RingCall) \/ RingAborted

RingSpec == RingInit /\ [][RingNext]_ringVars
-----------------------------------------------------------------------------
(* Type invariant *)
RingTypeOK ==
  /\ cap \in 0 .. MaxCap
  /\ len \in 0 .. cap
  /\ start \in Nat
  /\ cap # 0 => start < cap
  /\ DOMAIN cells = 0 .. cap - 1
  /\ \A j \in 0 .. cap - 1 : cells[j] \in Elements \union {Raw}
  /\ ringFatal \in {"no", "abort", "trap"}

(* The cells that hold an element are the len ones from start on, around   *)
(* the end; so no call constructs over an element or destroys raw memory,  *)
(* whatever mix of growing while wrapped and dequeuing went before.        *)
CellsInUse ==
  \A j \in 0 .. cap - 1 :
    cells[j] # Raw <=> \E i \in 0 .. len - 1 : j = Slot(i, cap)

(* operator[] answers with an element or says the index is out of bounds.  *)
IndexAnswers == ringFatal # "trap"

Contents == [i \in 1 .. len |-> cells[Slot(i - 1, cap)]]

Queue == INSTANCE Fifo WITH queue <- Contents, out <- got

(* Calls are those of a queue: growing, which moves part of the array, does *)
(* not reorder or lose anything.                                            *)
RingIsQueue == Queue!Spec

(* After any mix of calls the array is laid out as reserve, pushBack and      *)
(* dequeueFront expect, and operator[] answers an element or aborts.          *)
RingSound == RingTypeOK /\ CellsInUse /\ IndexAnswers
=============================================================================
