---------------------------- MODULE SupportProofs ----------------------------
(***************************************************************************)
(* Proofs about what the library stands on. Its own storage: the two       *)
(* stacks of the syncObjectManager never hold a handle twice nor one that  *)
(* is on loan, keep only signaled fences, and each is a SyncPool; the      *)
(* circular array of RingBuffer is a queue, for every capacity and every   *)
(* sequence of calls; strings are terminated and what is printed into them *)
(* is what they read; a chain of structures is linked as its vector has    *)
(* it. And its build: what a meta file of Install says is so, with         *)
(* modification times that tell edits apart and a RemoveAll that is not    *)
(* killed before it reaches the meta file, after any number of edits and   *)
(* interruptions; the dependencies Registry writes are complete, in        *)
(* whatever order Go walks its maps.                                       *)
(***************************************************************************)
EXTENDS SyncObjects, RingBuffer, Strings, Chains, Install, Registry, CountingProofs

-----------------------------------------------------------------------------
(* The stacks of syncObjectManager                                           *)

(* Taking the last handle off a stack without repetitions. *)
LEMMA PopFacts ==
  ASSUME NEW S, NEW stack \in Seq(S), stack # <<>>, IsInjective(stack)
  PROVE  /\ Pop(stack) \in Seq(S)
         /\ IsInjective(Pop(stack))
         /\ Range(Pop(stack)) = Range(stack) \ {Top(stack)}
         /\ Top(stack) \in Range(stack)
<1>1. Len(stack) \in Nat \ {0} /\ DOMAIN stack = 1 .. Len(stack)
  OBVIOUS
<1>2. /\ Pop(stack) \in Seq(S)
      /\ DOMAIN Pop(stack) = 1 .. Len(stack) - 1
      /\ \A i \in DOMAIN Pop(stack) : Pop(stack)[i] = stack[i]
  BY <1>1 DEF Pop
<1>3. IsInjective(Pop(stack))
  BY <1>1, <1>2 DEF IsInjective
<1>4. Top(stack) \in Range(stack)
  BY <1>1 DEF Top, Range
<1>5. ASSUME NEW i \in DOMAIN Pop(stack)
      PROVE  stack[i] # Top(stack)
  BY <1>1, <1>2, <1>5 DEF Top, IsInjective
<1>6. Range(Pop(stack)) \subseteq Range(stack) \ {Top(stack)}
  BY <1>1, <1>2, <1>5 DEF Range
<1>7. ASSUME NEW x \in Range(stack) \ {Top(stack)}
      PROVE  x \in Range(Pop(stack))
  <2>1. PICK i \in DOMAIN stack : stack[i] = x
    BY <1>7 DEF Range
  <2>2. i \in DOMAIN Pop(stack)
    BY <1>1, <1>2, <2>1 DEF Top
  <2>. QED BY <1>2, <2>1, <2>2 DEF Range
<1>. QED BY <1>2, <1>3, <1>4, <1>6, <1>7

(* Putting a handle that is not there on top. *)
LEMMA PushFacts ==
  ASSUME NEW S, NEW stack \in Seq(S), NEW handle \in S
  PROVE  /\ Push(stack, handle) \in Seq(S)
         /\ Range(Push(stack, handle)) = Range(stack) \union {handle}
         /\ IsInjective(stack) /\ handle \notin Range(stack)
              => IsInjective(Push(stack, handle))
<1>1. /\ Len(stack) \in Nat /\ DOMAIN stack = 1 .. Len(stack)
      /\ Push(stack, handle) \in Seq(S)
      /\ DOMAIN Push(stack, handle) = 1 .. Len(stack) + 1
      /\ \A i \in DOMAIN stack : Push(stack, handle)[i] = stack[i]
      /\ Push(stack, handle)[Len(stack) + 1] = handle
  BY DEF Push
<1>2. Range(Push(stack, handle)) = Range(stack) \union {handle}
  <2>1. ASSUME NEW x \in Range(stack) \union {handle}
        PROVE  x \in Range(Push(stack, handle))
    BY <1>1, <2>1 DEF Range
  <2>2. ASSUME NEW x \in Range(Push(stack, handle))
        PROVE  x \in Range(stack) \union {handle}
    BY <1>1, <2>2 DEF Range
  <2>. QED BY <2>1, <2>2
<1>3. ASSUME IsInjective(stack), handle \notin Range(stack)
      PROVE  IsInjective(Push(stack, handle))
  <2>1. \A i \in DOMAIN stack : stack[i] # handle
    BY <1>3 DEF Range
  <2>. QED BY <1>1, <1>3, <2>1 DEF IsInjective
<1>. QED BY <1>1, <1>2, <1>3

LEMMA EmptyStack ==
  /\ \A S : <<>> \in Seq(S)
  /\ IsInjective(<<>>)
  /\ Range(<<>>) = {}
BY DEF IsInjective, Range
-----------------------------------------------------------------------------
(* The three parts of StacksSafe need one another: a fence is taken off the *)
(* stack on the strength of its being there only once.                      *)
LEMMA InitEstablishes == Init => StacksSafe
BY EmptyStack DEF Init, StacksSafe, TypeOK, StacksExclusive, FreeFencesSignaled

LEMMA AcquireSemaphoreKeeps ==
  StacksSafe /\ AcquireBinarySemaphore => StacksSafe'
<1>. SUFFICES ASSUME StacksSafe, AcquireBinarySemaphore PROVE StacksSafe'
  OBVIOUS
<1>. USE DEF StacksSafe, TypeOK, StacksExclusive, FreeFencesSignaled
<1>1. CASE freeSemaphores # <<>>
  <2>1. /\ freeSemaphores' = Pop(freeSemaphores)
        /\ lentSemaphores' = lentSemaphores \union {Top(freeSemaphores)}
        /\ UNCHANGED <<freeFences, lentFences, signaled, fatal>>
    BY <1>1 DEF AcquireBinarySemaphore
  <2>2. /\ Pop(freeSemaphores) \in Seq(Semaphores)
        /\ IsInjective(Pop(freeSemaphores))
        /\ Range(Pop(freeSemaphores)) = Range(freeSemaphores) \ {Top(freeSemaphores)}
        /\ Top(freeSemaphores) \in Range(freeSemaphores)
    BY <1>1, PopFacts
  <2>3. Range(freeSemaphores) \subseteq Semaphores
    BY DEF Range
  <2>. QED BY <2>1, <2>2, <2>3
<1>2. CASE freeSemaphores = <<>>
  BY <1>2, EmptyStack DEF AcquireBinarySemaphore
<1>. QED BY <1>1, <1>2

LEMMA ReleaseSemaphoreKeeps ==
  ASSUME NEW s \in Semaphores, StacksSafe,
         ReleaseBinarySemaphore(s) \/ DestroySemaphore(s)
  PROVE  StacksSafe'
<1>. USE DEF StacksSafe, TypeOK, StacksExclusive, FreeFencesSignaled
<1>1. CASE ReleaseBinarySemaphore(s)
  <2>1. /\ s \in lentSemaphores /\ s \notin Range(freeSemaphores)
        /\ freeSemaphores' = Push(freeSemaphores, s)
        /\ lentSemaphores' = lentSemaphores \ {s}
        /\ UNCHANGED <<freeFences, lentFences, signaled, fatal>>
    BY <1>1 DEF ReleaseBinarySemaphore
  <2>2. /\ Push(freeSemaphores, s) \in Seq(Semaphores)
        /\ IsInjective(Push(freeSemaphores, s))
        /\ Range(Push(freeSemaphores, s)) = Range(freeSemaphores) \union {s}
    BY <2>1, PushFacts
  <2>. QED BY <2>1, <2>2
<1>2. CASE DestroySemaphore(s)
  BY <1>2 DEF DestroySemaphore
<1>. QED BY <1>1, <1>2

LEMMA AcquireFenceKeeps ==
  ASSUME NEW signal \in BOOLEAN, StacksSafe, AcquireFence(signal)
  PROVE  StacksSafe'
<1>. USE DEF StacksSafe, TypeOK, StacksExclusive, FreeFencesSignaled
<1>1. CASE freeFences # <<>>
  <2>1. /\ freeFences' = Pop(freeFences)
        /\ lentFences' = lentFences \union {Top(freeFences)}
        /\ signaled' = signaled \/ signaled' = signaled \ {Top(freeFences)}
        /\ UNCHANGED <<freeSemaphores, lentSemaphores, fatal>>
    BY <1>1 DEF AcquireFence, Recycled
  <2>2. /\ Pop(freeFences) \in Seq(Fences)
        /\ IsInjective(Pop(freeFences))
        /\ Range(Pop(freeFences)) = Range(freeFences) \ {Top(freeFences)}
        /\ Top(freeFences) \in Range(freeFences)
    BY <1>1, PopFacts
  <2>3. Range(freeFences) \subseteq Fences
    BY DEF Range
  <2>. QED BY <2>1, <2>2, <2>3
<1>2. CASE freeFences = <<>>
  BY <1>2, EmptyStack DEF AcquireFence
<1>. QED BY <1>1, <1>2

LEMMA FenceHeldKeeps ==
  ASSUME NEW f \in Fences, StacksSafe, ReleaseFence(f) \/ UseFence(f)
  PROVE  StacksSafe'
<1>. USE DEF StacksSafe, TypeOK, StacksExclusive, FreeFencesSignaled
<1>1. CASE ReleaseFence(f) /\ Returnable(f)
  <2>1. /\ f \in lentFences /\ f \notin Range(freeFences) /\ f \in signaled
        /\ freeFences' = Push(freeFences, f)
        /\ lentFences' = lentFences \ {f}
        /\ UNCHANGED <<freeSemaphores, lentSemaphores, signaled, fatal>>
    BY <1>1 DEF ReleaseFence, Returnable
  <2>2. /\ Push(freeFences, f) \in Seq(Fences)
        /\ IsInjective(Push(freeFences, f))
        /\ Range(Push(freeFences, f)) = Range(freeFences) \union {f}
    BY <2>1, PushFacts
  <2>. QED BY <2>1, <2>2
<1>2. CASE ReleaseFence(f) /\ ~ Returnable(f)
  BY <1>2 DEF ReleaseFence
<1>3. CASE UseFence(f)
  BY <1>3 DEF UseFence
<1>. QED BY <1>1, <1>2, <1>3

LEMMA StepKeeps == StacksSafe /\ [Next]_vars => StacksSafe'
<1>. SUFFICES ASSUME StacksSafe, [Next]_vars PROVE StacksSafe'
  OBVIOUS
<1>1. CASE AcquireBinarySemaphore
  BY <1>1, AcquireSemaphoreKeeps
<1>2. CASE \E s \in Semaphores : ReleaseBinarySemaphore(s) \/ DestroySemaphore(s)
  BY <1>2, ReleaseSemaphoreKeeps
<1>3. CASE \E signal \in BOOLEAN : AcquireFence(signal)
  BY <1>3, AcquireFenceKeeps
<1>4. CASE \E f \in Fences : ReleaseFence(f) \/ UseFence(f)
  BY <1>4, FenceHeldKeeps
<1>5. CASE Clear
  BY <1>5, EmptyStack
     DEF Clear, StacksSafe, TypeOK, StacksExclusive, FreeFencesSignaled
<1>6. CASE UNCHANGED vars
  BY <1>6 DEF vars, StacksSafe, TypeOK, StacksExclusive, FreeFencesSignaled
<1>. QED BY <1>1, <1>2, <1>3, <1>4, <1>5, <1>6 DEF Next, Aborted

(* The stacks stay typed, hold each handle once and never one that is lent,  *)
(* and recycle only signaled fences (syncObjectManager).                    *)
THEOREM StacksAlwaysSafe == Spec => []StacksSafe
BY InitEstablishes, StepKeeps, PTL DEF Spec

(* No handle is on a stack twice, nor there while a borrower holds it, in    *)
(* whatever order handles are borrowed, returned and destroyed              *)
(* (acquireBinarySemaphore, acquireFence and their releases).               *)
THEOREM HandlesExclusive == Spec => []StacksExclusive
BY StacksAlwaysSafe, PTL DEF StacksSafe

(* A fence acquireFence can recycle is signaled, which acquireFence(true)    *)
(* takes for granted.                                                       *)
THEOREM RecycledFencesSignaled == Spec => []FreeFencesSignaled
BY StacksAlwaysSafe, PTL DEF StacksSafe
-----------------------------------------------------------------------------
(* acquireFence returns what it was asked for, whether it recycles or        *)
(* creates, since the stack holds only signaled fences.                     *)
THEOREM FencesCorrect == Spec => FencesAsAsked
<1>1. ASSUME StacksSafe, NEW signal \in BOOLEAN, AcquireFence(signal),
             NEW f \in lentFences' \ lentFences
      PROVE  f \in signaled' <=> signal
  <2>. USE DEF StacksSafe, TypeOK, StacksExclusive, FreeFencesSignaled
  <2>1. CASE freeFences # <<>>
    <3>1. f = Top(freeFences) /\ signaled' = Recycled(f, signal)
      BY <1>1, <2>1 DEF AcquireFence
    <3>2. f \in Range(freeFences)
      BY <1>1, <2>1, <3>1, PopFacts
    <3>. QED BY <1>1, <3>1, <3>2 DEF Recycled
  <2>2. CASE freeFences = <<>>
    BY <1>1, <2>2 DEF AcquireFence
  <2>. QED BY <2>1, <2>2
<1>2. StacksSafe /\ [Next]_vars =>
        [\A signal \in BOOLEAN : AcquireFence(signal) =>
           \A f \in lentFences' \ lentFences : f \in signaled' <=> signal]_vars
  BY <1>1
<1>. QED BY <1>2, StacksAlwaysSafe, PTL DEF Spec, FencesAsAsked
-----------------------------------------------------------------------------
(* What acquiring does to the stack and the loans, seen as sets: a free       *)
(* handle moves, or none was free and a new one is lent.                    *)
LEMMA AcquireSemaphoreMoves ==
  ASSUME StacksSafe, AcquireBinarySemaphore
  PROVE  SemaphorePool!Recycle
<1>. USE DEF StacksSafe, TypeOK, StacksExclusive
<1>1. Range(freeSemaphores) \subseteq Semaphores
  BY DEF Range
<1>2. CASE freeSemaphores # <<>>
  <2>1. /\ Range(freeSemaphores') = Range(freeSemaphores) \ {Top(freeSemaphores)}
        /\ Top(freeSemaphores) \in Range(freeSemaphores)
        /\ lentSemaphores' = lentSemaphores \union {Top(freeSemaphores)}
    BY <1>2, PopFacts DEF AcquireBinarySemaphore
  <2>. QED BY <1>1, <2>1 DEF SemaphorePool!Recycle
<1>3. CASE freeSemaphores = <<>>
  <2>1. /\ Range(freeSemaphores) = {} /\ Range(freeSemaphores') = {}
        /\ \E s \in Semaphores \ lentSemaphores : lentSemaphores' = lentSemaphores \union {s}
    BY <1>3, EmptyStack DEF AcquireBinarySemaphore
  <2>. QED BY <2>1 DEF SemaphorePool!Recycle
<1>. QED BY <1>2, <1>3

LEMMA ReleaseSemaphoreMoves ==
  ASSUME NEW s \in Semaphores, StacksSafe,
         ReleaseBinarySemaphore(s) \/ DestroySemaphore(s)
  PROVE  SemaphorePool!Recycle
<1>. USE DEF StacksSafe, TypeOK, StacksExclusive
<1>1. Range(freeSemaphores) \subseteq Semaphores
  BY DEF Range
<1>2. CASE ReleaseBinarySemaphore(s)
  <2>1. /\ Range(freeSemaphores') = Range(freeSemaphores) \union {s}
        /\ lentSemaphores' = lentSemaphores \ {s} /\ s \in lentSemaphores
    BY <1>2, PushFacts DEF ReleaseBinarySemaphore
  <2>. QED BY <1>1, <2>1 DEF SemaphorePool!Recycle
<1>3. CASE DestroySemaphore(s)
  <2>1. /\ Range(freeSemaphores') = Range(freeSemaphores)
        /\ lentSemaphores' = lentSemaphores \ {s}
    BY <1>3 DEF DestroySemaphore
  <2>. QED BY <1>1, <2>1 DEF SemaphorePool!Recycle
<1>. QED BY <1>2, <1>3

(* The stack of semaphores is a SyncPool whose borrowers may destroy what    *)
(* they were lent, as ~image does without a fence.                          *)
THEOREM SemaphoreStackPools == Spec => SemaphoresPooled
<1>1. Init => SemaphorePool!Init
  BY EmptyStack DEF Init, SemaphorePool!Init
<1>2. StacksSafe /\ [Next]_vars => [SemaphorePool!Next]_(SemaphorePool!poolVars)
  <2>. SUFFICES ASSUME StacksSafe, [Next]_vars
                PROVE  [SemaphorePool!Next]_(SemaphorePool!poolVars)
    OBVIOUS
  <2>. USE DEF SemaphorePool!Next, SemaphorePool!poolVars
  <2>1. CASE AcquireBinarySemaphore
    BY <2>1, AcquireSemaphoreMoves
  <2>2. CASE \E s \in Semaphores : ReleaseBinarySemaphore(s) \/ DestroySemaphore(s)
    BY <2>2, ReleaseSemaphoreMoves
  <2>3. CASE Clear
    BY <2>3, EmptyStack DEF Clear, SemaphorePool!Clear
  <2>4. CASE UNCHANGED <<freeSemaphores, lentSemaphores>>
    BY <2>4
  <2>. QED
    BY <2>1, <2>2, <2>3, <2>4
       DEF Next, AcquireFence, ReleaseFence, UseFence, Aborted, vars
<1>. QED
  BY <1>1, <1>2, StacksAlwaysSafe, PTL DEF Spec, SemaphoresPooled, SemaphorePool!Spec

LEMMA AcquireFenceMoves ==
  ASSUME NEW signal \in BOOLEAN, StacksSafe, AcquireFence(signal)
  PROVE  FencePool!Recycle
<1>. USE DEF StacksSafe, TypeOK, StacksExclusive
<1>1. Range(freeFences) \subseteq Fences
  BY DEF Range
<1>2. CASE freeFences # <<>>
  <2>1. /\ Range(freeFences') = Range(freeFences) \ {Top(freeFences)}
        /\ Top(freeFences) \in Range(freeFences)
        /\ lentFences' = lentFences \union {Top(freeFences)}
    BY <1>2, PopFacts DEF AcquireFence
  <2>. QED BY <1>1, <2>1 DEF FencePool!Recycle
<1>3. CASE freeFences = <<>>
  <2>1. /\ Range(freeFences) = {} /\ Range(freeFences') = {}
        /\ \E f \in Fences \ lentFences : lentFences' = lentFences \union {f}
    BY <1>3, EmptyStack DEF AcquireFence
  <2>. QED BY <2>1 DEF FencePool!Recycle
<1>. QED BY <1>2, <1>3

LEMMA ReleaseFenceMoves ==
  ASSUME NEW f \in Fences, StacksSafe, ReleaseFence(f), Returnable(f)
  PROVE  FencePool!Recycle
<1>1. /\ Range(freeFences') = Range(freeFences) \union {f}
      /\ lentFences' = lentFences \ {f} /\ f \in lentFences
  BY PushFacts DEF ReleaseFence, StacksSafe, TypeOK
<1>2. Range(freeFences) \subseteq Fences
  BY DEF Range, StacksSafe, TypeOK
<1>. QED
  BY <1>1, <1>2 DEF FencePool!Recycle, StacksSafe, TypeOK, StacksExclusive

(* The stack of fences is a SyncPool that gets every fence back.             *)
THEOREM FenceStackPools == Spec => FencesPooled
<1>1. Init => FencePool!Init
  BY EmptyStack DEF Init, FencePool!Init
<1>2. StacksSafe /\ [Next]_vars => [FencePool!Next]_(FencePool!poolVars)
  <2>. SUFFICES ASSUME StacksSafe, [Next]_vars
                PROVE  [FencePool!Next]_(FencePool!poolVars)
    OBVIOUS
  <2>. USE DEF FencePool!Next, FencePool!poolVars
  <2>1. CASE \E signal \in BOOLEAN : AcquireFence(signal)
    BY <2>1, AcquireFenceMoves
  <2>2. CASE \E f \in Fences : ReleaseFence(f) /\ Returnable(f)
    BY <2>2, ReleaseFenceMoves
  <2>3. CASE Clear
    BY <2>3, EmptyStack DEF Clear, FencePool!Clear
  <2>4. CASE UNCHANGED <<freeFences, lentFences>>
    BY <2>4
  <2>5. ASSUME NEW f \in Fences, ReleaseFence(f), ~ Returnable(f)
        PROVE  UNCHANGED <<freeFences, lentFences>>
    BY <2>5 DEF ReleaseFence
  <2>. QED
    BY <2>1, <2>2, <2>3, <2>4, <2>5
       DEF Next, AcquireBinarySemaphore, ReleaseBinarySemaphore, DestroySemaphore,
           UseFence, Aborted, vars
<1>. QED
  BY <1>1, <1>2, StacksAlwaysSafe, PTL DEF Spec, FencesPooled, FencePool!Spec

(* Together: what the callers of the syncObjectManager rely on holds for any *)
(* number of handles and any sequence of calls.                             *)
THEOREM StacksPool == Spec => StacksArePools
BY SemaphoreStackPools, FenceStackPools, FencesCorrect DEF StacksArePools
-----------------------------------------------------------------------------
(* The remainder the code takes only ever wraps once. *)
LEMMA Remainder ==
  ASSUME NEW c \in Nat \ {0}, NEW s \in 0 .. c - 1, NEW i \in 0 .. c
  PROVE  (s + i) % c = IF s + i < c THEN s + i ELSE s + i - c
<1>1. CASE s + i < c
  BY <1>1, SMT
<1>2. CASE ~ s + i < c
  BY <1>2, SMT
<1>. QED BY <1>1, <1>2

(* How far behind the first element a cell is. *)
Offset(s, c, j) == IF j >= s THEN j - s ELSE j + c - s

(* A cell is in use when its offset is less than the length. *)
LEMMA CellOffset ==
  ASSUME NEW c \in Nat \ {0}, NEW s \in 0 .. c - 1, NEW l \in 0 .. c, NEW j \in 0 .. c - 1
  PROVE  (\E i \in 0 .. l - 1 : j = (s + i) % c) <=> Offset(s, c, j) < l
<1>1. Offset(s, c, j) \in 0 .. c - 1 /\ (s + Offset(s, c, j)) % c = j
  <2>1. Offset(s, c, j) \in 0 .. c - 1 /\ Offset(s, c, j) \in 0 .. c
    BY DEF Offset
  <2>. QED BY <2>1, Remainder DEF Offset
<1>2. ASSUME NEW i \in 0 .. l - 1, j = (s + i) % c
      PROVE  Offset(s, c, j) = i
  <2>1. i \in 0 .. c
    OBVIOUS
  <2>2. (s + i) % c = IF s + i < c THEN s + i ELSE s + i - c
    BY <2>1, Remainder
  <2>. QED BY <1>2, <2>2 DEF Offset
<1>. QED BY <1>1, <1>2

(* The types and the cells in use depend on each other. *)
RingInv ==
  /\ RingTypeOK
  /\ cap = 0 => start = 0
  /\ CellsInUse

(* What RingInv says of one cell and of one element. *)
LEMMA CellFacts ==
  ASSUME RingInv, cap # 0
  PROVE  /\ cap \in Nat \ {0} /\ start \in 0 .. cap - 1 /\ len \in 0 .. cap
         /\ \A j \in 0 .. cap - 1 : cells[j] # Raw <=> Offset(start, cap, j) < len
         /\ \A i \in 0 .. cap :
              Slot(i, cap) = IF start + i < cap THEN start + i ELSE start + i - cap
         /\ \A i \in 0 .. len - 1 : Slot(i, cap) \in 0 .. cap - 1 /\ cells[Slot(i, cap)] \in Elements
<1>1. cap \in Nat \ {0} /\ start \in 0 .. cap - 1 /\ len \in 0 .. cap
  BY RingAssumption DEF RingInv, RingTypeOK
<1>2. \A j \in 0 .. cap - 1 : cells[j] # Raw <=> Offset(start, cap, j) < len
  BY <1>1, CellOffset DEF RingInv, CellsInUse, Slot
<1>3. \A i \in 0 .. cap :
        Slot(i, cap) = IF start + i < cap THEN start + i ELSE start + i - cap
  <2>1. SUFFICES ASSUME NEW i \in 0 .. cap
                 PROVE  (start + i) % cap = IF start + i < cap THEN start + i ELSE start + i - cap
    BY DEF Slot
  <2>. QED BY <1>1, Remainder
<1>4. ASSUME NEW i \in 0 .. len - 1
      PROVE  Slot(i, cap) \in 0 .. cap - 1 /\ cells[Slot(i, cap)] \in Elements
  <2>1. Slot(i, cap) \in 0 .. cap - 1
    BY <1>1, <1>3
  <2>2. cells[Slot(i, cap)] # Raw
    BY <1>1, <2>1 DEF RingInv, CellsInUse
  <2>. QED BY <1>1, <2>1, <2>2 DEF RingInv, RingTypeOK
<1>. QED BY <1>1, <1>2, <1>3, <1>4

(* Growing keeps every element at its place in the queue and leaves the     *)
(* other cells raw.                                                        *)
LEMMA Grows ==
  ASSUME RingInv, NEW n \in Nat, cap < n
  PROVE  /\ StartIn(n) \in 0 .. n - 1
         /\ DOMAIN CellsIn(n) = 0 .. n - 1
         /\ \A j \in 0 .. n - 1 : CellsIn(n)[j] \in Elements \union {Raw}
         /\ \A j \in 0 .. n - 1 : CellsIn(n)[j] # Raw <=> Offset(StartIn(n), n, j) < len
         /\ \A i \in 0 .. len - 1 :
              CellsIn(n)[(StartIn(n) + i) % n] = cells[Slot(i, cap)]
<1>1. cap \in Nat /\ n \in Nat \ {0} /\ len \in 0 .. cap /\ DOMAIN CellsIn(n) = 0 .. n - 1
  BY RingAssumption DEF RingInv, RingTypeOK, CellsIn
<1>2. CASE cap = 0
  <2>1. len = 0 /\ start = 0 /\ ~ Wraps /\ StartIn(n) = 0
    BY <1>1, <1>2 DEF RingInv, Wraps, StartIn
  <2>2. \A j \in 0 .. n - 1 : CellsIn(n)[j] = Raw
    BY <1>1, <1>2, <2>1 DEF CellsIn
  <2>3. \A j \in 0 .. n - 1 : ~ Offset(0, n, j) < 0
    BY <1>1 DEF Offset
  <2>. QED BY <1>1, <2>1, <2>2, <2>3
<1>3. CASE cap # 0
  <2>1. /\ cap \in Nat \ {0} /\ start \in 0 .. cap - 1
        /\ \A j \in 0 .. cap - 1 : cells[j] # Raw <=> Offset(start, cap, j) < len
        /\ \A j \in 0 .. cap - 1 : cells[j] \in Elements \union {Raw}
        /\ \A i \in 0 .. cap :
             Slot(i, cap) = IF start + i < cap THEN start + i ELSE start + i - cap
    BY <1>3, CellFacts DEF RingInv, RingTypeOK
  <2>2. Wraps <=> len # 0 /\ start + len > cap
    <3>1. CASE len = 0
      BY <3>1 DEF Wraps
    <3>2. CASE len # 0
      <4>1. len - 1 \in 0 .. cap
        BY <1>1, <3>2
      <4>2. Slot(len - 1, cap) = IF start + (len - 1) < cap THEN start + (len - 1) ELSE start + (len - 1) - cap
        BY <2>1, <4>1
      <4>. QED BY <1>1, <2>1, <3>2, <4>2 DEF Wraps
    <3>. QED BY <3>1, <3>2
  <2>3. StartIn(n) \in 0 .. n - 1
    BY <1>1, <2>1, <2>2 DEF StartIn
  <2>4. ASSUME NEW j \in 0 .. n - 1
        PROVE  /\ CellsIn(n)[j] \in Elements \union {Raw}
               /\ CellsIn(n)[j] # Raw <=> Offset(StartIn(n), n, j) < len
    <3>1. CASE ~ Wraps
      <4>1. CellsIn(n)[j] = IF j < cap THEN cells[j] ELSE Raw
        BY <3>1 DEF CellsIn
      <4>2. j < cap => (Offset(start, n, j) < len <=> Offset(start, cap, j) < len)
        BY <1>1, <2>1, <2>2, <3>1 DEF Offset
      <4>3. ~ j < cap => ~ Offset(start, n, j) < len
        BY <1>1, <2>1, <2>2, <3>1 DEF Offset
      <4>. QED BY <1>1, <2>1, <3>1, <4>1, <4>2, <4>3 DEF StartIn
    <3>2. CASE Wraps
      <4>1. CellsIn(n)[j] = IF j < start THEN cells[j]
                            ELSE IF j >= start + (n - cap) THEN cells[j - (n - cap)] ELSE Raw
        BY <3>2 DEF CellsIn
      <4>2. StartIn(n) = start + (n - cap)
        BY <3>2 DEF StartIn
      <4>3. CASE j < start
        BY <1>1, <2>1, <2>2, <3>2, <4>1, <4>2, <4>3 DEF Offset
      <4>4. CASE j >= start + (n - cap)
        <5>1. j - (n - cap) \in 0 .. cap - 1 /\ ~ j < start
          BY <1>1, <2>1, <4>4
        <5>2. CellsIn(n)[j] = cells[j - (n - cap)]
          BY <4>1, <4>4, <5>1
        <5>3. Offset(StartIn(n), n, j) = Offset(start, cap, j - (n - cap))
          BY <1>1, <2>1, <4>2, <4>4 DEF Offset
        <5>. QED BY <2>1, <5>1, <5>2, <5>3
      <4>5. CASE ~ j < start /\ ~ j >= start + (n - cap)
        <5>1. CellsIn(n)[j] = Raw
          BY <4>1, <4>5
        <5>2. ~ Offset(StartIn(n), n, j) < len
          BY <1>1, <2>1, <2>2, <3>2, <4>2, <4>5 DEF Offset
        <5>. QED BY <5>1, <5>2
      <4>. QED BY <4>3, <4>4, <4>5
    <3>. QED BY <3>1, <3>2
  <2>5. ASSUME NEW i \in 0 .. len - 1
        PROVE  CellsIn(n)[(StartIn(n) + i) % n] = cells[Slot(i, cap)]
    <3>1. /\ i \in 0 .. cap /\ StartIn(n) + i \in Nat /\ StartIn(n) + i < n + n
          /\ Slot(i, cap) = IF start + i < cap THEN start + i ELSE start + i - cap
      BY <1>1, <2>1, <2>3
    <3>2. (StartIn(n) + i) % n = IF StartIn(n) + i < n THEN StartIn(n) + i ELSE StartIn(n) + i - n
      <4>1. n \in Nat \ {0} /\ StartIn(n) \in 0 .. n - 1 /\ i \in 0 .. n
        BY <1>1, <2>1, <2>3
      <4>. QED BY <4>1, Remainder
    <3>3. CASE ~ Wraps
      <4>1. (StartIn(n) + i) % n = start + i /\ Slot(i, cap) = start + i /\ start + i \in 0 .. cap - 1
        BY <1>1, <2>1, <2>2, <3>1, <3>2, <3>3 DEF StartIn
      <4>. QED BY <1>1, <3>3, <4>1 DEF CellsIn
    <3>4. CASE Wraps /\ start + i < cap
      <4>1. (StartIn(n) + i) % n = start + i + (n - cap) /\ Slot(i, cap) = start + i
        BY <1>1, <2>1, <3>1, <3>2, <3>4 DEF StartIn
      <4>3. start + i + (n - cap) - (n - cap) = start + i
        BY <1>1, <2>1
      <4>2. start + i + (n - cap) \in 0 .. n - 1 /\ start + i + (n - cap) >= start + (n - cap)
            /\ ~ start + i + (n - cap) < start
        BY <1>1, <2>1, <3>4
      <4>4. PICK j \in 0 .. n - 1 : j = start + i + (n - cap)
        BY <4>2
      <4>5. ~ j < start /\ j >= start + (n - cap) /\ j - (n - cap) = start + i
        BY <1>1, <2>1, <4>4
      <4>6. CellsIn(n)[j] = cells[j - (n - cap)]
        BY <3>4, <4>4, <4>5 DEF CellsIn
      <4>. QED BY <4>1, <4>4, <4>5, <4>6
    <3>5. CASE Wraps /\ ~ start + i < cap
      <4>1. (StartIn(n) + i) % n = start + i - cap /\ Slot(i, cap) = start + i - cap
        BY <1>1, <2>1, <3>1, <3>2, <3>5 DEF StartIn
      <4>2. start + i - cap \in 0 .. n - 1 /\ start + i - cap < start
        BY <1>1, <2>1, <3>5
      <4>. QED BY <3>5, <4>1, <4>2 DEF CellsIn
    <3>. QED BY <3>3, <3>4, <3>5
  <2>. QED BY <1>1, <2>3, <2>4, <2>5
<1>. QED BY <1>2, <1>3

-----------------------------------------------------------------------------
(* Calls keep RingInv. *)

LEMMA ReserveKeeps ==
  ASSUME RingInv, NEW n \in 0 .. MaxCap, Reserve(n)
  PROVE  RingInv'
<1>1. CASE UNCHANGED <<start, cap, cells>>
  BY <1>1 DEF RingInv, RingTypeOK, CellsInUse, Reserve, Slot
<1>2. CASE cap < n /\ start' = StartIn(n) /\ cells' = CellsIn(n) /\ cap' = n
  <2>1. n \in Nat \ {0} /\ len \in 0 .. n /\ len' = len /\ ringFatal' = ringFatal
    BY <1>2, RingAssumption DEF RingInv, RingTypeOK, Reserve
  <2>2. /\ start' \in 0 .. n - 1 /\ DOMAIN cells' = 0 .. n - 1
        /\ \A j \in 0 .. n - 1 : cells'[j] \in Elements \union {Raw}
        /\ \A j \in 0 .. n - 1 : cells'[j] # Raw <=> Offset(start', n, j) < len
    BY <1>2, <2>1, Grows
  <2>3. RingTypeOK'
    BY <1>2, <2>1, <2>2 DEF RingInv, RingTypeOK
  <2>4. CellsInUse'
    BY <1>2, <2>1, <2>2, CellOffset DEF CellsInUse, Slot
  <2>. QED BY <1>2, <2>1, <2>3, <2>4 DEF RingInv
<1>. QED BY <1>1, <1>2 DEF Reserve

(* Construct behind the last of the elements. *)
LEMMA Behind ==
  ASSUME NEW c \in Nat \ {0}, NEW s \in 0 .. c - 1, NEW l \in 0 .. c - 1, NEW j \in 0 .. c - 1
  PROVE  /\ (s + l) % c \in 0 .. c - 1
         /\ Offset(s, c, (s + l) % c) = l
         /\ j # (s + l) % c => (Offset(s, c, j) < l + 1 <=> Offset(s, c, j) < l)
<1>1. l \in 0 .. c
  OBVIOUS
<1>2. (s + l) % c = IF s + l < c THEN s + l ELSE s + l - c
  BY <1>1, Remainder
<1>. QED BY <1>2 DEF Offset

LEMMA PushBackKeeps ==
  ASSUME RingInv, NEW e \in Elements, PushBack(e)
  PROVE  RingInv'
<1>1. ASSUME NEW c \in Nat \ {0}, NEW s \in 0 .. c - 1, len \in 0 .. c - 1,
             NEW old, DOMAIN old = 0 .. c - 1,
             \A j \in 0 .. c - 1 : old[j] \in Elements \union {Raw},
             \A j \in 0 .. c - 1 : old[j] # Raw <=> Offset(s, c, j) < len,
             cap' = c, c <= MaxCap, start' = s,
             cells' = [old EXCEPT ![(s + len) % c] = e]
      PROVE  RingInv'
  <2>1. len' = len + 1 /\ len + 1 \in 0 .. c /\ ringFatal' = ringFatal /\ e # Raw
    BY <1>1, RingAssumption DEF PushBack
  <2>2. (s + len) % c \in 0 .. c - 1 /\ Offset(s, c, (s + len) % c) = len
    BY <1>1, Behind
  <2>3. DOMAIN cells' = 0 .. c - 1 /\ \A j \in 0 .. c - 1 :
          cells'[j] = IF j = (s + len) % c THEN e ELSE old[j]
    BY <1>1
  <2>4. RingTypeOK'
    BY <1>1, <2>1, <2>3 DEF RingInv, RingTypeOK
  <2>5. ASSUME NEW j \in 0 .. c - 1
        PROVE  cells'[j] # Raw <=> Offset(s, c, j) < len + 1
    <3>1. j # (s + len) % c => (Offset(s, c, j) < len + 1 <=> Offset(s, c, j) < len)
      BY <1>1, Behind
    <3>2. CASE j = (s + len) % c
      BY <1>1, <2>1, <2>2, <2>3, <3>2
    <3>3. CASE j # (s + len) % c
      BY <1>1, <2>3, <3>1, <3>3
    <3>. QED BY <3>2, <3>3
  <2>6. ASSUME NEW j \in 0 .. c - 1
        PROVE  (\E i \in 0 .. (len + 1) - 1 : j = (s + i) % c) <=> Offset(s, c, j) < len + 1
    BY <1>1, <2>1, CellOffset
  <2>7. CellsInUse'
    BY <1>1, <2>1, <2>5, <2>6 DEF CellsInUse, Slot
  <2>. QED BY <1>1, <2>1, <2>4, <2>7 DEF RingInv
<1>2. CASE len < cap /\ cells' = [cells EXCEPT ![Slot(len, cap)] = e] /\ UNCHANGED <<start, cap>>
  <2>1. cap # 0 /\ len \in 0 .. cap - 1 /\ cap <= MaxCap /\ DOMAIN cells = 0 .. cap - 1
        /\ \A j \in 0 .. cap - 1 : cells[j] \in Elements \union {Raw}
    BY <1>2, RingAssumption DEF RingInv, RingTypeOK
  <2>. QED BY <1>1, <1>2, <2>1, CellFacts DEF Slot
<1>3. CASE /\ len = cap /\ Grown <= MaxCap /\ start' = StartIn(Grown) /\ cap' = Grown
           /\ cells' = [CellsIn(Grown) EXCEPT ![(StartIn(Grown) + len) % Grown] = e]
  <2>1. Grown \in Nat \ {0} /\ cap < Grown /\ len \in 0 .. Grown - 1
    BY <1>3, RingAssumption DEF RingInv, RingTypeOK, Grown
  <2>. QED BY <1>1, <1>3, <2>1, Grows
<1>. QED BY <1>2, <1>3 DEF PushBack

LEMMA DequeueFrontKeeps ==
  ASSUME RingInv, DequeueFront
  PROVE  RingInv'
<1>1. CASE len = 0
  BY <1>1 DEF DequeueFront, RingInv, RingTypeOK, CellsInUse, Slot
<1>2. CASE len # 0
  <2>1. cap # 0 /\ cap \in Nat \ {0} /\ start \in 0 .. cap - 1 /\ len \in 1 .. cap
        /\ DOMAIN cells = 0 .. cap - 1 /\ \A j \in 0 .. cap - 1 : cells[j] \in Elements \union {Raw}
    BY <1>2, RingAssumption DEF RingInv, RingTypeOK
  <2>2. /\ \A j \in 0 .. cap - 1 : cells[j] # Raw <=> Offset(start, cap, j) < len
        /\ Slot(1, cap) = IF start + 1 < cap THEN start + 1 ELSE start + 1 - cap
    BY <2>1, CellFacts
  <2>3. /\ start' = Slot(1, cap) /\ len' = len - 1 /\ cap' = cap /\ ringFatal' = ringFatal
        /\ cells' = [cells EXCEPT ![start] = Raw]
    BY <1>2 DEF DequeueFront
  <2>4. start' \in 0 .. cap - 1 /\ len' \in 0 .. cap
    BY <2>1, <2>2, <2>3
  <2>5. RingTypeOK'
    BY <2>1, <2>3, <2>4 DEF RingInv, RingTypeOK
  <2>6. ASSUME NEW j \in 0 .. cap - 1
        PROVE  cells'[j] # Raw <=> Offset(start', cap, j) < len'
    <3>1. CASE j = start
      <4>1. Offset(start', cap, j) = cap - 1
        BY <2>1, <2>2, <2>3, <3>1 DEF Offset
      <4>. QED BY <2>1, <2>3, <3>1, <4>1
    <3>2. CASE j # start
      <4>1. Offset(start', cap, j) = Offset(start, cap, j) - 1 /\ Offset(start, cap, j) \in 1 .. cap - 1
        BY <2>1, <2>2, <2>3, <3>2 DEF Offset
      <4>2. cells'[j] = cells[j]
        BY <2>1, <2>3, <3>2
      <4>. QED BY <2>1, <2>2, <2>3, <4>1, <4>2
    <3>. QED BY <3>1, <3>2
  <2>7. ASSUME NEW j \in 0 .. cap - 1
        PROVE  (\E i \in 0 .. len' - 1 : j = (start' + i) % cap) <=> Offset(start', cap, j) < len'
    BY <2>1, <2>4, CellOffset
  <2>8. CellsInUse'
    BY <2>3, <2>6, <2>7 DEF CellsInUse, Slot
  <2>. QED BY <2>1, <2>3, <2>5, <2>8 DEF RingInv
<1>. QED BY <1>1, <1>2

LEMMA RingInvInitially ==
  ASSUME RingInit
  PROVE  RingInv
BY RingAssumption DEF RingInit, RingInv, RingTypeOK, CellsInUse

LEMMA RingInvKept ==
  ASSUME RingInv, [RingNext]_ringVars
  PROVE  RingInv'
<1>1. ASSUME NEW n \in 0 .. MaxCap, Reserve(n) PROVE RingInv'
  BY <1>1, ReserveKeeps
<1>2. ASSUME NEW e \in Elements, PushBack(e) PROVE RingInv'
  BY <1>2, PushBackKeeps
<1>3. CASE DequeueFront
  BY <1>3, DequeueFrontKeeps
<1>4. ASSUME NEW i \in 0 .. MaxIndex, Index(i) PROVE RingInv'
  BY <1>4 DEF Index, RingInv, RingTypeOK, CellsInUse, Slot
<1>5. CASE GiveUp
  <2>1. start' = 0 /\ len' = 0 /\ cap' = 0 /\ cells' = <<>> /\ ringFatal' = ringFatal
    BY <1>5 DEF GiveUp
  <2>. QED BY <2>1, RingAssumption DEF RingInv, RingTypeOK, CellsInUse
<1>6. CASE UNCHANGED ringVars
  BY <1>6 DEF ringVars, RingInv, RingTypeOK, CellsInUse, Slot
<1>. QED BY <1>1, <1>2, <1>3, <1>4, <1>5, <1>6 DEF RingNext, RingCall, RingAborted

(* Type correctness of the buffer, for every capacity and every sequence of *)
(* calls.                                                                  *)
THEOREM RingTypeCorrect == RingSpec => []RingTypeOK
<1>1. RingInv => RingTypeOK
  BY DEF RingInv
<1>. QED BY <1>1, RingInvInitially, RingInvKept, PTL DEF RingSpec

(* The elements stay in the len cells from start on, around the end, so no  *)
(* call constructs over one or destroys raw memory.                        *)
THEOREM RingCellsInUse == RingSpec => []CellsInUse
<1>1. RingInv => CellsInUse
  BY DEF RingInv
<1>. QED BY <1>1, RingInvInitially, RingInvKept, PTL DEF RingSpec

(* With RingInv and an element in the buffer, an index in range has one.    *)
LEMMA IndexFinds ==
  ASSUME RingInv, len # 0, NEW i \in 0 .. MaxIndex, InRange(i)
  PROVE  cap # 0 /\ i \in 0 .. len - 1 /\ cells[Slot(i, cap)] # Raw
<1>1. cap # 0 /\ len \in 1 .. MaxIndex /\ cap \in Nat
  BY RingAssumption DEF RingInv, RingTypeOK
<1>2. (len - 1) % (MaxIndex + 1) = len - 1
  BY <1>1, RingAssumption
<1>3. i \in 0 .. len - 1
  BY <1>1, <1>2 DEF InRange
<1>. QED BY <1>1, <1>3, CellFacts, RingAssumption

(* As long as nobody indexes an empty buffer, operator[] never reads raw    *)
(* memory: the range check is right for every length but none.             *)
THEOREM RingIndexAnswers ==
  ASSUME IndexEmpty = FALSE
  PROVE  RingSpec => []IndexAnswers
<1>1. RingInit => IndexAnswers
  BY DEF RingInit, IndexAnswers
<1>2. RingInv /\ IndexAnswers /\ [RingNext]_ringVars => IndexAnswers'
  <2>1. SUFFICES ASSUME RingInv, IndexAnswers, [RingNext]_ringVars
                 PROVE  IndexAnswers'
    OBVIOUS
  <2>2. ASSUME NEW i \in 0 .. MaxIndex, Index(i) PROVE IndexAnswers'
    BY <2>1, <2>2, IndexFinds DEF Index, IndexAnswers
  <2>3. CASE DequeueFront
    BY <2>1, <2>3 DEF DequeueFront, IndexAnswers
  <2>. QED BY <2>1, <2>2, <2>3
       DEF RingNext, RingCall, RingAborted, Reserve, PushBack, GiveUp, ringVars, IndexAnswers
<1>. QED BY <1>1, <1>2, RingInvInitially, RingInvKept, PTL DEF RingSpec

-----------------------------------------------------------------------------
(* Calls are those of a queue. *)

(* The queue is the same if each position holds the same element. *)
LEMMA SameContents ==
  ASSUME len' = len, len \in Nat,
         \A i \in 0 .. len - 1 : cells'[Slot(i, cap)'] = cells[Slot(i, cap)]
  PROVE  Contents' = Contents
<1>1. ASSUME NEW k \in 1 .. len
      PROVE  cells'[Slot(k - 1, cap)'] = cells[Slot(k - 1, cap)]
  <2>1. k - 1 \in 0 .. len - 1
    OBVIOUS
  <2>. QED BY <2>1
<1>. QED BY <1>1 DEF Contents

LEMMA ReserveStutters ==
  ASSUME RingInv, NEW n \in 0 .. MaxCap, Reserve(n)
  PROVE  Contents' = Contents /\ got' = got
<1>0. len \in Nat /\ len' = len
  BY RingAssumption DEF RingInv, RingTypeOK, Reserve
<1>1. CASE UNCHANGED <<start, cap, cells>>
  BY <1>0, <1>1 DEF Reserve, Contents, Slot
<1>2. CASE cap < n /\ start' = StartIn(n) /\ cells' = CellsIn(n) /\ cap' = n
  <2>1. n \in Nat
    BY RingAssumption
  <2>2. \A i \in 0 .. len - 1 : cells'[(start' + i) % cap'] = cells[Slot(i, cap)]
    BY <1>2, <2>1, Grows
  <2>3. Contents' = Contents
    BY <1>0, <2>2, SameContents DEF Slot
  <2>. QED BY <2>3 DEF Reserve
<1>. QED BY <1>1, <1>2 DEF Reserve

LEMMA PushBackPuts ==
  ASSUME RingInv, NEW e \in Elements, PushBack(e)
  PROVE  Contents' = Append(Contents, e)
<1>0. len \in Nat /\ len' = len + 1
  BY RingAssumption DEF RingInv, RingTypeOK, PushBack
<1>1. ASSUME NEW c \in Nat \ {0}, NEW s \in 0 .. c - 1, len \in 0 .. c - 1,
             NEW old, DOMAIN old = 0 .. c - 1,
             \A i \in 0 .. len - 1 : old[(s + i) % c] = cells[Slot(i, cap)],
             cap' = c, start' = s, cells' = [old EXCEPT ![(s + len) % c] = e]
      PROVE  Contents' = Append(Contents, e)
  <2>1. (s + len) % c \in 0 .. c - 1
    BY <1>1, Behind
  <2>2. ASSUME NEW k \in 1 .. len
        PROVE  cells'[(s + (k - 1)) % c] = cells[Slot(k - 1, cap)]
    <3>1. k - 1 \in 0 .. len - 1 /\ k - 1 \in 0 .. c /\ len \in 0 .. c
      BY <1>1
    <3>2. /\ (s + (k - 1)) % c = IF s + (k - 1) < c THEN s + (k - 1) ELSE s + (k - 1) - c
          /\ (s + len) % c = IF s + len < c THEN s + len ELSE s + len - c
      BY <3>1, Remainder
    <3>3. (s + (k - 1)) % c # (s + len) % c /\ (s + (k - 1)) % c \in 0 .. c - 1
      BY <1>1, <3>2
    <3>. QED BY <1>1, <3>1, <3>3
  <2>3. cells'[(s + len) % c] = e
    BY <1>1, <2>1
  <2>4. Contents' = [k \in 1 .. len + 1 |-> cells'[(s + (k - 1)) % c]]
    BY <1>0, <1>1 DEF Contents, Slot
  <2>5. Append(Contents, e) = [k \in 1 .. len + 1 |-> IF k = len + 1 THEN e ELSE cells[Slot(k - 1, cap)]]
    BY <1>0 DEF Contents
  <2>6. ASSUME NEW k \in 1 .. len + 1
        PROVE  cells'[(s + (k - 1)) % c] = IF k = len + 1 THEN e ELSE cells[Slot(k - 1, cap)]
    <3>1. CASE k = len + 1
      <4>1. k - 1 = len
        BY <1>0, <3>1
      <4>. QED BY <2>3, <3>1, <4>1
    <3>2. CASE k # len + 1
      <4>1. k \in 1 .. len
        BY <1>0, <3>2
      <4>. QED BY <2>2, <3>2, <4>1
    <3>. QED BY <3>1, <3>2
  <2>. QED BY <2>4, <2>5, <2>6
<1>2. CASE len < cap /\ cells' = [cells EXCEPT ![Slot(len, cap)] = e] /\ UNCHANGED <<start, cap>>
  <2>1. cap # 0 /\ len \in 0 .. cap - 1 /\ DOMAIN cells = 0 .. cap - 1
    BY <1>2, RingAssumption DEF RingInv, RingTypeOK
  <2>2. cap \in Nat \ {0} /\ start \in 0 .. cap - 1
    BY <2>1, CellFacts
  <2>. QED BY <1>1, <1>2, <2>1, <2>2 DEF Slot
<1>3. CASE /\ len = cap /\ Grown <= MaxCap /\ start' = StartIn(Grown) /\ cap' = Grown
           /\ cells' = [CellsIn(Grown) EXCEPT ![(StartIn(Grown) + len) % Grown] = e]
  <2>1. Grown \in Nat \ {0} /\ cap < Grown /\ len \in 0 .. Grown - 1
    BY <1>3, RingAssumption DEF RingInv, RingTypeOK, Grown
  <2>. QED BY <1>1, <1>3, <2>1, Grows
<1>. QED BY <1>2, <1>3 DEF PushBack

LEMMA DequeueFrontTakes ==
  ASSUME RingInv, DequeueFront
  PROVE  \/ Contents' = Contents /\ got' = got
         \/ Contents # <<>> /\ got' = {Contents[1]} /\ Contents' = Tail(Contents)
<1>1. CASE len = 0
  BY <1>1 DEF DequeueFront, Contents, Slot
<1>2. CASE len # 0
  <2>1. cap # 0 /\ cap \in Nat \ {0} /\ start \in 0 .. cap - 1 /\ len \in 1 .. cap
        /\ DOMAIN cells = 0 .. cap - 1
    BY <1>2, RingAssumption DEF RingInv, RingTypeOK
  <2>2. /\ start' = Slot(1, cap) /\ len' = len - 1 /\ cap' = cap /\ got' = {cells[start]}
        /\ cells' = [cells EXCEPT ![start] = Raw]
    BY <1>2 DEF DequeueFront
  <2>3. \A i \in 0 .. cap :
          Slot(i, cap) = IF start + i < cap THEN start + i ELSE start + i - cap
    BY <2>1, CellFacts
  <2>4. Contents[1] = cells[start] /\ Contents # <<>> /\ Len(Contents) = len
    <3>1. 1 \in 1 .. len /\ 1 - 1 = 0 /\ 0 \in 0 .. cap
      BY <2>1
    <3>2. Slot(0, cap) = start
      BY <2>1, <2>3, <3>1
    <3>3. Contents[1] = cells[Slot(0, cap)]
      BY <3>1 DEF Contents
    <3>4. Len(Contents) = len
      BY <2>1 DEF Contents
    <3>. QED BY <2>1, <3>2, <3>3, <3>4
  <2>5. ASSUME NEW k \in 1 .. len - 1
        PROVE  cells'[Slot(k - 1, cap)'] = cells[Slot(k, cap)]
    <3>1. k \in 0 .. cap /\ k - 1 \in 0 .. cap /\ 1 \in 0 .. cap
      BY <2>1
    <3>2. /\ Slot(k, cap) = IF start + k < cap THEN start + k ELSE start + k - cap
          /\ Slot(1, cap) = IF start + 1 < cap THEN start + 1 ELSE start + 1 - cap
      BY <2>3, <3>1
    <3>3. start' \in 0 .. cap - 1
      BY <2>1, <2>2, <3>2
    <3>4. (start' + (k - 1)) % cap = IF start' + (k - 1) < cap THEN start' + (k - 1)
                                     ELSE start' + (k - 1) - cap
      BY <2>1, <3>1, <3>3, Remainder
    <3>5. (start' + (k - 1)) % cap = Slot(k, cap) /\ Slot(k, cap) # start
          /\ Slot(k, cap) \in 0 .. cap - 1
      BY <2>1, <2>2, <3>2, <3>4
    <3>6. cells'[Slot(k, cap)] = cells[Slot(k, cap)]
      BY <2>1, <2>2, <3>5
    <3>. QED BY <2>2, <3>5, <3>6 DEF Slot
  <2>6. Contents' = [k \in 1 .. len - 1 |-> cells'[Slot(k - 1, cap)']]
    BY <2>2 DEF Contents
  <2>7. Tail(Contents) = [k \in 1 .. len - 1 |-> cells[Slot(k, cap)]]
    <3>1. Tail(Contents) = [k \in 1 .. len - 1 |-> Contents[k + 1]]
      BY <2>1, <2>4 DEF Contents
    <3>2. ASSUME NEW k \in 1 .. len - 1
          PROVE  Contents[k + 1] = cells[Slot(k, cap)]
      <4>1. k + 1 \in 1 .. len /\ (k + 1) - 1 = k
        BY <2>1
      <4>. QED BY <4>1 DEF Contents
    <3>. QED BY <3>1, <3>2
  <2>. QED BY <2>2, <2>4, <2>5, <2>6, <2>7
<1>. QED BY <1>1, <1>2

LEMMA IndexLooks ==
  ASSUME RingInv, NEW i \in 0 .. MaxIndex, Index(i)
  PROVE  \/ Contents' = Contents /\ got' = got
         \/ \E k \in DOMAIN Contents : got' = {Contents[k]} /\ Contents' = Contents
<1>1. Contents' = Contents
  BY DEF Index, Contents, Slot
<1>2. CASE InRange(i) /\ cap # 0 /\ cells[Slot(i, cap)] # Raw /\ got' = {cells[Slot(i, cap)]}
  <2>1. len # 0
    <3>1. cap \in Nat \ {0} /\ start \in 0 .. cap - 1
      BY <1>2, CellFacts
    <3>2. Slot(i, cap) \in 0 .. cap - 1
      BY <3>1, RingAssumption DEF Slot
    <3>. QED BY <1>2, <3>2 DEF RingInv, CellsInUse
  <2>2. i \in 0 .. len - 1
    BY <1>2, <2>1, IndexFinds
  <2>3. PICK k \in 1 .. len : k = i + 1
    BY <2>2, RingAssumption DEF RingInv, RingTypeOK
  <2>4. k - 1 = i /\ k \in DOMAIN Contents
    BY <2>2, <2>3 DEF Contents
  <2>5. Contents[k] = cells[Slot(i, cap)]
    BY <2>3, <2>4 DEF Contents
  <2>. QED BY <1>1, <1>2, <2>4, <2>5
<1>. QED BY <1>1, <1>2 DEF Index

(* Together: the layout that reserve, pushBack and dequeueFront expect of    *)
(* each other, and answers from operator[].                                *)
THEOREM RingAlwaysSound ==
  ASSUME IndexEmpty = FALSE
  PROVE  RingSpec => []RingSound
<1>1. RingTypeOK /\ CellsInUse /\ IndexAnswers => RingSound
  BY DEF RingSound
<1>. QED BY <1>1, RingTypeCorrect, RingCellsInUse, RingIndexAnswers, PTL

(* The circular array implements the queue: growing, which moves part of    *)
(* the array, neither reorders nor loses anything.                         *)
THEOREM RingImplementsQueue == RingSpec => RingIsQueue
<1>1. RingInit => Queue!Init
  BY DEF RingInit, Queue!Init, Contents
<1>2. RingInv /\ [RingNext]_ringVars => [Queue!Next]_(Queue!fifoVars)
  <2>1. SUFFICES ASSUME RingInv, [RingNext]_ringVars
                 PROVE  [Queue!Next]_(Queue!fifoVars)
    OBVIOUS
  <2>2. ASSUME NEW n \in 0 .. MaxCap, Reserve(n) PROVE UNCHANGED Queue!fifoVars
    BY <2>1, <2>2, ReserveStutters DEF Queue!fifoVars
  <2>3. ASSUME NEW e \in Elements, PushBack(e) PROVE Queue!Put(e)
    BY <2>1, <2>3, PushBackPuts DEF Queue!Put, PushBack
  <2>4. CASE DequeueFront
    BY <2>1, <2>4, DequeueFrontTakes DEF Queue!fifoVars, Queue!Next, Queue!Take
  <2>5. ASSUME NEW i \in 0 .. MaxIndex, Index(i) PROVE [Queue!Next]_(Queue!fifoVars)
    BY <2>1, <2>5, IndexLooks DEF Queue!fifoVars, Queue!Next, Queue!Look
  <2>6. CASE GiveUp
    <3>1. Contents' = <<>> /\ got' = got
      BY <2>6 DEF GiveUp, Contents
    <3>. QED BY <3>1 DEF Queue!Next, Queue!GiveUp
  <2>7. CASE UNCHANGED ringVars
    BY <2>7 DEF ringVars, Queue!fifoVars, Contents, Slot
  <2>. QED BY <2>1, <2>2, <2>3, <2>4, <2>5, <2>6, <2>7
       DEF RingNext, RingCall, RingAborted, Queue!Next
<1>. QED BY <1>1, <1>2, RingInvInitially, RingInvKept, PTL DEF RingSpec, RingIsQueue, Queue!Spec

-----------------------------------------------------------------------------
(* Install                                                                   *)

(* What is already made when an installation comes to a step                *)
Made(s) ==
  CASE s = "static" -> {"headers"}
    [] s = "shared" -> {"headers", "static"}
    [] s = "config" -> {"headers", "static", "shared"}
    [] s = "meta"   -> Products
    [] OTHER        -> {}

(* The process was compiled from what the scan found, or that is remembered.  *)
CompiledFresh ==
  step \in {"scan", "decide", "remove"} \union Files =>
    /\ step # "scan" => scanned <= modified
    /\ step = "scan" \/ scanned = modified =>
         /\ compiled["generator"] # source["generator"] => "generator" \in changed
         /\ compiled["vkspec"] # source["vkspec"] => "vkspec" \in changed

(* What this installation has made is of what is there, up to what changed    *)
(* unnoticed, as long as nothing was edited that the next scan would see.     *)
MadeFresh ==
  step \in Files /\ directory.meta = Absent =>
    \A file \in Made(step) :
      /\ directory[file] # Absent
      /\ scanned = modified => OutOfDate(file) \subseteq changed
      /\ "headers" \notin OutOfDate(file) \ changed

(* What a meta file stands for, unless a removal left it behind               *)
Standing ==
  /\ directory.meta # Absent /\ "removal" \notin missed
  /\ step = "remove" => \A file \in Files : directory[file] # Absent

MetaFresh ==
  Standing =>
    \A file \in Products :
      /\ directory[file] # Absent
      /\ directory.meta.version = modified => OutOfDate(file) \subseteq missed \union {"headers"}
      /\ directory.meta.headers = source["headers"] => "headers" \notin OutOfDate(file) \ missed

(* Meta files are older than what is there, and none stands while others are  *)
(* made, but the one that is left alone.                                     *)
MetaOlder ==
  /\ directory.meta # Absent =>
       directory.meta.version <= modified /\ directory.meta.headers <= source["headers"]
  /\ step \in Products => directory.meta = Absent
  /\ step = "meta" /\ directory.meta # Absent =>
       /\ directory.meta.version = scanned
       /\ directory.meta.headers = source["headers"] \/ "headers" \in changed

InstallInvariant ==
  InstallTypeOK /\ CompiledFresh /\ MadeFresh /\ MetaFresh /\ MetaOlder

LEMMA MadeOneByOne ==
  /\ \A s \in {"idle", "scan", "decide", "remove", "headers"} : Made(s) = {}
  /\ \A s \in Products : After(s) \in Files /\ Made(After(s)) = Made(s) \union {s}
  /\ After("meta") = "idle"
  /\ Made("meta") = Products
  /\ \A s : Made(s) \subseteq Products
BY DEF Made, After, Files, Products

LEMMA InstallInitially == InstallInit => InstallInvariant
<1>. SUFFICES ASSUME InstallInit PROVE InstallInvariant
  OBVIOUS
<1>1. DOMAIN directory = Files /\ \A file \in Files : directory[file] = Absent
  BY DEF InstallInit, Empty
<1>2. InstallTypeOK
  BY <1>1 DEF InstallInit, InstallTypeOK, Products, Files
<1>3. CompiledFresh /\ MadeFresh /\ MetaFresh /\ MetaOlder
  BY <1>1, MadeOneByOne
     DEF InstallInit, CompiledFresh, MadeFresh, MetaFresh, MetaOlder, Standing, Products, Files
<1>. QED
  BY <1>2, <1>3 DEF InstallInvariant

(* A change moves nothing but what it says, and only forward.                *)
LEMMA ChangeMoves ==
  ASSUME InstallTypeOK, NEW inputs \in SUBSET Inputs, NEW unread \in SUBSET Inputs,
         NEW unseen \in SUBSET Inputs, Change(inputs, unread, unseen)
  PROVE  /\ source' \in [Inputs -> Nat]
         /\ \A i \in Inputs \ inputs : source'[i] = source[i]
         /\ \A i \in inputs : source'[i] = source[i] + 1
         /\ changed' = changed \union unread /\ missed' = missed \union unseen
         /\ changed' \subseteq Inputs /\ missed' \subseteq Inputs \union {"removal"}
         /\ UNCHANGED <<directory, step, compiled, scanned, forced>>
BY DEF Change, InstallTypeOK

(* Each change: which inputs, what becomes of the time, who can tell.         *)
LEMMA ChangeKeeps ==
  ASSUME InstallInvariant, NEW inputs \in SUBSET Inputs, NEW unread \in SUBSET Inputs,
         NEW unseen \in SUBSET Inputs, Change(inputs, unread, unseen),
         modified' \in {modified, modified + 1}, "headers" \in inputs => modified' = modified,
         modified' = modified /\ step \in Files \ {"headers"} => inputs \subseteq unread,
         modified' = modified => inputs \ {"headers"} \subseteq unseen,
         \A i \in inputs \intersect {"generator", "vkspec"} :
           i \in unread \/ (modified' # modified /\ step # "scan")
  PROVE  InstallInvariant'
<1>. USE DEF InstallInvariant
<1>1. /\ source' \in [Inputs -> Nat]
      /\ \A i \in Inputs \ inputs : source'[i] = source[i]
      /\ \A i \in inputs : source'[i] = source[i] + 1
      /\ changed' = changed \union unread /\ missed' = missed \union unseen
      /\ changed' \subseteq Inputs /\ missed' \subseteq Inputs \union {"removal"}
      /\ UNCHANGED <<directory, step, compiled, scanned, forced>>
  BY ChangeMoves
<1>2. modified \in Nat /\ scanned \in Nat /\ source \in [Inputs -> Nat]
  BY DEF InstallTypeOK
<1>3. InstallTypeOK'
  BY <1>1, <1>2 DEF InstallTypeOK
<1>4. CompiledFresh'
  BY <1>1, <1>2 DEF CompiledFresh, Inputs
<1>5. ASSUME NEW file \in Products PROVE OutOfDate(file)' \subseteq OutOfDate(file) \union inputs
  BY <1>1 DEF OutOfDate
<1>6. MadeFresh'
  <2>. SUFFICES ASSUME step \in Files, directory.meta = Absent, NEW file \in Made(step)
                PROVE  /\ directory[file] # Absent
                       /\ scanned = modified' => OutOfDate(file)' \subseteq changed'
                       /\ "headers" \notin OutOfDate(file)' \ changed'
    BY <1>1 DEF MadeFresh
  <2>1. step # "headers" /\ file \in Products /\ scanned <= modified
    BY MadeOneByOne DEF CompiledFresh
  <2>2. scanned = modified' => modified' = modified /\ scanned = modified
    BY <2>1, <1>2
  <2>3. "headers" \in inputs => "headers" \in changed'
    BY <2>1, <1>1
  <2>. QED BY <2>1, <2>2, <2>3, <1>1, <1>5 DEF MadeFresh
<1>7. MetaFresh'
  <2>. SUFFICES ASSUME Standing, NEW file \in Products
                PROVE  /\ directory[file] # Absent
                       /\ directory.meta.version = modified' =>
                            OutOfDate(file)' \subseteq missed' \union {"headers"}
                       /\ directory.meta.headers = source'["headers"] =>
                            "headers" \notin OutOfDate(file)' \ missed'
    BY <1>1 DEF MetaFresh, Standing
  <2>1. directory.meta # Absent /\ directory.meta.version \in Nat
    BY DEF Standing, InstallTypeOK
  <2>2. directory.meta.version = modified' => modified' = modified /\ directory.meta.version = modified
    BY <2>1, <1>2 DEF MetaOlder
  <2>3. directory.meta.version = modified' => OutOfDate(file)' \subseteq missed' \union {"headers"}
    BY <2>2, <1>1, <1>5 DEF MetaFresh
  <2>4. directory.meta.headers = source'["headers"] => "headers" \notin OutOfDate(file)' \ missed'
    <3>1. /\ directory.meta.headers \in Nat /\ directory.meta.headers <= source["headers"]
          /\ source["headers"] \in Nat /\ source'["headers"] >= source["headers"]
          /\ "headers" \in inputs => source'["headers"] > source["headers"]
      BY <1>1, <1>2, <2>1 DEF MetaOlder, InstallTypeOK, Inputs
    <3>2. directory.meta.headers = source'["headers"] =>
            "headers" \notin inputs /\ directory.meta.headers = source["headers"]
      BY <3>1, <1>1 DEF Inputs
    <3>. QED BY <3>2, <1>1, <1>5 DEF MetaFresh
  <2>. QED BY <2>3, <2>4 DEF MetaFresh
<1>8. MetaOlder'
  <2>1. directory.meta # Absent => directory.meta.version \in Nat /\ directory.meta.headers \in Nat
    BY DEF InstallTypeOK
  <2>2. source'["headers"] >= source["headers"] /\ modified' >= modified
    BY <1>1, <1>2 DEF Inputs
  <2>3. step = "meta" /\ directory.meta # Absent /\ directory.meta.headers = source["headers"] =>
          directory.meta.headers = source'["headers"] \/ "headers" \in changed'
    <3>1. step = "meta" /\ "headers" \in inputs => "headers" \in changed'
      BY <1>1 DEF Files
    <3>. QED BY <3>1, <1>1 DEF Inputs
  <2>. QED BY <2>1, <2>2, <2>3, <1>1, <1>2 DEF MetaOlder, Inputs
<1>. QED BY <1>3, <1>4, <1>6, <1>7, <1>8

LEMMA ChangesKeep ==
  ASSUME InstallInvariant, EditTree \/ EditParser \/ UpdateDocs \/ UpdateHeaders
  PROVE  InstallInvariant'
<1>. DEFINE edited == {"tree", "generator"}
<1>1. CASE EditTree
  <2>1. modified' \in {modified, modified + 1} /\ (modified' = modified => modified' # modified + 1)
    BY <1>1 DEF EditTree, InstallInvariant, InstallTypeOK
  <2>2. CASE modified' = modified + 1 /\ Change(edited, IF step = "scan" THEN {"generator"} ELSE {}, {})
    <3>1. modified' # modified
      BY <2>2 DEF InstallInvariant, InstallTypeOK
    <3>. QED BY <2>1, <2>2, <3>1, ChangeKeeps DEF Inputs
  <2>3. CASE modified' = modified /\ Change(edited, IF step = "scan" THEN {"generator"} ELSE edited, edited)
    BY <2>1, <2>3, ChangeKeeps DEF Inputs, Files
  <2>. QED BY <1>1, <2>2, <2>3 DEF EditTree
<1>2. CASE EditParser
  BY <1>2, ChangeKeeps DEF EditParser, Inputs
<1>3. CASE UpdateDocs
  BY <1>3, ChangeKeeps DEF UpdateDocs, Inputs
<1>4. CASE UpdateHeaders
  BY <1>4, ChangeKeeps DEF UpdateHeaders, Inputs
<1>. QED BY <1>1, <1>2, <1>3, <1>4

LEMMA StartKeeps ==
  ASSUME InstallInvariant, Start
  PROVE  InstallInvariant'
BY DEF InstallInvariant, Start, InstallTypeOK, CompiledFresh, MadeFresh, MetaFresh, MetaOlder,
   Standing, OutOfDate, Products, Files

LEMMA ScanKeeps ==
  ASSUME InstallInvariant, NEW force \in BOOLEAN, Scan(force)
  PROVE  InstallInvariant'
BY DEF InstallInvariant, Scan, InstallTypeOK, CompiledFresh, MadeFresh, MetaFresh, MetaOlder,
   Standing, OutOfDate, Products, Files

(* What is left alone has a meta file of the version scanned and the headers   *)
(* there are.                                                                *)
LEMMA DecideKeeps ==
  ASSUME InstallInvariant, Decide
  PROVE  InstallInvariant'
<1>. USE DEF InstallInvariant
<1>1. /\ step = "decide" /\ step' \in {"remove", "meta"}
      /\ UNCHANGED <<source, modified, directory, compiled, scanned, forced, changed, missed>>
  BY DEF Decide
<1>2. InstallTypeOK'
  BY <1>1 DEF InstallTypeOK, Files
<1>3. CompiledFresh'
  BY <1>1 DEF CompiledFresh, Files
<1>4. step' = "meta" => /\ directory.meta # Absent /\ directory.meta.version = scanned
                        /\ directory.meta.headers = source["headers"]
  BY <1>1 DEF Decide, Rebuilt
<1>5. MadeFresh'
  BY <1>1, <1>4, MadeOneByOne DEF MadeFresh, OutOfDate, Files
<1>6. MetaFresh'
  BY <1>1 DEF MetaFresh, Standing, OutOfDate
<1>7. MetaOlder'
  BY <1>1, <1>4 DEF MetaOlder, Products, Files
<1>. QED BY <1>2, <1>3, <1>5, <1>6, <1>7

(* With the first file gone no meta file stands for anything.                *)
LEMMA RemoveAllKeeps ==
  ASSUME InstallInvariant, RemoveAll
  PROVE  InstallInvariant'
<1>. USE DEF InstallInvariant
<1>1. step = "remove" /\ UNCHANGED <<source, modified, compiled, scanned, forced, changed>>
  BY DEF RemoveAll
<1>2. ASSUME NEW file \in Files, directory' = [directory EXCEPT ![file] = Absent], UNCHANGED <<step, missed>>
      PROVE  InstallInvariant'
  <2>1. /\ DOMAIN directory' = Files /\ directory'[file] = Absent
        /\ \A f \in Files \ {file} : directory'[f] = directory[f]
    BY <1>2 DEF InstallTypeOK
  <2>2. InstallTypeOK'
    BY <1>1, <1>2, <2>1 DEF InstallTypeOK, Products, Files
  <2>3. ~ Standing'
    BY <1>1, <1>2, <2>1 DEF Standing
  <2>4. CompiledFresh' /\ MadeFresh' /\ MetaFresh'
    BY <1>1, <1>2, <2>3 DEF CompiledFresh, MadeFresh, MetaFresh, Files
  <2>5. MetaOlder'
    <3>1. "meta" \in Files
      BY DEF Files
    <3>2. directory'.meta = Absent \/ directory'.meta = directory.meta
      BY <2>1, <3>1
    <3>. QED BY <3>2, <1>1, <1>2 DEF MetaOlder, Products, Files
  <2>. QED BY <2>2, <2>4, <2>5
<1>3. CASE directory = Empty /\ step' = "headers" /\ missed' = {} /\ UNCHANGED directory
  <2>1. InstallTypeOK'
    BY <1>1, <1>3 DEF InstallTypeOK, Files
  <2>2. directory.meta = Absent
    BY <1>3 DEF Empty, Files
  <2>. QED BY <1>1, <1>3, <2>1, <2>2, MadeOneByOne
       DEF CompiledFresh, MadeFresh, MetaFresh, MetaOlder, Standing, Files
<1>. QED BY <1>2, <1>3 DEF RemoveAll

(* A header or library made now is made from what is there.                  *)
LEMMA MakeKeeps ==
  ASSUME InstallInvariant, NEW s \in Products, NEW content \in [Inputs -> Nat], Make(s, content),
         scanned = modified => \A i \in Inputs : content[i] # source[i] => i \in changed,
         content["headers"] # source["headers"] => "headers" \in changed
  PROVE  InstallInvariant'
<1>. USE DEF InstallInvariant
<1>1. /\ step = s /\ step' = After(s) /\ s # "meta" /\ s \in Files
      /\ directory'[s] = content /\ DOMAIN directory' = Files
      /\ \A file \in Files \ {s} : directory'[file] = directory[file]
      /\ UNCHANGED <<source, modified, compiled, scanned, forced, changed, missed>>
  BY DEF Make, InstallTypeOK, Products
<1>2. step' \in Files /\ Made(step') = Made(s) \union {s} /\ Made(s) \subseteq Products
  BY <1>1, MadeOneByOne
<1>3. directory.meta = Absent /\ directory'.meta = Absent
  BY <1>1 DEF MetaOlder, Products, Files
<1>4. InstallTypeOK'
  BY <1>1, <1>2, <1>3 DEF InstallTypeOK, Products
<1>5. CompiledFresh'
  BY <1>1, <1>2 DEF CompiledFresh, Files
<1>6. MadeFresh'
  <2>. SUFFICES ASSUME NEW file \in Made(step')
                PROVE  /\ directory'[file] # Absent
                       /\ scanned = modified => OutOfDate(file)' \subseteq changed
                       /\ "headers" \notin OutOfDate(file)' \ changed
    BY <1>1 DEF MadeFresh
  <2>1. CASE file = s
    BY <2>1, <1>1, InstallAssumption DEF OutOfDate
  <2>2. CASE file # s
    <3>1. file \in Made(s) /\ directory'[file] = directory[file]
      BY <2>2, <1>1, <1>2 DEF Products
    <3>. QED BY <3>1, <1>1, <1>3 DEF MadeFresh, OutOfDate
  <2>. QED BY <2>1, <2>2
<1>7. MetaFresh' /\ MetaOlder'
  BY <1>2, <1>3 DEF MetaFresh, MetaOlder, Standing
<1>. QED BY <1>4, <1>5, <1>6, <1>7

(* The headers are generated by what the process was compiled from; the rest   *)
(* is made with them.                                                        *)
LEMMA MakesKeep ==
  ASSUME InstallInvariant, CopyHeaders \/ BuildStatic \/ BuildShared \/ AppendConfig
  PROVE  InstallInvariant'
<1>. USE DEF InstallInvariant
<1>1. source \in [Inputs -> Nat] /\ compiled \in [Inputs -> Nat]
  BY DEF InstallTypeOK
<1>2. CASE CopyHeaders
  <2>. DEFINE content == [i \in Inputs |-> IF i \in {"generator", "vkspec"} THEN compiled[i] ELSE source[i]]
  <2>1. Make("headers", content) /\ step = "headers" /\ content \in [Inputs -> Nat]
    BY <1>1, <1>2 DEF CopyHeaders, Make
  <2>2. /\ scanned = modified => \A i \in Inputs : content[i] # source[i] => i \in changed
        /\ content["headers"] = source["headers"]
    BY <2>1 DEF CompiledFresh, Inputs, Files
  <2>. HIDE DEF content
  <2>. QED BY <2>1, <2>2, MakeKeeps DEF Products, Files
<1>3. ASSUME step \in {"static", "shared", "config"}
      PROVE  /\ directory.headers \in [Inputs -> Nat]
             /\ scanned = modified => \A i \in Inputs : directory.headers[i] # source[i] => i \in changed
             /\ directory.headers["headers"] # source["headers"] => "headers" \in changed
  <2>1. "headers" \in Made(step) /\ "headers" \in Products /\ directory.meta = Absent /\ step \in Files
    BY <1>3 DEF Made, Products, Files, MetaOlder
  <2>. QED BY <2>1 DEF MadeFresh, OutOfDate, InstallTypeOK, Inputs
<1>4. CASE BuildStatic \/ BuildShared
  <2>1. PICK s \in {"static", "shared"} : Make(s, Library) /\ step = s
    BY <1>4 DEF BuildStatic, BuildShared, Make
  <2>2. /\ Library \in [Inputs -> Nat]
        /\ scanned = modified => \A i \in Inputs : Library[i] # source[i] => i \in changed
        /\ Library["headers"] = source["headers"]
    BY <1>1, <1>3, <2>1 DEF Library, Inputs
  <2>. QED BY <2>1, <2>2, MakeKeeps DEF Products, Files
<1>5. CASE AppendConfig
  <2>1. Make("config", directory.headers) /\ step = "config"
    BY <1>5 DEF AppendConfig, Make
  <2>. QED BY <2>1, <1>3, MakeKeeps DEF Products, Files
<1>. QED BY <1>2, <1>4, <1>5

(* The meta file is written when everything it stands for is made, or stood    *)
(* before and is given the version it had.                                   *)
LEMMA WriteMetaFileKeeps ==
  ASSUME InstallInvariant, WriteMetaFile
  PROVE  InstallInvariant'
<1>. USE DEF InstallInvariant
<1>1. /\ step = "meta" /\ step' = "idle" /\ "meta" \in Files /\ Made("meta") = Products
      /\ directory'["meta"] = Version /\ DOMAIN directory' = Files
      /\ \A file \in Products : directory'[file] = directory[file] /\ OutOfDate(file)' = OutOfDate(file)
      /\ missed' = missed \union changed
      /\ UNCHANGED <<source, modified, compiled, scanned, forced, changed>>
  BY MadeOneByOne DEF WriteMetaFile, Make, InstallTypeOK, OutOfDate, Products, Files
<1>2. /\ directory'.meta = Version /\ Version \in [version : Nat, headers : Nat] /\ Version # Absent
      /\ Version.version = scanned /\ Version.headers = source["headers"] /\ scanned <= modified
  BY <1>1, InstallAssumption DEF Version, InstallTypeOK, CompiledFresh, Inputs
<1>3. InstallTypeOK'
  BY <1>1, <1>2 DEF InstallTypeOK, Products
<1>4. CompiledFresh' /\ MadeFresh'
  BY <1>1 DEF CompiledFresh, MadeFresh, Files
<1>5. MetaOlder'
  <2>1. source["headers"] \in Nat
    BY DEF InstallTypeOK, Inputs
  <2>. QED BY <1>1, <1>2, <2>1 DEF MetaOlder, Products, Files
<1>6. MetaFresh'
  <2>. SUFFICES ASSUME "removal" \notin missed, NEW file \in Products
                PROVE  /\ directory[file] # Absent
                       /\ scanned = modified => OutOfDate(file) \subseteq missed \union changed \union {"headers"}
                       /\ "headers" \notin OutOfDate(file) \ (missed \union changed)
    BY <1>1, <1>2 DEF MetaFresh, Standing
  <2>1. CASE directory.meta = Absent
    <3>1. directory[file] # Absent /\ (scanned = modified => OutOfDate(file) \subseteq changed)
      BY <2>1, <1>1 DEF MadeFresh
    <3>2. "headers" \notin OutOfDate(file) \ changed
      BY <2>1, <1>1 DEF MadeFresh
    <3>. QED BY <3>1, <3>2
  <2>2. CASE directory.meta # Absent
    <3>1. Standing
      BY <2>2, <1>1 DEF Standing
    <3>2. directory.meta.version = scanned /\ (directory.meta.headers = source["headers"] \/ "headers" \in changed)
      BY <2>2, <1>1 DEF MetaOlder
    <3>. QED BY <3>1, <3>2 DEF MetaFresh
  <2>. QED BY <2>1, <2>2
<1>. QED BY <1>3, <1>4, <1>5, <1>6

LEMMA KilledKeeps ==
  ASSUME InstallInvariant, Killed
  PROVE  InstallInvariant'
<1>. USE DEF InstallInvariant
<1>1. /\ step' = "idle" /\ missed \subseteq missed' /\ missed' \subseteq missed \union {"removal"}
      /\ UNCHANGED <<source, modified, directory, compiled, scanned, forced, changed>>
  BY DEF Killed
<1>2. InstallTypeOK' /\ CompiledFresh' /\ MadeFresh' /\ MetaOlder'
  BY <1>1 DEF InstallTypeOK, CompiledFresh, MadeFresh, MetaOlder, Products, Files
<1>3. Standing' => Standing /\ missed' = missed
  BY <1>1 DEF Killed, Standing
<1>4. MetaFresh'
  BY <1>1, <1>3 DEF MetaFresh, OutOfDate
<1>. QED BY <1>2, <1>4

LEMMA InstallStep ==
  ASSUME InstallInvariant, [InstallNext]_installVars
  PROVE  InstallInvariant'
<1>1. CASE EditTree \/ EditParser \/ UpdateDocs \/ UpdateHeaders
  BY <1>1, ChangesKeep
<1>2. CASE Start
  BY <1>2, StartKeeps
<1>3. CASE \E force \in BOOLEAN : Scan(force)
  BY <1>3, ScanKeeps
<1>4. CASE Decide
  BY <1>4, DecideKeeps
<1>5. CASE RemoveAll
  BY <1>5, RemoveAllKeeps
<1>6. CASE CopyHeaders \/ BuildStatic \/ BuildShared \/ AppendConfig
  BY <1>6, MakesKeep
<1>7. CASE WriteMetaFile
  BY <1>7, WriteMetaFileKeeps
<1>8. CASE Killed
  BY <1>8, KilledKeeps
<1>9. CASE UNCHANGED installVars
  BY <1>9 DEF installVars, InstallInvariant, InstallTypeOK, CompiledFresh, MadeFresh, MetaFresh,
     MetaOlder, Standing, OutOfDate
<1>. QED
  BY <1>1, <1>2, <1>3, <1>4, <1>5, <1>6, <1>7, <1>8, <1>9 DEF InstallNext

LEMMA InvariantSound == InstallInvariant => InstallSound
<1>. SUFFICES ASSUME InstallInvariant PROVE InstallSound
  OBVIOUS
<1>. USE DEF InstallInvariant
<1>1. MetaMeansComplete
  BY DEF MetaMeansComplete, MetaFresh, Standing, Products
<1>2. UpToDate
  <2>. SUFFICES ASSUME step = "idle", "removal" \notin missed, NEW file \in Products,
                       directory.meta = [version |-> modified, headers |-> source.headers]
                PROVE  OutOfDate(file) \subseteq missed
    BY DEF UpToDate
  <2>1. directory.meta.version = modified /\ directory.meta.headers = source["headers"]
    OBVIOUS
  <2>2. directory.meta # Absent
    <3>1. [version |-> modified, headers |-> source.headers] \in [version : Nat, headers : Nat]
      BY DEF InstallTypeOK, Inputs
    <3>. QED BY <3>1, InstallAssumption
  <2>3. Standing
    BY <2>2 DEF Standing
  <2>. QED BY <2>1, <2>3 DEF MetaFresh
<1>. QED BY <1>1, <1>2 DEF InstallSound

(* make.go, installVKM: an installation that would be left alone is complete   *)
(* and made from what is there, but for what no meta file can tell, whatever  *)
(* was edited or replaced meanwhile and wherever earlier ones were killed;    *)
(* only after one killed in RemoveAll can a meta file stand for nothing.      *)
THEOREM InstallAlwaysSound == InstallSpec => []InstallSound
<1>1. InstallInit => InstallInvariant
  BY InstallInitially
<1>2. InstallInvariant /\ [InstallNext]_installVars => InstallInvariant'
  BY InstallStep
<1>. QED
  BY <1>1, <1>2, InvariantSound, PTL DEF InstallSpec

-----------------------------------------------------------------------------
(* Registry                                                                  *)

(* The registry of a state, as RegistryAssumption has it. *)
Described ==
  /\ registry \in Registries
  /\ IsFiniteSet(Exts)
  /\ \A x \in Exts : Depends(x) \subseteq Exts /\ Ext(x).kind \in {"instance", "device"}

LEMMA RegistryDescribed ==
  ASSUME registry \in Registries
  PROVE  Described
BY RegistryAssumption DEF Described, Exts, Ext, Depends

(* The least set that has S and what its members want of a kind *)
Enough(T, S, kind) == S \subseteq T /\ Wanted(T, kind) \subseteq T

Closure(S, kind) == {d \in Exts : \A T \in SUBSET Exts : Enough(T, S, kind) => d \in T}

LEMMA WantedType ==
  ASSUME Described, NEW S \in SUBSET Exts, NEW kind
  PROVE  Wanted(S, kind) \subseteq Exts
BY DEF Described, Wanted

LEMMA WantedMore ==
  ASSUME NEW S, NEW T, S \subseteq T, NEW kind
  PROVE  Wanted(S, kind) \subseteq Wanted(T, kind)
BY DEF Wanted

LEMMA ClosureIsEnough ==
  ASSUME Described, NEW S \in SUBSET Exts, NEW kind
  PROVE  /\ Closure(S, kind) \in SUBSET Exts
         /\ Enough(Closure(S, kind), S, kind)
         /\ \A T \in SUBSET Exts : Enough(T, S, kind) => Closure(S, kind) \subseteq T
<1>1. Closure(S, kind) \in SUBSET Exts /\ S \subseteq Closure(S, kind)
  BY DEF Closure, Enough
<1>2. \A T \in SUBSET Exts : Enough(T, S, kind) => Closure(S, kind) \subseteq T
  BY DEF Closure
<1>3. ASSUME NEW d \in Wanted(Closure(S, kind), kind), NEW T \in SUBSET Exts, Enough(T, S, kind)
      PROVE  d \in T
  <2>1. Wanted(Closure(S, kind), kind) \subseteq Wanted(T, kind)
    BY <1>2, <1>3, WantedMore
  <2>. QED BY <1>3, <2>1 DEF Enough
<1>4. Wanted(Closure(S, kind), kind) \subseteq Exts
  BY <1>1, WantedType
<1>5. Wanted(Closure(S, kind), kind) \subseteq Closure(S, kind)
  BY <1>3, <1>4 DEF Closure
<1>. QED BY <1>1, <1>2, <1>5 DEF Enough

LEMMA ClosureOfClosed ==
  ASSUME Described, NEW S \in SUBSET Exts, NEW kind, Wanted(S, kind) \subseteq S
  PROVE  Closure(S, kind) = S
<1>1. Enough(S, S, kind)
  BY DEF Enough
<1>2. Closure(S, kind) \subseteq S
  BY <1>1, ClosureIsEnough
<1>3. S \subseteq Closure(S, kind)
  BY ClosureIsEnough DEF Enough
<1>. QED BY <1>2, <1>3

LEMMA ClosureOfMore ==
  ASSUME Described, NEW S \in SUBSET Exts, NEW kind
  PROVE  Closure(S \union Wanted(S, kind), kind) = Closure(S, kind)
<1>1. \A T \in SUBSET Exts : Enough(T, S \union Wanted(S, kind), kind) <=> Enough(T, S, kind)
  BY WantedMore DEF Enough
<1>. QED BY <1>1 DEF Closure

(* What the definition of All says of its function *)
Widens(all, kind) ==
  all = [T \in SUBSET Exts |->
           IF Wanted(T, kind) \subseteq T THEN T ELSE all[T \union Wanted(T, kind)]]

LEMMA AllGrows ==
  ASSUME NEW S, NEW kind
  PROVE  All(S, kind) = (CHOOSE all : Widens(all, kind))[S]
BY DEF All, Widens

LEMMA ClosureGrows ==
  ASSUME Described, NEW kind
  PROVE  Widens([T \in SUBSET Exts |-> Closure(T, kind)], kind)
<1>. DEFINE all == [T \in SUBSET Exts |-> Closure(T, kind)]
<1>1. ASSUME NEW T \in SUBSET Exts
      PROVE  all[T] = IF Wanted(T, kind) \subseteq T THEN T ELSE all[T \union Wanted(T, kind)]
  <2>1. T \union Wanted(T, kind) \in SUBSET Exts
    BY WantedType
  <2>2. all[T] = Closure(T, kind) /\ all[T \union Wanted(T, kind)] = Closure(T \union Wanted(T, kind), kind)
    BY <2>1
  <2>. HIDE DEF all
  <2>. QED BY <2>2, ClosureOfClosed, ClosureOfMore
<1>2. DOMAIN all = SUBSET Exts /\ all = [T \in SUBSET Exts |-> all[T]]
  OBVIOUS
<1>. HIDE DEF all
<1>3. Widens(all, kind)
  BY <1>1, <1>2 DEF Widens
<1>. QED BY <1>3 DEF all

(* By a set it is wrong of, as large as can be *)
LEMMA GrowingIsClosure ==
  ASSUME Described, NEW kind, NEW all, Widens(all, kind), NEW S \in SUBSET Exts
  PROVE  all[S] = Closure(S, kind)
<1>. DEFINE wrong == {T \in SUBSET Exts : all[T] # Closure(T, kind)}
            Rest(T) == Cardinality(Exts \ T)
            rests == {Rest(T) : T \in wrong}
<1>1. SUFFICES ASSUME wrong # {} PROVE FALSE
  OBVIOUS
<1>2. \A T \in SUBSET Exts : IsFiniteSet(Exts \ T) /\ Rest(T) \in Nat
  BY FS_Difference, FS_CardinalityType DEF Described
<1>3. rests \subseteq Nat /\ rests # {}
  BY <1>1, <1>2
<1>4. PICK n \in rests : \A m \in rests : n <= m
  <2>. HIDE DEF rests
  <2>. QED BY <1>3, LeastOf
<1>5. PICK T \in wrong : Rest(T) = n
  BY <1>4
<1>6. ~ (Wanted(T, kind) \subseteq T)
  BY <1>5, ClosureOfClosed DEF Widens
<1>7. T \union Wanted(T, kind) \in SUBSET Exts
  BY <1>5, WantedType
<1>8. all[T] = all[T \union Wanted(T, kind)]
  BY <1>5, <1>6 DEF Widens
<1>. DEFINE more == T \union Wanted(T, kind)
<1>9. Rest(more) < Rest(T)
  <2>1. PICK d \in Wanted(T, kind) : d \notin T
    BY <1>6
  <2>2. d \in Exts \ T /\ d \notin Exts \ more /\ Exts \ more \in SUBSET (Exts \ T)
    BY <1>5, <1>7, <2>1
  <2>3. Rest(more) <= Rest(T) /\ (Rest(T) = Rest(more) => Exts \ T = Exts \ more)
    BY <1>2, <1>5, <2>2, FS_Subset
  <2>4. Rest(more) \in Nat /\ Rest(T) \in Nat
    BY <1>2, <1>5, <1>7
  <2>. HIDE DEF Rest
  <2>. QED BY <2>2, <2>3, <2>4
<1>10. more \notin wrong
  <2>1. Rest(more) \in Nat /\ Rest(T) \in Nat
    BY <1>2, <1>5, <1>7
  <2>2. more \in wrong => Rest(more) \in rests
    OBVIOUS
  <2>3. more \in wrong => Rest(T) <= Rest(more)
    BY <1>4, <1>5, <2>2
  <2>. HIDE DEF Rest, wrong, rests, more
  <2>. QED BY <1>9, <2>1, <2>3
<1>. QED BY <1>5, <1>7, <1>8, <1>10, ClosureOfMore

(* The lists of genExtensionReflection, grown to their end                   *)
LEMMA AllIsClosure ==
  ASSUME Described, NEW S \in SUBSET Exts, NEW kind
  PROVE  All(S, kind) = Closure(S, kind)
<1>1. Widens((CHOOSE all : Widens(all, kind)), kind)
  BY ClosureGrows
<1>. QED BY <1>1, AllGrows, GrowingIsClosure

-----------------------------------------------------------------------------
(* The loops                                                                 *)

WithEntry == {x \in Exts : Ext(x).valid /\ ~ IsPromoted(x)}

Entry == [promotion : {CoreIn(x) : x \in Exts}, instance : SUBSET Exts, device : SUBSET Exts]

(* What an extension names itself *)
Named(x) ==
  entries[x].instance = Wanted({x}, "instance") /\ entries[x].device = Wanted({x}, "device")

(* and with all that needs *)
Completed(x) ==
  LET device == Closure(Wanted({x}, "device"), "device")
      instance == Closure(Wanted({x}, "instance") \union Wanted(device, "instance"), "instance")
  IN  /\ entries[x].device = device /\ entries[x].instance = instance
      /\ Wanted(instance, "device") = {}

RegistryInvariant ==
  /\ registry \in Registries
  /\ stage \in {"first", "second", "done", "panic"}
  /\ left \subseteq Exts
  /\ DOMAIN entries \subseteq WithEntry
  /\ entries \in [DOMAIN entries -> Entry]
  /\ stage = "first" => \A x \in WithEntry \ left : x \in DOMAIN entries /\ Named(x)
  /\ stage \in {"second", "done"} => DOMAIN entries = WithEntry
  /\ stage = "second" => /\ left \subseteq WithEntry
                         /\ \A x \in left : Named(x)
                         /\ \A x \in WithEntry \ left : Completed(x)
  /\ stage = "done" => \A x \in WithEntry : Completed(x)

(* An extension with all it needs and no more is what DependenciesComplete asks. *)
LEMMA CompletedIsComplete ==
  ASSUME Described, NEW x \in Exts, Completed(x)
  PROVE  LET d == entries[x]
             sufficient == {S \in SUBSET Exts : Needs(x) \subseteq S /\ Closed(S)}
         IN /\ d.instance \union d.device \in sufficient
            /\ \A S \in sufficient : d.instance \union d.device \subseteq S
            /\ \A y \in Exts : (y \in d.instance => Ext(y).kind = "instance")
                               /\ (y \in d.device => Ext(y).kind = "device")
<1>. DEFINE device == entries[x].device
            instance == entries[x].instance
            base == Wanted({x}, "instance") \union Wanted(device, "instance")
<1>1. /\ device = Closure(Wanted({x}, "device"), "device")
      /\ instance = Closure(base, "instance")
      /\ Wanted(instance, "device") = {}
  BY DEF Completed
<1>2. Wanted({x}, "device") \in SUBSET Exts
  BY WantedType
<1>3. /\ device \in SUBSET Exts /\ Enough(device, Wanted({x}, "device"), "device")
      /\ \A T \in SUBSET Exts : Enough(T, Wanted({x}, "device"), "device") => device \subseteq T
  BY <1>1, <1>2, ClosureIsEnough
<1>4. base \in SUBSET Exts /\ Wanted({x}, "instance") \subseteq base /\ Wanted(device, "instance") \subseteq base
  BY <1>3, WantedType
<1>. HIDE DEF device, instance, base
<1>5. /\ instance \in SUBSET Exts /\ Enough(instance, base, "instance")
      /\ \A T \in SUBSET Exts : Enough(T, base, "instance") => instance \subseteq T
  BY <1>1, <1>4, ClosureIsEnough
<1>6. \A y \in Exts : Needs(y) = Wanted({y}, "instance") \union Wanted({y}, "device")
  BY DEF Needs, Wanted, Described
<1>7. Needs(x) \subseteq instance \union device
  <2>1. Wanted({x}, "device") \subseteq device /\ Wanted({x}, "instance") \subseteq instance
    BY <1>3, <1>4, <1>5 DEF Enough
  <2>. QED BY <1>6, <2>1
<1>8. Closed(instance \union device)
  <2>1. ASSUME NEW y \in device PROVE Needs(y) \subseteq instance \union device
    <3>1. Wanted({y}, "instance") \subseteq Wanted(device, "instance") /\ Wanted({y}, "device") \subseteq Wanted(device, "device")
      BY <2>1 DEF Wanted
    <3>2. y \in Exts /\ Wanted({y}, "instance") \subseteq instance /\ Wanted({y}, "device") \subseteq device
      BY <1>3, <1>4, <1>5, <2>1, <3>1 DEF Enough
    <3>. QED BY <1>6, <3>2
  <2>2. ASSUME NEW y \in instance PROVE Needs(y) \subseteq instance \union device
    <3>1. /\ Wanted({y}, "instance") \subseteq Wanted(instance, "instance")
          /\ Wanted({y}, "device") \subseteq Wanted(instance, "device")
      BY <2>2 DEF Wanted
    <3>2. y \in Exts /\ Wanted({y}, "instance") \subseteq instance /\ Wanted({y}, "device") = {}
      BY <1>1, <1>5, <2>2, <3>1 DEF Enough
    <3>. QED BY <1>6, <3>2
  <2>. QED BY <2>1, <2>2 DEF Closed
<1>9. ASSUME NEW S \in SUBSET Exts, Needs(x) \subseteq S, Closed(S)
      PROVE  instance \union device \subseteq S
  <2>1. \A T, kind : T \subseteq S => Wanted(T, kind) \subseteq S
    BY <1>9 DEF Closed, Wanted, Needs
  <2>2. Wanted({x}, "device") \subseteq S /\ Wanted({x}, "instance") \subseteq S
    BY <1>6, <1>9
  <2>3. device \subseteq S
    BY <1>3, <2>1, <2>2 DEF Enough
  <2>4. base \subseteq S
    BY <2>1, <2>2, <2>3 DEF base
  <2>5. instance \subseteq S
    BY <1>5, <2>1, <2>4 DEF Enough
  <2>. QED BY <2>3, <2>5
<1>10. \A y \in instance : Ext(y).kind = "instance"
  <2>1. Enough({y \in Exts : Ext(y).kind = "instance"}, base, "instance")
    <3>1. \A y \in base : Ext(y).kind = "instance"
      BY DEF Wanted, base
    <3>. QED BY <1>4, <3>1 DEF Enough, Wanted, Described
  <2>. QED BY <1>5, <2>1
<1>11. \A y \in device : Ext(y).kind = "device"
  <2>1. Enough({y \in Exts : Ext(y).kind = "device"}, Wanted({x}, "device"), "device")
    BY DEF Enough, Wanted, Described
  <2>. QED BY <1>3, <2>1
<1>. QED BY <1>3, <1>5, <1>7, <1>8, <1>9, <1>10, <1>11 DEF device, instance

-----------------------------------------------------------------------------
(* The loops go on with the same registry.                                   *)
PromotionIn(r, x) ==
  LET end[y \in DOMAIN r.exts] == IF r.exts[y].promoted = None THEN y ELSE end[r.exts[y].promoted]
  IN  r.exts[end[x]].core

LEMMA SameRegistry ==
  ASSUME registry' = registry
  PROVE  /\ Exts' = Exts
         /\ \A x : Ext(x)' = Ext(x)
         /\ \A x : CoreIn(x)' = CoreIn(x)
         /\ \A x : IsPromoted(x)' = IsPromoted(x)
         /\ \A S, kind : Wanted(S, kind)' = Wanted(S, kind)
         /\ \A S, kind : Closure(S, kind)' = Closure(S, kind)
<1>1. (\A x : CoreIn(x) = PromotionIn(registry, x)) /\ (\A x : CoreIn(x) = PromotionIn(registry, x))'
  BY DEF CoreIn, PromotionIn, FinalOf, Ext, Exts
<1>2. \A x : CoreIn(x)' = CoreIn(x)
  BY <1>1
<1>3. \A x : IsPromoted(x)' = IsPromoted(x)
  BY <1>2 DEF IsPromoted, Ext
<1>4. \A S, kind : Wanted(S, kind)' = Wanted(S, kind)
  BY <1>3 DEF Wanted, Depends, Ext
<1>5. \A S, kind : Closure(S, kind)' = Closure(S, kind)
  BY <1>4 DEF Closure, Enough, Exts
<1>. QED BY <1>2, <1>3, <1>4, <1>5 DEF Exts, Ext

LEMMA SameEntries ==
  ASSUME registry' = registry, entries' = entries
  PROVE  /\ WithEntry' = WithEntry /\ Entry' = Entry /\ Exts' = Exts
         /\ \A y : Named(y)' = Named(y)
         /\ \A y : Completed(y)' = Completed(y)
<1>1. WithEntry' = WithEntry /\ Entry' = Entry /\ Exts' = Exts
  <2>1. /\ Exts' = Exts
        /\ \A y : Ext(y)' = Ext(y) /\ CoreIn(y)' = CoreIn(y) /\ IsPromoted(y)' = IsPromoted(y)
    BY SameRegistry
  <2>2. WithEntry' = WithEntry
    BY <2>1 DEF WithEntry
  <2>3. Entry' = Entry
    BY <2>1 DEF Entry
  <2>. QED BY <2>1, <2>2, <2>3
<1>2. ASSUME NEW y PROVE Named(y)' = Named(y) /\ Completed(y)' = Completed(y)
  <2>1. \A S, kind : Wanted(S, kind)' = Wanted(S, kind) /\ Closure(S, kind)' = Closure(S, kind)
    BY SameRegistry
  <2>2. Named(y)' = Named(y)
    BY <2>1 DEF Named
  <2>3. Completed(y)' = Completed(y)
    BY <2>1, Zenon DEF Completed
  <2>. QED BY <2>2, <2>3
<1>. QED BY <1>1, <1>2

LEMMA FirstRegistry == RegistryInit => RegistryInvariant
BY DEF RegistryInit, RegistryInvariant, Exts, WithEntry

LEMMA VisitStep ==
  ASSUME RegistryInvariant, Described, NEW x \in Exts, Visit(x)
  PROVE  RegistryInvariant'
<1>1. /\ registry' = registry /\ stage' = "first" /\ stage = "first" /\ left' = left \ {x} /\ x \in left
      /\ DOMAIN entries \subseteq WithEntry /\ entries \in [DOMAIN entries -> Entry]
      /\ \A y \in WithEntry \ left : y \in DOMAIN entries /\ Named(y)
  BY DEF Visit, RegistryInvariant
<1>2. WithEntry' = WithEntry /\ Entry' = Entry /\ Exts' = Exts /\ \A S, kind : Wanted(S, kind)' = Wanted(S, kind)
  BY <1>1, SameRegistry DEF WithEntry, Entry
<1>3. /\ DOMAIN entries' \subseteq WithEntry /\ entries' \in [DOMAIN entries' -> Entry]
      /\ \A y \in WithEntry \ left : y \in DOMAIN entries' /\ entries'[y] = entries[y]
      /\ x \in WithEntry => /\ x \in DOMAIN entries' /\ entries'[x].instance = Wanted({x}, "instance")
                          /\ entries'[x].device = Wanted({x}, "device")
  <2>1. CASE x \notin WithEntry
    <3>1. entries' = entries
      BY <2>1 DEF Visit, WithEntry
    <3>. QED BY <1>1, <2>1, <3>1
  <2>2. CASE x \in WithEntry
    <3>. DEFINE S == {x} \union Depends(x)
                D == DOMAIN entries \union {y \in S : Ext(y).valid /\ ~ IsPromoted(y)}
    <3>1. entries' = [Entered(S) EXCEPT ![x].instance = Wanted({x}, "instance"),
                                       ![x].device = Wanted({x}, "device")]
      BY <2>2 DEF Visit, WithEntry
    <3>2. S \subseteq Exts /\ D \subseteq WithEntry /\ x \in D
      BY <1>1, <2>2 DEF Described, WithEntry
    <3>3. \A y \in D : Entered(S)[y] = IF y \in DOMAIN entries THEN entries[y]
                                     ELSE [promotion |-> CoreIn(y), instance |-> {}, device |-> {}]
      BY DEF Entered
    <3>4. DOMAIN Entered(S) = D
      BY DEF Entered
    <3>5. Entered(S) \in [D -> Entry]
      <4>1. \A y \in D : Entered(S)[y] \in Entry
        <5>1. ASSUME NEW y \in D, y \in DOMAIN entries PROVE Entered(S)[y] \in Entry
          BY <1>1, <3>3, <5>1
        <5>2. ASSUME NEW y \in D, y \notin DOMAIN entries PROVE Entered(S)[y] \in Entry
          <6>1. CoreIn(y) \in {CoreIn(z) : z \in Exts}
            BY <3>2 DEF WithEntry
          <6>2. Entered(S)[y] = [promotion |-> CoreIn(y), instance |-> {}, device |-> {}]
            BY <3>3, <5>2
          <6>. QED BY <6>1, <6>2 DEF Entry
        <5>. QED BY <5>1, <5>2
      <4>2. Entered(S) = [y \in D |-> Entered(S)[y]]
        BY DEF Entered
      <4>. HIDE DEF D, S
      <4>. QED BY <4>1, <4>2
    <3>6. Wanted({x}, "instance") \in SUBSET Exts /\ Wanted({x}, "device") \in SUBSET Exts
      BY WantedType
    <3>. HIDE DEF D, S
    <3>7. /\ DOMAIN entries' = D /\ entries' \in [D -> Entry]
          /\ \A y \in D \ {x} : entries'[y] = Entered(S)[y]
          /\ entries'[x].instance = Wanted({x}, "instance") /\ entries'[x].device = Wanted({x}, "device")
      BY <3>1, <3>2, <3>5, <3>6 DEF Entry
    <3>8. DOMAIN entries \subseteq D
      BY DEF D
    <3>. QED BY <1>1, <2>2, <3>2, <3>3, <3>7, <3>8
  <2>. QED BY <2>1, <2>2
<1>4. ASSUME NEW y \in WithEntry \ left'
      PROVE  y \in DOMAIN entries' /\ Named(y)'
  <2>1. CASE y = x
    BY <1>2, <1>3, <2>1 DEF Named
  <2>2. CASE y # x
    <3>1. y \in WithEntry \ left
      BY <1>1, <2>2
    <3>. QED BY <1>1, <1>2, <1>3, <3>1 DEF Named
  <2>. QED BY <2>1, <2>2
<1>. QED BY <1>1, <1>2, <1>3, <1>4 DEF RegistryInvariant

LEMMA CompleteStep ==
  ASSUME RegistryInvariant, Described, NEW x \in Exts, Complete(x)
  PROVE  RegistryInvariant'
<1>. DEFINE device == All(entries[x].device, "device")
            instance == All(entries[x].instance \union Wanted(device, "instance"), "instance")
<1>1. /\ registry' = registry /\ stage = "second" /\ left' = left \ {x} /\ x \in left
      /\ entries' = [entries EXCEPT ![x].device = device, ![x].instance = instance]
      /\ stage' = IF Wanted(instance, "device") # {} THEN "panic" ELSE stage
      /\ left \subseteq WithEntry /\ DOMAIN entries = WithEntry /\ entries \in [WithEntry -> Entry]
      /\ \A y \in left : Named(y)
      /\ \A y \in WithEntry \ left : Completed(y)
  BY DEF Complete, RegistryInvariant
<1>2. /\ WithEntry' = WithEntry /\ Entry' = Entry /\ Exts' = Exts /\ \A S, kind : Wanted(S, kind)' = Wanted(S, kind)
      /\ \A S, kind : Closure(S, kind)' = Closure(S, kind)
  BY <1>1, SameRegistry DEF WithEntry, Entry
<1>3. entries[x].device = Wanted({x}, "device") /\ entries[x].instance = Wanted({x}, "instance")
  BY <1>1 DEF Named
<1>4. Wanted({x}, "device") \in SUBSET Exts /\ device = Closure(Wanted({x}, "device"), "device")
  BY <1>3, WantedType, AllIsClosure
<1>5. device \in SUBSET Exts
  BY <1>4, ClosureIsEnough
<1>. HIDE DEF device
<1>6. Wanted({x}, "instance") \union Wanted(device, "instance") \in SUBSET Exts
  BY <1>5, WantedType
<1>7. instance = Closure(Wanted({x}, "instance") \union Wanted(device, "instance"), "instance")
  BY <1>3, <1>6, AllIsClosure
<1>8. instance \in SUBSET Exts
  BY <1>6, <1>7, ClosureIsEnough
<1>. HIDE DEF instance
<1>9. /\ DOMAIN entries' = WithEntry /\ entries' \in [WithEntry -> Entry]
      /\ \A y \in WithEntry \ {x} : entries'[y] = entries[y]
      /\ entries'[x].instance = instance /\ entries'[x].device = device
  BY <1>1, <1>5, <1>8 DEF Entry
<1>10. ASSUME stage' = "second", NEW y \in WithEntry \ left'
       PROVE  Completed(y)'
  <2>1. CASE y = x
    BY <1>1, <1>2, <1>4, <1>7, <1>9, <1>10, <2>1 DEF Completed
  <2>2. CASE y # x
    <3>1. y \in WithEntry \ left /\ entries'[y] = entries[y]
      BY <1>1, <1>9, <1>10, <2>2
    <3>2. Completed(y)
      BY <1>1, <3>1
    <3>. QED BY <1>2, <3>1, <3>2 DEF Completed
  <2>. QED BY <2>1, <2>2
<1>11. ASSUME NEW y \in left'
       PROVE  Named(y)'
  BY <1>1, <1>2, <1>9 DEF Named
<1>. QED BY <1>1, <1>2, <1>9, <1>10, <1>11, Zenon DEF RegistryInvariant

LEMMA RegistryStep ==
  ASSUME RegistryInvariant, [RegistryNext]_registryVars
  PROVE  RegistryInvariant'
<1>1. Described
  BY RegistryDescribed DEF RegistryInvariant
<1>2. CASE NextLoop
  <2>1. registry' = registry /\ entries' = entries /\ left = {}
    BY <1>2 DEF NextLoop
  <2>2. /\ WithEntry' = WithEntry /\ Entry' = Entry /\ Exts' = Exts /\ \A y : Named(y)' = Named(y)
        /\ \A y : Completed(y)' = Completed(y)
    BY <2>1, SameEntries
  <2>3. CASE stage = "first" /\ stage' = "second" /\ left' = DOMAIN entries
    BY <2>1, <2>2, <2>3 DEF RegistryInvariant, WithEntry
  <2>4. CASE stage = "second" /\ stage' = "done" /\ left' = left
    BY <2>1, <2>2, <2>4 DEF RegistryInvariant
  <2>. QED BY <1>2, <2>3, <2>4 DEF NextLoop
<1>3. CASE UNCHANGED registryVars
  <2>1. registry' = registry /\ entries' = entries /\ left' = left /\ stage' = stage
    BY <1>3 DEF registryVars
  <2>2. /\ WithEntry' = WithEntry /\ Entry' = Entry /\ Exts' = Exts /\ \A y : Named(y)' = Named(y)
        /\ \A y : Completed(y)' = Completed(y)
    BY <2>1, SameEntries
  <2>. QED BY <2>1, <2>2 DEF RegistryInvariant
<1>4. CASE \E x \in Exts : Visit(x) \/ Complete(x)
  BY <1>1, <1>4, VisitStep, CompleteStep
<1>. QED BY <1>2, <1>3, <1>4 DEF RegistryNext, Finished

LEMMA RegistryCompletes ==
  ASSUME RegistryInvariant
  PROVE  DependenciesComplete
<1>1. Described
  BY RegistryDescribed DEF RegistryInvariant
<1>2. SUFFICES ASSUME stage = "done" PROVE DependenciesComplete
  BY DEF DependenciesComplete
<1>3. DOMAIN entries = WithEntry /\ \A x \in WithEntry : Completed(x)
  BY <1>2 DEF RegistryInvariant
<1>. QED BY <1>1, <1>3, CompletedIsComplete DEF DependenciesComplete, WithEntry

(* genExtensionReflection: for every registry and in whatever order Go walks   *)
(* its maps, an extension comes out with all it needs and no more, or the      *)
(* generator panics.                                                         *)
THEOREM DependenciesAlwaysComplete == RegistrySpec => []DependenciesComplete
<1>1. RegistryInit => RegistryInvariant
  BY FirstRegistry
<1>2. RegistryInvariant /\ [RegistryNext]_registryVars => RegistryInvariant'
  BY RegistryStep
<1>3. RegistryInvariant => DependenciesComplete
  BY RegistryCompletes
<1>. QED BY <1>1, <1>2, <1>3, PTL DEF RegistrySpec

-----------------------------------------------------------------------------
(* Strings: an array that is longer than the text it shows                  *)

Cells == Chars \union {Nul, Garbage}

Records == [buf : Seq(Cells), len : Nat]

(* r shows text: its characters, then the terminator, within the array.       *)
Shows(r, text) ==
  /\ r \in Records
  /\ text \in Seq(Chars)
  /\ r.len = Len(text) /\ r.len < Len(r.buf)
  /\ r.buf[r.len + 1] = Nul
  /\ \A i \in 1 .. r.len : r.buf[i] = text[i]

(* What a string or the builder is in every state *)
Kept(r) == r = Unset \/ (Shows(r, Text(r)) /\ r.len <= MaxText)

StrInvariant ==
  /\ str \in [Names -> Records]
  /\ \A s \in Names : Kept(str[s])
  /\ Kept(builder)
  /\ strFatal \in BOOLEAN

LEMMA TextsAre ==
  ASSUME NEW text \in Texts
  PROVE  text \in Seq(Chars) /\ Len(text) \in 0 .. MaxText
BY StringAssumption DEF Texts

LEMMA UnsetFacts ==
  /\ Unset \in Records /\ Unset.buf = <<>> /\ Unset.len = 0
  /\ Text(Unset) = <<>> /\ <<>> \in Seq(Chars)
<1>1. Unset \in Records /\ Unset.buf = <<>> /\ Unset.len = 0 /\ <<>> \in Seq(Chars)
  BY DEF Unset, Records
<1>2. SubSeq(Unset.buf, 1, Unset.len) = <<>>
  BY <1>1, SubSeqEmpty
<1>. QED BY <1>1, <1>2 DEF Text

(* A record that shows a text reads as that text.                             *)
LEMMA ShownIsText ==
  ASSUME NEW r, NEW text, Shows(r, text)
  PROVE  Text(r) = text
<1>1. /\ r.buf \in Seq(Cells) /\ r.len \in Nat /\ text \in Seq(Chars) /\ r.len = Len(text)
      /\ r.len < Len(r.buf) /\ \A i \in 1 .. r.len : r.buf[i] = text[i]
  BY DEF Shows, Records
<1>2. \A i \in 1 .. r.len : r.buf[i] \in Chars
  BY <1>1
<1>3. /\ Text(r) \in Seq(Chars) /\ Len(Text(r)) = r.len
      /\ \A i \in 1 .. r.len : Text(r)[i] = r.buf[i]
  <2>1. /\ SubSeq(r.buf, 1, r.len) \in Seq(Chars)
        /\ Len(SubSeq(r.buf, 1, r.len)) = IF 1 <= r.len THEN r.len - 1 + 1 ELSE 0
        /\ \A i \in 1 .. r.len - 1 + 1 : SubSeq(r.buf, 1, r.len)[i] = r.buf[1 + i - 1]
    BY <1>1, <1>2, SubSeqProperties
  <2>. HIDE DEF Cells
  <2>2. /\ Len(SubSeq(r.buf, 1, r.len)) = r.len
        /\ \A i \in 1 .. r.len : SubSeq(r.buf, 1, r.len)[i] = r.buf[i]
    BY <1>1, <2>1
  <2>. QED BY <2>1, <2>2 DEF Text
<1>. QED BY <1>1, <1>3, SeqEqual

LEMMA KeptFacts ==
  ASSUME NEW r, Kept(r)
  PROVE  /\ r \in Records /\ Text(r) \in Seq(Chars) /\ Len(Text(r)) = r.len
         /\ r.len \in 0 .. MaxText
         /\ r.buf # <<>> => Shows(r, Text(r))
         /\ r.buf = <<>> => r = Unset
<1>1. CASE r = Unset
  BY <1>1, UnsetFacts, StringAssumption
<1>2. CASE Shows(r, Text(r)) /\ r.len <= MaxText
  BY <1>2 DEF Shows, Records
<1>. QED BY <1>1, <1>2 DEF Kept

LEMMA ShownIsKept ==
  ASSUME NEW r, NEW text, Shows(r, text), Len(text) <= MaxText
  PROVE  Kept(r)
BY ShownIsText DEF Kept, Shows

-----------------------------------------------------------------------------
(* Allocating, copying and assigning                                         *)

LEMMA ReallocFacts ==
  ASSUME NEW buf \in Seq(Cells), NEW n \in Nat
  PROVE  /\ Realloc(buf, n) \in Seq(Cells) /\ Len(Realloc(buf, n)) = n
         /\ \A i \in 1 .. n : i <= Len(buf) => Realloc(buf, n)[i] = buf[i]
<1>1. \A i \in 1 .. n : Realloc(buf, n)[i] \in Cells
  BY DEF Realloc, Cells
<1>2. Realloc(buf, n) \in [1 .. n -> Cells]
  BY <1>1 DEF Realloc
<1>. QED BY <1>2 DEF Realloc

LEMMA OverFacts ==
  ASSUME NEW buf \in Seq(Cells), NEW off \in Nat, NEW text \in Seq(Cells)
  PROVE  /\ Over(buf, off, text) \in Seq(Cells) /\ Len(Over(buf, off, text)) = Len(buf)
         /\ \A i \in 1 .. Len(buf) :
              Over(buf, off, text)[i] =
                IF i \in off + 1 .. off + Len(text) THEN text[i - off] ELSE buf[i]
<1>1. ASSUME NEW i \in 1 .. Len(buf), i \in off + 1 .. off + Len(text)
      PROVE  text[i - off] \in Cells
  <2>1. i - off \in 1 .. Len(text)
    BY <1>1
  <2>. QED BY <2>1
<1>2. Over(buf, off, text) \in [1 .. Len(buf) -> Cells]
  BY <1>1 DEF Over
<1>. QED BY <1>2 DEF Over

(* The array of r from now on: what was shown still is in front.              *)
RoomFor(buf, n, r) ==
  /\ buf \in Seq(Cells) /\ Len(buf) >= n + 1
  /\ \A i \in 1 .. r.len : buf[i] = r.buf[i]

LEMMA AllocFacts ==
  ASSUME NEW r, Kept(r), NEW n \in Nat
  PROVE  /\ RoomFor(Alloc(r, n).buf, n, r)
         /\ Alloc(r, n).len = r.len
         /\ Shows(Alloc(r, n), Text(r))
<1>1. /\ r \in Records /\ Text(r) \in Seq(Chars) /\ Len(Text(r)) = r.len
      /\ r.buf # <<>> => Shows(r, Text(r))
      /\ r.buf = <<>> => r.len = 0
  BY KeptFacts, UnsetFacts
<1>2. r.buf \in Seq(Cells) /\ r.len \in Nat /\ r = [buf |-> r.buf, len |-> r.len]
  BY <1>1 DEF Records
<1>3. CASE ~ (Len(r.buf) < n + 1)
  <2>1. r.buf # <<>> /\ Alloc(r, n) = r
    BY <1>2, <1>3 DEF Alloc
  <2>. QED BY <1>1, <1>2, <1>3, <2>1 DEF RoomFor
<1>4. CASE Len(r.buf) < n + 1
  <2>. DEFINE buf == Realloc(r.buf, n + 1)
              new == [buf EXCEPT ![r.len + 1] = Nul]
  <2>1. Alloc(r, n) = [buf |-> new, len |-> r.len]
    BY <1>2, <1>4 DEF Alloc
  <2>2. /\ buf \in Seq(Cells) /\ Len(buf) = n + 1
        /\ \A i \in 1 .. n + 1 : i <= Len(r.buf) => buf[i] = r.buf[i]
    BY <1>2, ReallocFacts
  <2>3. r.len + 1 \in 1 .. n + 1 /\ r.len <= Len(r.buf)
    BY <1>1, <1>2, <1>4 DEF Shows
  <2>. HIDE DEF buf
  <2>4. /\ new \in Seq(Cells) /\ Len(new) = n + 1 /\ new[r.len + 1] = Nul
        /\ \A i \in 1 .. n + 1 : i # r.len + 1 => new[i] = buf[i]
    BY <2>2, <2>3 DEF Cells
  <2>5. \A i \in 1 .. r.len : new[i] = r.buf[i]
    BY <1>2, <2>2, <2>3, <2>4
  <2>6. \A i \in 1 .. r.len : r.buf[i] = Text(r)[i]
    BY <1>1, <1>2 DEF Shows
  <2>. HIDE DEF new
  <2>7. RoomFor(new, n, r)
    BY <2>4, <2>5 DEF RoomFor
  <2>8. Shows([buf |-> new, len |-> r.len], Text(r))
    BY <1>1, <1>2, <2>3, <2>4, <2>5, <2>6 DEF Shows, Records
  <2>. QED BY <2>1, <2>7, <2>8
<1>. QED BY <1>3, <1>4

(* Writing text and the terminator behind a shown prefix                      *)
LEMMA OverShows ==
  ASSUME NEW buf \in Seq(Cells), NEW pre \in Seq(Chars), NEW text \in Seq(Chars),
         Len(pre) + Len(text) < Len(buf), \A i \in 1 .. Len(pre) : buf[i] = pre[i]
  PROVE  Shows([buf |-> Over(buf, Len(pre), Append(text, Nul)), len |-> Len(pre) + Len(text)],
               pre \o text)
<1>. DEFINE end == Append(text, Nul)
            new == Over(buf, Len(pre), end)
            all == pre \o text
            p == Len(pre)  n == Len(text)
<1>1. /\ end \in Seq(Cells) /\ Len(end) = n + 1 /\ end[n + 1] = Nul
      /\ \A i \in 1 .. n : end[i] = text[i]
  BY DEF Cells
<1>2. p \in Nat /\ n \in Nat
  OBVIOUS
<1>3. /\ new \in Seq(Cells) /\ Len(new) = Len(buf)
      /\ \A i \in 1 .. Len(buf) : new[i] = IF i \in p + 1 .. p + Len(end) THEN end[i - p] ELSE buf[i]
  BY <1>1, <1>2, OverFacts
<1>4. /\ all \in Seq(Chars) /\ Len(all) = p + n
      /\ \A i \in 1 .. p + n : all[i] = IF i <= p THEN pre[i] ELSE text[i - p]
  BY ConcatProperties
<1>5. Len(buf) \in Nat /\ p + n < Len(buf)
  OBVIOUS
<1>. HIDE DEF new, end, all
<1>6. ASSUME NEW i \in 1 .. p + n
      PROVE  new[i] = all[i]
  <2>1. CASE i <= p
    <3>1. i \notin p + 1 .. p + Len(end) /\ i \in 1 .. Len(buf) /\ i \in 1 .. p
      BY <1>1, <1>2, <1>5, <2>1
    <3>2. new[i] = buf[i] /\ all[i] = pre[i]
      BY <1>3, <1>4, <2>1, <3>1
    <3>. QED BY <3>1, <3>2
  <2>2. CASE ~ (i <= p)
    <3>1. i - p \in 1 .. n /\ i \in p + 1 .. p + Len(end) /\ i \in 1 .. Len(buf)
      BY <1>1, <1>2, <1>5, <2>2
    <3>. QED BY <1>1, <1>3, <1>4, <2>2, <3>1
  <2>. QED BY <2>1, <2>2
<1>7. new[p + n + 1] = Nul
  <2>1. /\ p + n + 1 \in 1 .. Len(buf) /\ p + n + 1 \in p + 1 .. p + Len(end)
        /\ p + n + 1 - p = n + 1
    BY <1>1, <1>2, <1>5
  <2>. QED BY <1>1, <1>3, <2>1
<1>. HIDE DEF p, n
<1>8. Shows([buf |-> new, len |-> p + n], all)
  BY <1>2, <1>3, <1>4, <1>5, <1>6, <1>7 DEF Shows, Records
<1>. QED BY <1>8 DEF new, all, end, p, n

(* copy of a text behind a prefix of what r shows                             *)
LEMMA CopyFacts ==
  ASSUME NEW r, Kept(r), NEW pre \in Seq(Chars), NEW text \in Seq(Chars), text # <<>>,
         Len(pre) <= r.len, \A i \in 1 .. Len(pre) : pre[i] = Text(r)[i]
  PROVE  Shows(CopyTo(r, Len(pre), text), pre \o text)
<1>. DEFINE n == Len(pre) + Len(text)
            buf == Alloc(r, n).buf
<1>1. n \in Nat /\ Len(pre) \in Nat /\ Len(text) \in Nat
  OBVIOUS
<1>2. RoomFor(buf, n, r)
  BY <1>1, AllocFacts
<1>3. /\ r \in Records /\ r.len \in Nat /\ \A i \in 1 .. r.len : r.buf[i] = Text(r)[i]
  BY KeptFacts, UnsetFacts DEF Shows
<1>. HIDE DEF buf
<1>4. buf \in Seq(Cells) /\ Len(pre) + Len(text) < Len(buf)
  BY <1>1, <1>2 DEF RoomFor
<1>5. \A i \in 1 .. Len(pre) : buf[i] = pre[i]
  BY <1>1, <1>2, <1>3 DEF RoomFor
<1>6. Shows([buf |-> Over(buf, Len(pre), Append(text, Nul)), len |-> n], pre \o text)
  BY <1>4, <1>5, OverShows
<1>. QED BY <1>6 DEF CopyTo, buf

(* Assigning a text that is not empty                                         *)
LEMMA AssignShows ==
  ASSUME NEW r, Kept(r), NEW text \in Seq(Chars)
  PROVE  /\ text # <<>> => Shows(CopyTo(r, 0, text), text)
         /\ text = <<>> => CopyTo(r, 0, text) = r
<1>1. ASSUME text # <<>>
      PROVE  Shows(CopyTo(r, 0, text), text)
  <2>1. <<>> \in Seq(Chars) /\ Len(<<>>) = 0 /\ <<>> \o text = text
    BY ConcatEmptySeq, EmptySeq
  <2>2. Len(<<>>) <= r.len /\ \A i \in 1 .. Len(<<>>) : <<>>[i] = Text(r)[i]
    BY <2>1, KeptFacts
  <2>3. Shows(CopyTo(r, Len(<<>>), text), <<>> \o text)
    BY <1>1, <2>1, <2>2, CopyFacts
  <2>. QED BY <2>1, <2>3
<1>. QED BY <1>1 DEF CopyTo

-----------------------------------------------------------------------------
(* Growing, and the writes of the builder                                    *)

(* grow makes room for what did not fit.                                      *)
LEMMA GrownEnough ==
  ASSUME NEW had \in Nat, NEW n \in Nat
  PROVE  GrownTo(had, n) \in Nat /\ had + n <= GrownTo(had, n)
<1>. DEFINE x == had + n + BlockSize - 1  q == x \div BlockSize
<1>1. BlockSize \in Nat \ {0} /\ x \in Int
  BY StringAssumption
<1>2. q \in Int /\ x < q * BlockSize + BlockSize
  BY <1>1, Quotient
<1>3. q * BlockSize \in Int
  BY <1>1, <1>2
<1>4. had + n <= q * BlockSize
  BY <1>1, <1>2, <1>3
<1>. QED BY <1>3, <1>4 DEF GrownTo

(* The builder's array once there is room for n more                          *)
LEMMA EnoughFacts ==
  ASSUME Kept(builder), NEW n \in Nat
  PROVE  RoomFor(EnoughFor(n), builder.len + n, builder)
<1>1. /\ builder.buf \in Seq(Cells) /\ builder.len \in Nat
      /\ builder.len <= Len(builder.buf)
  BY KeptFacts, UnsetFacts DEF Shows, Records
<1>2. CASE ~ (n + 1 > Space)
  BY <1>1, <1>2 DEF EnoughFor, Space, RoomFor
<1>3. CASE n + 1 > Space
  <2>. DEFINE more == n + 1 - Space  size == GrownTo(Len(builder.buf), more)
  <2>1. more \in Nat /\ Len(builder.buf) + more = builder.len + n + 1
    BY <1>1, <1>3 DEF Space
  <2>. HIDE DEF more
  <2>2. size \in Nat /\ Len(builder.buf) + more <= size
    <3>1. Len(builder.buf) \in Nat
      BY <1>1
    <3>. QED BY <2>1, <3>1, GrownEnough DEF size
  <2>3. EnoughFor(n) = Realloc(builder.buf, size)
    BY <1>3 DEF EnoughFor, more
  <2>. HIDE DEF size
  <2>4. /\ Realloc(builder.buf, size) \in Seq(Cells) /\ Len(Realloc(builder.buf, size)) = size
        /\ \A i \in 1 .. size : i <= Len(builder.buf) => Realloc(builder.buf, size)[i] = builder.buf[i]
    BY <1>1, <2>2, ReallocFacts
  <2>. DEFINE buf == Realloc(builder.buf, size)
  <2>. HIDE DEF buf
  <2>5. buf \in Seq(Cells) /\ Len(buf) >= builder.len + n + 1
    BY <1>1, <2>1, <2>2, <2>4 DEF buf
  <2>6. \A i \in 1 .. builder.len : i \in 1 .. size /\ i <= Len(builder.buf)
    <3>1. Len(builder.buf) \in Nat
      BY <1>1
    <3>. QED BY <1>1, <2>1, <2>2, <3>1
  <2>7. \A i \in 1 .. builder.len : buf[i] = builder.buf[i]
    BY <2>4, <2>6 DEF buf
  <2>8. RoomFor(buf, builder.len + n, builder)
    BY <2>5, <2>7 DEF RoomFor
  <2>. QED BY <2>3, <2>8 DEF buf
<1>. QED BY <1>2, <1>3

(* What both writes leave                                                     *)
Extended(text) ==
  [buf |-> Over(EnoughFor(Len(text)), builder.len, Append(text, Nul)),
   len |-> builder.len + Len(text)]

LEMMA ExtendedShows ==
  ASSUME Kept(builder), NEW text \in Seq(Chars)
  PROVE  Shows(Extended(text), Text(builder) \o text)
<1>1. /\ Text(builder) \in Seq(Chars) /\ Len(Text(builder)) = builder.len /\ builder.len \in Nat
      /\ \A i \in 1 .. builder.len : builder.buf[i] = Text(builder)[i]
  BY KeptFacts, UnsetFacts DEF Shows
<1>2. Len(text) \in Nat
  OBVIOUS
<1>3. RoomFor(EnoughFor(Len(text)), builder.len + Len(text), builder)
  BY <1>2, EnoughFacts
<1>. DEFINE buf == EnoughFor(Len(text))
<1>. HIDE DEF buf
<1>4. /\ buf \in Seq(Cells) /\ Len(Text(builder)) + Len(text) < Len(buf)
      /\ \A i \in 1 .. Len(Text(builder)) : buf[i] = Text(builder)[i]
  BY <1>1, <1>2, <1>3 DEF RoomFor, buf
<1>5. Shows([buf |-> Over(buf, Len(Text(builder)), Append(text, Nul)),
             len |-> Len(Text(builder)) + Len(text)], Text(builder) \o text)
  BY <1>1, <1>4, OverShows
<1>. QED BY <1>1, <1>5 DEF Extended, buf

(* Printing twice where it does not fit at first is writing the text.         *)
LEMMA PrintedIsWritten ==
  ASSUME Kept(builder), NEW text \in Seq(Chars)
  PROVE  PrintedAll(text) = Over(EnoughFor(Len(text)), builder.len, Append(text, Nul))
<1>1. Space \in Int /\ Len(text) \in Nat
  BY KeptFacts, UnsetFacts DEF Space, Records, Shows
<1>2. SubSeq(text, 1, Len(text)) = text
  BY SubSeqFull
<1>3. \A buf, space : space \in Int /\ Len(text) < space =>
        Printed(buf, space, text) = Over(buf, builder.len, Append(text, Nul))
  <2>1. ASSUME NEW buf, NEW space \in Int, Len(text) < space
        PROVE  Printed(buf, space, text) = Over(buf, builder.len, Append(text, Nul))
    <3>1. space # 0 /\ (IF Len(text) < space THEN Len(text) ELSE space - 1) = Len(text)
      BY <1>1, <2>1
    <3>. QED BY <1>2, <3>1 DEF Printed
  <2>. QED BY <2>1
<1>4. CASE Len(text) + 1 > Space
  <2>1. Printed(EnoughFor(Len(text)), Len(text) + 1, text)
          = Over(EnoughFor(Len(text)), builder.len, Append(text, Nul))
    BY <1>1, <1>3
  <2>. QED BY <1>4, <2>1 DEF PrintedAll
<1>5. CASE ~ (Len(text) + 1 > Space)
  BY <1>1, <1>3, <1>5 DEF PrintedAll, EnoughFor
<1>. QED BY <1>4, <1>5

(* A write leaves the builder showing what it did with text behind.           *)
LEMMA WriteShows ==
  ASSUME Kept(builder), NEW text \in Seq(Chars), Write(text) \/ WriteFormat(text)
  PROVE  \/ text = <<>> /\ builder' = builder
         \/ Shows(builder', Text(builder) \o text)
BY ExtendedShows, PrintedIsWritten DEF Write, WriteFormat, Extended

(* A shorter text left by a terminator in the array                           *)
LEMMA CutShows ==
  ASSUME NEW r, Kept(r), r.buf # <<>>, NEW n \in 0 .. r.len
  PROVE  \E text \in Seq(Chars) : Shows([buf |-> [r.buf EXCEPT ![n + 1] = Nul], len |-> n], text)
<1>. DEFINE text == SubSeq(Text(r), 1, n)
            new == [r.buf EXCEPT ![n + 1] = Nul]
<1>1. /\ r.buf \in Seq(Cells) /\ r.len \in Nat /\ Text(r) \in Seq(Chars) /\ Len(Text(r)) = r.len
      /\ r.len < Len(r.buf) /\ \A i \in 1 .. r.len : r.buf[i] = Text(r)[i]
  BY KeptFacts DEF Shows, Records
<1>2. \A i \in 1 .. n : Text(r)[i] \in Chars
  BY <1>1
<1>3. /\ text \in Seq(Chars) /\ Len(text) = n /\ \A i \in 1 .. n : text[i] = Text(r)[i]
  <2>1. /\ text \in Seq(Chars) /\ Len(text) = IF 1 <= n THEN n - 1 + 1 ELSE 0
        /\ \A i \in 1 .. n - 1 + 1 : text[i] = Text(r)[1 + i - 1]
    BY <1>2, SubSeqProperties
  <2>. HIDE DEF text
  <2>. QED BY <1>1, <2>1
<1>4. n + 1 \in 1 .. Len(r.buf)
  BY <1>1
<1>5. /\ new \in Seq(Cells) /\ Len(new) = Len(r.buf) /\ new[n + 1] = Nul
      /\ \A i \in 1 .. Len(r.buf) : i # n + 1 => new[i] = r.buf[i]
  BY <1>1, <1>4 DEF Cells
<1>. HIDE DEF text, new
<1>6. \A i \in 1 .. n : new[i] = text[i]
  BY <1>1, <1>3, <1>5
<1>7. Shows([buf |-> new, len |-> n], text)
  BY <1>1, <1>3, <1>4, <1>5, <1>6 DEF Shows, Records
<1>. QED BY <1>3, <1>7 DEF new

LEMMA CutKept ==
  ASSUME NEW r, Kept(r), r.buf # <<>>, NEW n \in 0 .. r.len
  PROVE  Kept([buf |-> [r.buf EXCEPT ![n + 1] = Nul], len |-> n])
<1>1. PICK text \in Seq(Chars) : Shows([buf |-> [r.buf EXCEPT ![n + 1] = Nul], len |-> n], text)
  BY CutShows
<1>2. Len(text) = n /\ n <= MaxText
  BY <1>1, KeptFacts, StringAssumption DEF Shows
<1>. QED BY <1>1, <1>2, ShownIsKept

(* Two strings are equal where strncmp looks iff their texts are.             *)
LEMMA SameIsEqual ==
  ASSUME NEW a, NEW b, NEW s, NEW t, Shows(a, s), Shows(b, t)
  PROVE  SameUpTo(a.buf, b.buf, LookedAt(a, b)) <=> s = t
<1>. DEFINE n == LookedAt(a, b)
            differ == {i \in 1 .. n : a.buf[i] # b.buf[i]}
<1>1. /\ a.len \in Nat /\ b.len \in Nat /\ s \in Seq(Chars) /\ t \in Seq(Chars)
      /\ a.len = Len(s) /\ b.len = Len(t) /\ a.buf[a.len + 1] = Nul /\ b.buf[b.len + 1] = Nul
      /\ \A i \in 1 .. a.len : a.buf[i] = s[i]
      /\ \A i \in 1 .. b.len : b.buf[i] = t[i]
  BY DEF Shows, Records
<1>2. /\ \A i \in 1 .. a.len : a.buf[i] # Nul
      /\ \A i \in 1 .. b.len : b.buf[i] # Nul
  BY <1>1, StringAssumption
<1>3. n \in Nat /\ a.len <= n /\ b.len <= n /\ (n = a.len \/ n = b.len)
  BY <1>1 DEF LookedAt
<1>4. ASSUME s = t
      PROVE  SameUpTo(a.buf, b.buf, n)
  <2>1. n = a.len /\ a.len = b.len /\ \A i \in 1 .. n : a.buf[i] = b.buf[i]
    BY <1>1, <1>3, <1>4
  <2>. HIDE DEF n
  <2>. QED BY <2>1 DEF SameUpTo
<1>. HIDE DEF n
<1>5. ASSUME SameUpTo(a.buf, b.buf, n)
      PROVE  s = t
  <2>1. ASSUME NEW i \in 1 .. n, \A j \in 1 .. i - 1 : a.buf[j] = b.buf[j]
        PROVE  a.buf[i] = b.buf[i] /\ i <= a.len /\ i <= b.len
    <3>1. i <= a.len
      <4>1. CASE a.len + 1 <= i /\ b.len <= a.len
        BY <1>1, <1>3, <4>1
      <4>2. CASE a.len + 1 <= i /\ a.len < b.len
        <5>1. a.len + 1 \in 1 .. b.len /\ b.buf[a.len + 1] # Nul /\ a.buf[a.len + 1] = Nul
          BY <1>1, <1>2, <4>2
        <5>2. a.len + 1 = i
          BY <1>1, <4>2, <2>1, <5>1
        <5>3. \A j \in 1 .. i - 1 : a.buf[j] = b.buf[j] /\ a.buf[j] # Nul
          BY <1>1, <1>2, <2>1, <5>2
        <5>4. a.buf[i] = b.buf[i]
          BY <1>5, <2>1, <5>3 DEF SameUpTo
        <5>. QED BY <5>1, <5>2, <5>4
      <4>. QED BY <1>1, <1>3, <2>1, <4>1, <4>2
    <3>2. \A j \in 1 .. i - 1 : a.buf[j] = b.buf[j] /\ a.buf[j] # Nul
      BY <1>1, <1>2, <2>1, <3>1
    <3>3. a.buf[i] = b.buf[i]
      BY <1>5, <2>1, <3>2 DEF SameUpTo
    <3>4. i <= b.len
      <4>1. CASE b.len + 1 <= i
        <5>1. b.len + 1 \in 1 .. a.len /\ a.buf[b.len + 1] # Nul
          BY <1>1, <1>2, <1>3, <2>1, <3>1, <4>1
        <5>2. a.buf[b.len + 1] = b.buf[b.len + 1]
          BY <1>1, <2>1, <3>3, <4>1
        <5>. QED BY <1>1, <5>1, <5>2
      <4>. QED BY <1>1, <1>3, <2>1, <4>1
    <3>. QED BY <3>1, <3>3, <3>4
  <2>2. differ = {}
    <3>1. SUFFICES ASSUME differ # {} PROVE FALSE
      OBVIOUS
    <3>2. differ \in SUBSET Nat
      BY <1>3
    <3>3. PICK i \in differ : \A j \in differ : i <= j
      BY <3>1, <3>2, LeastOf
    <3>4. i \in 1 .. n /\ \A j \in 1 .. i - 1 : a.buf[j] = b.buf[j]
      BY <1>3, <3>3
    <3>. QED BY <2>1, <3>3, <3>4
  <2>3. \A i \in 1 .. n : a.buf[i] = b.buf[i]
    BY <2>2
  <2>4. \A i \in 1 .. n : i <= a.len /\ i <= b.len
    BY <1>3, <2>1, <2>3
  <2>5. a.len = n /\ b.len = n
    <3>1. CASE n = 0
      BY <1>1, <1>3, <3>1
    <3>2. CASE n # 0
      BY <1>1, <1>3, <2>4, <3>2
    <3>. QED BY <3>1, <3>2
  <2>. QED BY <1>1, <2>3, <2>5, SeqEqual
<1>. QED BY <1>4, <1>5 DEF n

-----------------------------------------------------------------------------
(* The calls *)

LEMMA StrInitially == StrInit => StrInvariant
BY UnsetFacts DEF StrInit, StrInvariant, Kept

(* One string replaced by another that is sound                               *)
LEMMA ReplacedKept ==
  ASSUME StrInvariant, NEW s \in Names, NEW r, Kept(r),
         str' = [str EXCEPT ![s] = r], UNCHANGED <<builder, strFatal>>
  PROVE  StrInvariant'
<1>1. r \in Records
  BY KeptFacts
<1>2. /\ str' \in [Names -> Records]
      /\ \A x \in Names : str'[x] = IF x = s THEN r ELSE str[x]
  BY <1>1 DEF StrInvariant
<1>3. \A x \in Names : Kept(str'[x])
  BY <1>2 DEF StrInvariant
<1>. QED BY <1>2, <1>3 DEF StrInvariant

LEMMA AssignKeeps ==
  ASSUME StrInvariant, NEW s \in Names, NEW text \in Texts, Assign(s, text)
  PROVE  StrInvariant'
<1>1. Kept(str[s]) /\ text \in Seq(Chars) /\ Len(text) <= MaxText
  BY TextsAre, StringAssumption DEF StrInvariant
<1>2. Kept(CopyTo(str[s], 0, text))
  BY <1>1, AssignShows, ShownIsKept
<1>. QED BY <1>2, ReplacedKept DEF Assign

LEMMA ClearTextKeeps ==
  ASSUME StrInvariant, NEW s \in Names, ClearText(s)
  PROVE  StrInvariant'
<1>. DEFINE r == str[s]  new == [buf |-> [r.buf EXCEPT ![0 + 1] = Nul], len |-> 0]
<1>1. Kept(r) /\ r.buf # <<>> /\ 0 \in 0 .. r.len
  BY KeptFacts DEF StrInvariant, ClearText
<1>2. Kept(new)
  BY <1>1, CutKept
<1>3. str' = [str EXCEPT ![s] = new] /\ UNCHANGED <<builder, strFatal>>
  BY DEF ClearText, StrInvariant
<1>. HIDE DEF new
<1>. QED BY <1>2, <1>3, ReplacedKept

LEMMA ConcatenateKeeps ==
  ASSUME StrInvariant, NEW t \in Names, NEW s \in Names, NEW text \in Texts,
         Concatenate(t, s, text)
  PROVE  StrInvariant'
<1>. DEFINE n == str[s].len + Len(text)
            old == Text(str[s])
            fresh == Alloc(Unset, n)
            first == CopyTo(fresh, 0, old)
            both == CopyTo(first, str[s].len, text)
<1>1. CASE n = 0
  <2>1. strFatal' = TRUE /\ UNCHANGED <<str, builder>>
    BY <1>1 DEF Concatenate
  <2>. QED BY <2>1 DEF StrInvariant
<1>2. CASE n # 0
  <2>1. /\ n \in 1 .. MaxText /\ str' = [str EXCEPT ![t] = both]
        /\ UNCHANGED <<builder, strFatal>>
    BY <1>2 DEF Concatenate
  <2>2. /\ old \in Seq(Chars) /\ Len(old) = str[s].len /\ text \in Seq(Chars)
        /\ Len(text) \in Nat /\ str[s].len \in Nat /\ n \in Nat /\ n <= MaxText
        /\ str[s].len <= MaxText
    BY <2>1, KeptFacts, TextsAre, StringAssumption DEF StrInvariant
  <2>3. /\ Kept(Unset) /\ Text(Unset) = <<>>
    BY UnsetFacts DEF Kept
  <2>4. Shows(fresh, <<>>)
    <3>1. Shows(fresh, Text(Unset))
      BY <2>2, <2>3, AllocFacts
    <3>. QED BY <2>3, <3>1
  <2>. HIDE DEF fresh
  <2>5. Kept(fresh)
    BY <2>4, ShownIsKept, StringAssumption
  <2>. HIDE DEF old
  <2>6. Shows(first, old)
    BY <2>2, <2>4, <2>5, AssignShows
  <2>7. Kept(first) /\ Text(first) = old /\ first.len = Len(old)
    <3>1. Kept(first)
      BY <2>1, <2>2, <2>6, ShownIsKept
    <3>. QED BY <2>6, <3>1, ShownIsText DEF Shows
  <2>. HIDE DEF first
  <2>8. Kept(both)
    <3>1. CASE text = <<>>
      BY <2>7, <3>1 DEF CopyTo
    <3>2. CASE text # <<>>
      <4>1. Shows(CopyTo(first, Len(old), text), old \o text)
        BY <2>2, <2>7, <3>2, CopyFacts
      <4>2. Len(old \o text) <= MaxText
        BY <2>1, <2>2
      <4>. QED BY <2>2, <4>1, <4>2, ShownIsKept
    <3>. QED BY <3>1, <3>2
  <2>. HIDE DEF both
  <2>. QED BY <2>1, <2>8, ReplacedKept
<1>. QED BY <1>1, <1>2

LEMMA MoveKeeps ==
  ASSUME StrInvariant, NEW t \in Names, NEW s \in Names, Move(t, s)
  PROVE  StrInvariant'
<1>1. Unset \in Records /\ Kept(Unset)
  BY UnsetFacts DEF Kept
<1>2. /\ str' = [str EXCEPT ![t] = str[s], ![s] = Unset] /\ UNCHANGED <<builder, strFatal>>
  BY DEF Move
<1>3. /\ str' \in [Names -> Records]
      /\ \A x \in Names : str'[x] = IF x = s THEN Unset ELSE IF x = t THEN str[s] ELSE str[x]
  BY <1>1, <1>2 DEF StrInvariant
<1>4. \A x \in Names : Kept(str'[x])
  BY <1>1, <1>3 DEF StrInvariant
<1>. QED BY <1>2, <1>3, <1>4 DEF StrInvariant

LEMMA FreeTextKeeps ==
  ASSUME StrInvariant, NEW s \in Names, FreeText(s)
  PROVE  StrInvariant'
BY ReplacedKept DEF FreeText, Kept

LEMMA StrKeeps ==
  ASSUME StrInvariant, NEW s \in Names, Str(s)
  PROVE  StrInvariant'
<1>1. /\ Text(builder) \in Seq(Chars) /\ Len(Text(builder)) <= MaxText /\ Kept(Unset)
  BY KeptFacts, StringAssumption DEF StrInvariant, Kept
<1>2. Kept(CopyTo(Unset, 0, Text(builder)))
  BY <1>1, AssignShows, ShownIsKept
<1>. QED BY <1>2, ReplacedKept DEF Str

LEMMA StringCallKeeps == StrInvariant /\ StringCall => StrInvariant'
<1>1. ASSUME StrInvariant, NEW s \in Names, NEW t \in Names, Equal(s, t)
      PROVE  StrInvariant'
  BY <1>1 DEF Equal, StrInvariant
<1>. QED BY <1>1, AssignKeeps, ConcatenateKeeps, ClearTextKeeps, FreeTextKeeps, StrKeeps, MoveKeeps
         DEF StringCall

LEMMA BuilderCallKeeps == StrInvariant /\ BuilderCall => StrInvariant'
<1>. SUFFICES ASSUME StrInvariant, BuilderCall PROVE StrInvariant'
  OBVIOUS
<1>1. UNCHANGED <<str, strFatal>>
  BY DEF BuilderCall, Write, WriteFormat, Backspace, Reset, FreeBuilder
<1>2. Kept(builder')
  <2>1. ASSUME NEW text \in Texts, builder.len + Len(text) <= MaxText,
               Write(text) \/ WriteFormat(text)
        PROVE  Kept(builder')
    <3>1. Kept(builder) /\ text \in Seq(Chars)
      BY TextsAre DEF StrInvariant
    <3>2. CASE builder' = builder
      BY <3>1, <3>2
    <3>3. CASE Shows(builder', Text(builder) \o text)
      <4>1. Len(Text(builder) \o text) <= MaxText
        BY <2>1, <3>1, KeptFacts, ConcatProperties
      <4>. QED BY <3>3, <4>1, ShownIsKept
    <3>. QED BY <2>1, <3>1, <3>2, <3>3, WriteShows
  <2>2. ASSUME NEW n \in 1 .. MaxText, Backspace(n)
        PROVE  Kept(builder')
    <3>1. Kept(builder) /\ builder.len \in Nat
      BY KeptFacts DEF StrInvariant
    <3>2. CASE builder.len = 0
      BY <2>2, <3>1, <3>2 DEF Backspace
    <3>3. CASE builder.len # 0
      <4>1. builder' = [buf |-> [builder.buf EXCEPT ![Left(n) + 1] = Nul], len |-> Left(n)]
        BY <2>2, <3>3 DEF Backspace
      <4>2. builder.buf # <<>> /\ Left(n) \in 0 .. builder.len
        BY <3>1, <3>3, KeptFacts, UnsetFacts, StringAssumption DEF Left
      <4>. QED BY <3>1, <4>1, <4>2, CutKept
    <3>. QED BY <3>2, <3>3
  <2>3. ASSUME Reset
        PROVE  Kept(builder')
    <3>1. Kept(builder) /\ 0 \in 0 .. builder.len /\ builder.buf # <<>>
      BY <2>3, KeptFacts DEF StrInvariant, Reset
    <3>2. builder' = [buf |-> [builder.buf EXCEPT ![0 + 1] = Nul], len |-> 0]
      BY <2>3 DEF Reset
    <3>. QED BY <3>1, <3>2, CutKept
  <2>4. ASSUME FreeBuilder
        PROVE  Kept(builder')
    BY <2>4 DEF FreeBuilder, Kept
  <2>. QED BY <2>1, <2>2, <2>3, <2>4 DEF BuilderCall
<1>. QED BY <1>1, <1>2 DEF StrInvariant

LEMMA StringsStep == StrInvariant /\ [StrNext]_strVars => StrInvariant'
<1>1. StrInvariant /\ UNCHANGED strVars => StrInvariant'
  BY DEF StrInvariant, strVars
<1>. QED BY <1>1, StringCallKeeps, BuilderCallKeeps DEF StrNext

LEMMA InvariantTerminates == StrInvariant => StrTypeOK /\ Terminated
<1>. SUFFICES ASSUME StrInvariant PROVE StrTypeOK /\ Terminated
  OBVIOUS
<1>1. \A r \in {str[s] : s \in Names} \union {builder} : Kept(r)
  BY DEF StrInvariant
<1>2. ASSUME NEW r, Kept(r)
      PROVE  /\ r.len \in 0 .. MaxText /\ r.buf \in Seq(Cells)
             /\ r.buf # <<>> =>
                  /\ r.len < Len(r.buf)
                  /\ r.buf[r.len + 1] = Nul
                  /\ \A i \in 1 .. r.len : r.buf[i] \in Chars
  <2>1. /\ r \in Records /\ Text(r) \in Seq(Chars) /\ Len(Text(r)) = r.len /\ r.len \in 0 .. MaxText
        /\ r.buf # <<>> => Shows(r, Text(r))
    BY <1>2, KeptFacts
  <2>2. \A i \in 1 .. r.len : Text(r)[i] \in Chars
    BY <2>1
  <2>. QED BY <2>1, <2>2 DEF Shows, Records
<1>. QED BY <1>1, <1>2 DEF StrTypeOK, Terminated, StrInvariant, Cells

(* The calls do what they say, of every state that is sound.                  *)
LEMMA CallsAnswer ==
  StrInvariant => EqualMeansSame /\ WritesAppend /\ AssignTakes
<1>. SUFFICES ASSUME StrInvariant PROVE EqualMeansSame /\ WritesAppend /\ AssignTakes
  OBVIOUS
<1>1. ASSUME NEW s \in Names, NEW t \in Names, Equal(s, t)
      PROVE  equal' = {<<s, t, Text(str[s]) = Text(str[t])>>}
  <2>1. Shows(str[s], Text(str[s])) /\ Shows(str[t], Text(str[t]))
    BY <1>1, KeptFacts DEF Equal, StrInvariant
  <2>2. SameUpTo(str[s].buf, str[t].buf, LookedAt(str[s], str[t]))
          <=> Text(str[s]) = Text(str[t])
    BY <2>1, SameIsEqual
  <2>3. SameUpTo(str[s].buf, str[t].buf, LookedAt(str[s], str[t]))
          = (Text(str[s]) = Text(str[t]))
    BY <2>2 DEF SameUpTo
  <2>4. equal' = {<<s, t, SameUpTo(str[s].buf, str[t].buf, LookedAt(str[s], str[t]))>>}
    BY <1>1 DEF Equal
  <2>. QED BY <2>3, <2>4, Zenon
<1>2. ASSUME NEW text \in Texts, Write(text) \/ WriteFormat(text)
      PROVE  Text(builder') = Text(builder) \o text
  <2>1. Kept(builder) /\ text \in Seq(Chars) /\ Text(builder) \in Seq(Chars)
    BY TextsAre, KeptFacts DEF StrInvariant
  <2>2. CASE text = <<>> /\ builder' = builder
    BY <2>1, <2>2, ConcatEmptySeq
  <2>3. CASE Shows(builder', Text(builder) \o text)
    BY <2>3, ShownIsText
  <2>. QED BY <1>2, <2>1, <2>2, <2>3, WriteShows
<1>3. ASSUME NEW s \in Names, NEW text \in Texts \ {<<>>}, Assign(s, text)
      PROVE  Text(str'[s]) = text
  <2>1. Kept(str[s]) /\ text \in Seq(Chars) /\ text # <<>>
    BY TextsAre DEF StrInvariant
  <2>2. str'[s] = CopyTo(str[s], 0, text)
    BY <1>3 DEF Assign, StrInvariant
  <2>. QED BY <2>1, <2>2, AssignShows, ShownIsText
<1>4. EqualMeansSame
  BY <1>1 DEF EqualMeansSame
<1>5. WritesAppend
  BY <1>2 DEF WritesAppend, Text
<1>6. AssignTakes
  BY <1>3 DEF AssignTakes, Text
<1>. QED BY <1>4, <1>5, <1>6

(* Strings end where they should, compare by their text and take what they    *)
(* are assigned, and a builder appends what is written, however its array     *)
(* grows (string.hpp).                                                        *)
THEOREM StringsAlwaysHold == StrSpec => StringsHold
<1>1. StrInvariant => StrTypeOK /\ Terminated
  BY InvariantTerminates
<1>2. StrInvariant /\ [StrNext]_strVars
        => [strVars' # strVars => EqualMeansSame /\ WritesAppend /\ AssignTakes]_strVars
  BY CallsAnswer
<1>. QED BY <1>1, <1>2, StrInitially, StringsStep, PTL DEF StrSpec, StringsHold

-----------------------------------------------------------------------------
(* Structure chains: places that are linked                                  *)

Structures == [sType : STypes \union {Unknown}, pNext : Places \union {Null}]

VectorEntry == [at : Places, owned : BOOLEAN]

PlacesIn(c) == [i \in DOMAIN c |-> c[i].at]

(* In m every structure of s is there and links to the next one of s.         *)
Linking(m, s) ==
  \A i \in DOMAIN s : s[i] \in DOMAIN m /\ m[s[i]].pNext = Linked(s, i)

(* Owned structures are none of the caller's; one of the caller's is all it   *)
(* handed in.                                                                 *)
EntriesApart(c, g) ==
  \A i \in DOMAIN c :
    IF c[i].owned THEN c[i].at \notin Range(g) ELSE Len(g) = 1 /\ c[i].at = g[1]

(* The caller's structures are linked as it did, unless the only one was part *)
(* of a chain that is gone and still links to where the next one was.         *)
GivenLinked(m, c, g) ==
  g # <<>> /\ g[1] \notin Range(PlacesIn(c)) =>
    Linking(m, g) \/ (Len(g) = 1 /\ m[g[1]].pNext # g[1])

Structured(m, c, g) ==
  /\ DOMAIN m \subseteq Places /\ m \in [DOMAIN m -> Structures]
  /\ c \in Seq(VectorEntry) /\ IsInjective(PlacesIn(c))
  /\ g \in Seq(Places) /\ IsInjective(g)
  /\ Linking(m, PlacesIn(c))
  /\ GivenLinked(m, c, g)
  /\ EntriesApart(c, g)
  /\ Range(g) \subseteq DOMAIN m
  /\ DOMAIN m \subseteq Range(g) \union Range(PlacesIn(c))

ChainInvariant == Structured(memory, chain, given) /\ chainAborted \in BOOLEAN

-----------------------------------------------------------------------------
(* Walking *)

Follows(f) ==
  f = [q \in Places \union {Null} |->
        IF q = Null THEN <<>>
        ELSE <<q>> \o (IF q \in DOMAIN memory THEN f[memory[q].pNext] ELSE <<>>)]

LEMMA WalkFollows ==
  ASSUME NEW f, Follows(f)
  PROVE  \E g : Follows(g) /\ \A p : Walk(p) = g[p]
<1>1. Follows(CHOOSE g : Follows(g))
  BY Zenon
<1>2. \A p : Walk(p) = (CHOOSE g : Follows(g))[p]
  BY Zenon DEF Walk, Follows
<1>. QED BY <1>1, <1>2, Zenon

(* The walk along linked structures finds them, whichever came first: from    *)
(* the last one forwards.                                                     *)
LEMMA WalkIs ==
  ASSUME NEW f, Follows(f), NEW s \in Seq(Places), s # <<>>, Linking(memory, s)
  PROVE  Walk(s[1]) = s
<1>1. PICK g : Follows(g) /\ \A p : Walk(p) = g[p]
  BY WalkFollows
<1>2. \A q \in Places \union {Null} :
        g[q] = IF q = Null THEN <<>>
               ELSE <<q>> \o (IF q \in DOMAIN memory THEN g[memory[q].pNext] ELSE <<>>)
  BY <1>1 DEF Follows
<1>. DEFINE n == Len(s)
            From(i) == SubSeq(s, i, n)
            wrong == {k \in Nat : k < n /\ g[s[n - k]] # From(n - k)}
<1>3. n \in Nat \ {0} /\ DOMAIN s = 1 .. n /\ \A i \in 1 .. n : s[i] \in Places /\ s[i] # Null
  BY ChainAssumption
<1>4. \A i \in 1 .. n : s[i] \in DOMAIN memory /\ memory[s[i]].pNext = Linked(s, i)
  BY <1>3 DEF Linking
<1>5. ASSUME NEW i \in 1 .. n
      PROVE  g[s[i]] = <<s[i]>> \o g[Linked(s, i)]
  BY <1>2, <1>3, <1>4
<1>6. wrong = {}
  <2>1. SUFFICES ASSUME wrong # {} PROVE FALSE
    OBVIOUS
  <2>2. PICK k \in wrong : \A j \in wrong : k <= j
    <3>1. wrong \in SUBSET Nat
      OBVIOUS
    <3>. HIDE DEF wrong
    <3>. QED BY <2>1, <3>1, LeastOf
  <2>. DEFINE i == n - k
  <2>3. k \in Nat /\ k < n /\ i \in 1 .. n /\ i \in Nat /\ g[s[i]] # From(i)
    BY <1>3, <2>2
  <2>4. From(i) = <<s[i]>> \o From(i + 1)
    BY <1>3, <2>3, SubSeqRecursiveFirst
  <2>5. CASE i = n
    <3>1. From(i + 1) = <<>>
      BY <1>3, <2>5, SubSeqEmpty
    <3>2. Linked(s, i) = Null /\ g[Null] = <<>>
      BY <1>2, <2>5 DEF Linked
    <3>. QED BY <1>5, <2>3, <2>4, <3>1, <3>2
  <2>6. CASE i # n
    <3>1. k - 1 \in Nat /\ k - 1 < n /\ n - (k - 1) = i + 1 /\ i + 1 \in 1 .. n
      <4>. HIDE DEF n, wrong, From
      <4>. QED BY <1>3, <2>3, <2>6
    <3>2. g[s[i + 1]] = From(i + 1)
      <4>1. k - 1 \notin wrong
        <5>1. ~ (k <= k - 1)
          BY <2>3
        <5>. QED BY <2>2, <5>1
      <4>. QED BY <3>1, <4>1
    <3>3. Linked(s, i) = s[i + 1]
      BY <2>6 DEF Linked
    <3>. QED BY <1>5, <2>3, <2>4, <3>2, <3>3
  <2>. QED BY <2>5, <2>6
<1>7. g[s[1]] = From(1)
  <2>1. n - 1 \in Nat /\ n - 1 < n /\ n - (n - 1) = 1
    BY <1>3
  <2>. QED BY <1>6, <2>1
<1>8. From(1) = s
  BY SubSeqFull
<1>. QED BY <1>1, <1>7, <1>8

(* The rest of s from where q is                                              *)
RestFrom(s, q) == SubSeq(s, CHOOSE i \in DOMAIN s : s[i] = q, Len(s))

LEMMA RestFacts ==
  ASSUME NEW S, NEW s \in Seq(S), IsInjective(s), NEW i \in DOMAIN s
  PROVE  RestFrom(s, s[i]) = <<s[i]>> \o (IF i = Len(s) THEN <<>> ELSE RestFrom(s, s[i + 1]))
<1>1. DOMAIN s = 1 .. Len(s) /\ Len(s) \in Nat
  OBVIOUS
<1>2. \A k \in DOMAIN s : (CHOOSE j \in DOMAIN s : s[j] = s[k]) = k
  BY DEF IsInjective
<1>3. \A k \in DOMAIN s : RestFrom(s, s[k]) = SubSeq(s, k, Len(s))
  BY <1>2 DEF RestFrom
<1>4. SubSeq(s, i, Len(s)) = <<s[i]>> \o SubSeq(s, i + 1, Len(s))
  <2>1. i \in 1 .. Len(s) /\ Len(s) \in i .. Len(s)
    BY <1>1
  <2>. QED BY <2>1, SubSeqRecursiveFirst
<1>5. i = Len(s) => SubSeq(s, i + 1, Len(s)) = <<>>
  BY <1>1, SubSeqEmpty
<1>6. i # Len(s) => i + 1 \in DOMAIN s
  BY <1>1
<1>. QED BY <1>3, <1>4, <1>5, <1>6

LEMMA PlacesFacts ==
  ASSUME NEW c \in Seq(VectorEntry)
  PROVE  /\ PlacesIn(c) \in Seq(Places) /\ Len(PlacesIn(c)) = Len(c)
         /\ DOMAIN PlacesIn(c) = 1 .. Len(c) /\ DOMAIN c = 1 .. Len(c) /\ Len(c) \in Nat
         /\ \A i \in 1 .. Len(c) : PlacesIn(c)[i] = c[i].at /\ c[i].at \in Places
<1>1. DOMAIN c = 1 .. Len(c) /\ Len(c) \in Nat
  OBVIOUS
<1>2. \A i \in 1 .. Len(c) : c[i] \in VectorEntry
  BY ElementOfSeq
<1>3. PlacesIn(c) \in [1 .. Len(c) -> Places]
  BY <1>1, <1>2 DEF PlacesIn, VectorEntry
<1>. QED BY <1>1, <1>2, <1>3 DEF PlacesIn, VectorEntry

(* The caller's structures are none of the chain's, or one is all there is.   *)
LEMMA GivenApart ==
  ASSUME NEW m, NEW c, NEW g, Structured(m, c, g), NEW q \in Range(g), q \notin Range(PlacesIn(c))
  PROVE  Range(g) \intersect Range(PlacesIn(c)) = {}
<1>1. SUFFICES ASSUME NEW j \in DOMAIN g, g[j] \in Range(PlacesIn(c)) PROVE FALSE
  BY DEF Range
<1>2. PICK i \in DOMAIN c : c[i].at = g[j]
  BY <1>1 DEF Range, PlacesIn
<1>3. g[j] \in Range(g)
  BY DEF Range
<1>4. ~ c[i].owned /\ Len(g) = 1 /\ c[i].at = g[1]
  BY <1>2, <1>3 DEF Structured, EntriesApart
<1>5. q = g[1]
  BY <1>4 DEF Range, Structured
<1>. QED BY <1>1, <1>2, <1>4, <1>5

(* Every walk ends, so the recursion has an answer.                           *)
LEMMA WalksEnd ==
  ASSUME ChainInvariant
  PROVE  \E f : Follows(f)
<1>. DEFINE P == PlacesIn(chain)
            D == Places \union {Null}
            f1 == [q \in D |-> IF q \in Range(P) THEN RestFrom(P, q)
                               ELSE IF q = Null THEN <<>> ELSE <<q>>]
            own == Range(given) \ Range(P)
            f == [q \in D |-> IF q \notin own THEN f1[q]
                              ELSE IF Linking(memory, given) THEN RestFrom(given, q)
                              ELSE <<q>> \o f1[memory[q].pNext]]
<1>1. /\ P \in Seq(Places) /\ IsInjective(P) /\ Linking(memory, P)
      /\ given \in Seq(Places) /\ IsInjective(given)
  <2>1. PlacesIn(chain) \in Seq(Places)
    BY PlacesFacts DEF ChainInvariant, Structured
  <2>. QED BY <2>1 DEF ChainInvariant, Structured
<1>2. Range(P) \subseteq Places /\ own \subseteq Places /\ Null \notin Places
  BY <1>1, ChainAssumption DEF Range
<1>3. Structured(memory, chain, given)
  BY DEF ChainInvariant
<1>4. ASSUME NEW s \in Seq(Places), IsInjective(s), Linking(memory, s), NEW i \in DOMAIN s
      PROVE  /\ s[i] \in DOMAIN memory
             /\ IF i = Len(s) THEN memory[s[i]].pNext = Null
                ELSE i + 1 \in DOMAIN s /\ memory[s[i]].pNext = s[i + 1]
             /\ RestFrom(s, s[i]) = <<s[i]>> \o (IF i = Len(s) THEN <<>> ELSE RestFrom(s, s[i + 1]))
  BY <1>4, RestFacts DEF Linking, Linked
<1>. HIDE DEF P
<1>. DEFINE next(q) == IF q \in DOMAIN memory THEN f[memory[q].pNext] ELSE <<>>
<1>5. f[Null] = <<>>
  BY <1>2
<1>6. ASSUME NEW q \in Range(P)
      PROVE  f[q] = <<q>> \o next(q)
  <2>1. PICK i \in DOMAIN P : P[i] = q
    BY <1>6 DEF Range
  <2>2. q \in D /\ q \notin own /\ f[q] = RestFrom(P, q)
    BY <1>2, <1>6
  <2>3. i # Len(P) => P[i + 1] \in Range(P) /\ f[P[i + 1]] = RestFrom(P, P[i + 1])
    <3>1. SUFFICES ASSUME i # Len(P) PROVE P[i + 1] \in Range(P) /\ f[P[i + 1]] = RestFrom(P, P[i + 1])
      OBVIOUS
    <3>2. i + 1 \in DOMAIN P
      BY <1>1, <1>4, <3>1
    <3>3. P[i + 1] \in Range(P)
      BY <3>2 DEF Range
    <3>. QED BY <1>2, <3>3
  <2>. HIDE DEF f
  <2>4. /\ q \in DOMAIN memory
        /\ i = Len(P) => memory[q].pNext = Null /\ RestFrom(P, q) = <<q>> \o <<>>
        /\ i # Len(P) => /\ memory[q].pNext = P[i + 1]
                         /\ RestFrom(P, q) = <<q>> \o RestFrom(P, P[i + 1])
    BY <1>1, <1>4, <2>1
  <2>. QED BY <1>5, <2>2, <2>3, <2>4
<1>7. ASSUME NEW q \in own
      PROVE  f[q] = <<q>> \o next(q)
  <2>1. Range(given) \intersect Range(P) = {}
    BY <1>3, <1>7, GivenApart DEF P
  <2>2. PICK i \in DOMAIN given : given[i] = q
    BY <1>7 DEF Range
  <2>3. \A j \in DOMAIN given : given[j] \in own
    BY <2>1 DEF Range
  <2>4. CASE Linking(memory, given)
    <3>1. \A j \in DOMAIN given : f[given[j]] = RestFrom(given, given[j])
      BY <1>2, <2>3, <2>4
    <3>. HIDE DEF f
    <3>2. /\ q \in DOMAIN memory
          /\ i = Len(given) => memory[q].pNext = Null /\ RestFrom(given, q) = <<q>> \o <<>>
          /\ i # Len(given) => /\ i + 1 \in DOMAIN given /\ memory[q].pNext = given[i + 1]
                               /\ RestFrom(given, q) = <<q>> \o RestFrom(given, given[i + 1])
      BY <1>1, <1>4, <2>2, <2>4
    <3>. QED BY <1>5, <2>2, <3>1, <3>2
  <2>5. CASE ~ Linking(memory, given)
    <3>1. given # <<>> /\ given[1] \in own
      BY <1>1, <2>2, <2>3
    <3>2. Len(given) = 1 /\ memory[given[1]].pNext # given[1]
      BY <1>3, <2>5, <3>1 DEF Structured, GivenLinked, P
    <3>3. q = given[1] /\ own = {q}
      BY <1>1, <1>7, <2>2, <3>2 DEF Range
    <3>4. q \in DOMAIN memory /\ memory[q].pNext \in D /\ memory[q].pNext \notin own
      BY <1>3, <1>7, <3>2, <3>3 DEF Structured, Structures
    <3>. QED BY <1>2, <1>7, <2>5, <3>4
  <2>. QED BY <2>4, <2>5
<1>8. ASSUME NEW q \in Places, q \notin own, q \notin Range(P)
      PROVE  f[q] = <<q>> \o next(q)
  <2>1. q \notin DOMAIN memory /\ q # Null
    BY <1>2, <1>3, <1>8 DEF Structured, P
  <2>2. f[q] = <<q>>
    BY <1>8, <2>1
  <2>3. <<q>> \o <<>> = <<q>>
    <3>1. <<q>> \in Seq(Places)
      BY <1>8
    <3>. QED BY <3>1, ConcatEmptySeq
  <2>. HIDE DEF f
  <2>. QED BY <2>1, <2>2, <2>3
<1>9. \A q \in D : f[q] = IF q = Null THEN <<>> ELSE <<q>> \o next(q)
  <2>. HIDE DEF f
  <2>. QED BY <1>5, <1>6, <1>7, <1>8
<1>10. Follows(f)
  <2>1. \E h : f = [q \in D |-> h[q]]
    <3>1. f = [q \in D |-> f[q]]
      OBVIOUS
    <3>. HIDE DEF f
    <3>. QED BY <3>1
  <2>. HIDE DEF f
  <2>. QED BY <1>9, <2>1 DEF Follows
<1>. QED BY <1>10

-----------------------------------------------------------------------------
(* The caller, and the end of a chain                                        *)

(* New structures in free places, linked as the caller's                       *)
LEMMA NewGivenKeeps ==
  ASSUME ChainInvariant, given = <<>>,
         NEW places \in Seq(Places), IsInjective(places), Range(places) \subseteq FreePlaces,
         NEW made, DOMAIN made = Range(places),
         \A i \in DOMAIN places : made[places[i]] \in Structures /\ made[places[i]].pNext = Linked(places, i),
         given' = places, memory' = Placed(made, memory), UNCHANGED <<chain, chainAborted>>
  PROVE  ChainInvariant'
<1>. DEFINE P == PlacesIn(chain)
<1>1. \A i \in DOMAIN places : places[i] \in Range(places)
  BY DEF Range
<1>2. \A p \in Range(places) : made[p] \in Structures
  BY DEF Range
<1>3. /\ DOMAIN memory' = Range(places) \union DOMAIN memory
      /\ \A p \in Range(places) : memory'[p] = made[p]
      /\ \A p \in DOMAIN memory : memory'[p] = memory[p]
      /\ memory' \in [DOMAIN memory' -> Structures]
  <2>1. /\ DOMAIN memory' = Range(places) \union DOMAIN memory
        /\ memory' = [p \in DOMAIN memory' |-> memory'[p]]
        /\ \A p \in Range(places) : memory'[p] = made[p]
        /\ \A p \in DOMAIN memory \ Range(places) : memory'[p] = memory[p]
    <3>. DEFINE m == Placed(made, memory)
    <3>1. /\ m = [p \in DOMAIN m |-> m[p]]
          /\ DOMAIN m = DOMAIN made \union DOMAIN memory
          /\ \A p \in DOMAIN made : m[p] = made[p]
          /\ \A p \in DOMAIN memory \ DOMAIN made : m[p] = memory[p]
      BY DEF Placed
    <3>2. memory' = m /\ DOMAIN made = Range(places)
      OBVIOUS
    <3>. HIDE DEF m
    <3>. QED BY <3>1, <3>2
  <2>2. \A p \in DOMAIN memory : memory[p] \in Structures /\ p \notin Range(places)
    BY DEF ChainInvariant, Structured, FreePlaces
  <2>3. \A p \in DOMAIN memory' : memory'[p] \in Structures
    BY <1>2, <2>1, <2>2
  <2>. QED BY <2>1, <2>2, <2>3
<1>4. /\ chain \in Seq(VectorEntry) /\ IsInjective(P) /\ Linking(memory, P)
      /\ DOMAIN memory \subseteq Places /\ DOMAIN memory \subseteq Range(P)
      /\ chainAborted \in BOOLEAN
  BY DEF ChainInvariant, Structured, Range
<1>5. /\ Len(P) = Len(chain) /\ DOMAIN P = 1 .. Len(chain) /\ DOMAIN chain = 1 .. Len(chain)
      /\ \A i \in 1 .. Len(chain) : P[i] = chain[i].at
  BY <1>4, PlacesFacts
<1>6. \A i \in DOMAIN chain : chain[i].owned /\ chain[i].at \in DOMAIN memory
  <2>1. \A i \in DOMAIN chain : chain[i].at \in DOMAIN memory
    BY <1>4, <1>5 DEF Linking
  <2>2. Len(given) # 1
    OBVIOUS
  <2>. QED BY <2>1, <2>2 DEF ChainInvariant, Structured, EntriesApart
<1>. HIDE DEF P
<1>7. Linking(memory', P)
  BY <1>3, <1>4, <1>5 DEF Linking
<1>8. Linking(memory', places)
  <2>1. ASSUME NEW i \in DOMAIN places
        PROVE  places[i] \in DOMAIN memory' /\ memory'[places[i]].pNext = Linked(places, i)
    BY <1>1, <1>3
  <2>. QED BY <2>1 DEF Linking
<1>9. EntriesApart(chain, places)
  <2>1. \A i \in DOMAIN chain : chain[i].at \notin Range(places)
    BY <1>6 DEF FreePlaces
  <2>. QED BY <1>6, <2>1 DEF EntriesApart
<1>10. DOMAIN memory' \subseteq Places /\ Range(places) \subseteq DOMAIN memory'
  BY <1>3, <1>4 DEF FreePlaces
<1>11. DOMAIN memory' \subseteq Range(places) \union Range(P)
  BY <1>3, <1>4
<1>12. GivenLinked(memory', chain, places)
  BY <1>8 DEF GivenLinked
<1>13. Structured(memory', chain, places)
  BY <1>3, <1>4, <1>7, <1>9, <1>10, <1>11, <1>12 DEF Structured, P
<1>. QED BY <1>4, <1>13 DEF ChainInvariant

LEMMA MakeGivenKeeps ==
  ASSUME ChainInvariant, NEW n \in 1 .. MaxChain, NEW sTypes \in [1 .. n -> STypes \union {Unknown}],
         MakeGiven(sTypes)
  PROVE  ChainInvariant'
<1>. DEFINE New(places) ==
              [p \in Range(places) |->
                 LET i == CHOOSE j \in DOMAIN places : places[j] = p
                 IN  [sType |-> sTypes[i], pNext |-> Linked(places, i)]]
<1>1. PICK places \in [1 .. n -> FreePlaces] :
        IsInjective(places) /\ given' = places /\ memory' = Placed(New(places), memory)
  <2>1. DOMAIN sTypes = 1 .. n
    OBVIOUS
  <2>. QED BY <2>1, Zenon DEF MakeGiven
<1>2. n \in Nat /\ places \in Seq(Places) /\ Len(places) = n /\ DOMAIN places = 1 .. n
  BY ChainAssumption DEF FreePlaces
<1>3. \A i \in DOMAIN places : /\ places[i] \in Range(places)
                              /\ (CHOOSE j \in DOMAIN places : places[j] = places[i]) = i
  BY <1>1 DEF IsInjective, Range
<1>4. DOMAIN New(places) = Range(places) /\ Range(places) \subseteq FreePlaces
  BY <1>1 DEF Range
<1>5. ASSUME NEW i \in DOMAIN places
      PROVE  New(places)[places[i]] = [sType |-> sTypes[i], pNext |-> Linked(places, i)]
  BY <1>3, Zenon
<1>6. \A i \in DOMAIN places : sTypes[i] \in STypes \union {Unknown} /\ Linked(places, i) \in Places \union {Null}
  BY <1>2 DEF Linked
<1>. HIDE DEF New
<1>7. \A i \in DOMAIN places :
        New(places)[places[i]] \in Structures /\ New(places)[places[i]].pNext = Linked(places, i)
  <2>1. ASSUME NEW i \in DOMAIN places, NEW e, e = [sType |-> sTypes[i], pNext |-> Linked(places, i)]
        PROVE  e \in Structures /\ e.pNext = Linked(places, i)
    BY <1>6, <2>1 DEF Structures
  <2>. QED BY <1>5, <2>1
<1>8. given = <<>> /\ UNCHANGED <<chain, chainAborted>>
  BY DEF MakeGiven
<1>. QED BY <1>1, <1>2, <1>4, <1>7, <1>8, NewGivenKeeps

LEMMA DropGivenKeeps ==
  ASSUME ChainInvariant, DropGiven
  PROVE  ChainInvariant'
<1>. DEFINE P == PlacesIn(chain)
<1>1. /\ \A i \in DOMAIN chain : chain[i].owned
      /\ memory' = [p \in (DOMAIN memory \ Range(given)) |-> memory[p]]
      /\ given' = <<>> /\ chain' = chain /\ chainAborted' = chainAborted
  BY DEF DropGiven, Restrict
<1>2. /\ chain \in Seq(VectorEntry) /\ IsInjective(P) /\ Linking(memory, P)
      /\ DOMAIN memory \subseteq Places /\ DOMAIN memory \subseteq Range(given) \union Range(P)
      /\ memory \in [DOMAIN memory -> Structures]
      /\ chainAborted \in BOOLEAN
  BY DEF ChainInvariant, Structured
<1>3. /\ DOMAIN P = DOMAIN chain /\ \A i \in DOMAIN chain : P[i] = chain[i].at
  BY DEF PlacesIn
<1>4. \A i \in DOMAIN P : P[i] \notin Range(given)
  BY <1>1, <1>3 DEF ChainInvariant, Structured, EntriesApart
<1>5. DOMAIN memory' = DOMAIN memory \ Range(given) /\ memory' \in [DOMAIN memory' -> Structures]
  BY <1>1, <1>2
<1>. HIDE DEF P
<1>6. Linking(memory', P)
  BY <1>1, <1>2, <1>4, <1>5 DEF Linking
<1>7. /\ Range(<<>>) = {} /\ IsInjective(<<>>) /\ <<>> \in Seq(Places)
  BY DEF Range, IsInjective
<1>8. EntriesApart(chain, <<>>) /\ GivenLinked(memory', chain, <<>>)
  BY <1>1, <1>7 DEF EntriesApart, GivenLinked
<1>9. Structured(memory', chain, <<>>)
  BY <1>2, <1>5, <1>6, <1>7, <1>8 DEF Structured, P
<1>. QED BY <1>1, <1>2, <1>9 DEF ChainInvariant

(* Freeing what the entries own leaves at most the caller's one structure, and *)
(* that does not link to itself.                                              *)
LEMMA DropChainKeeps ==
  ASSUME ChainInvariant, DropChain
  PROVE  ChainInvariant'
<1>. DEFINE P == PlacesIn(chain)
            freed == {chain[i].at : i \in {j \in DOMAIN chain : chain[j].owned}}
<1>1. /\ memory' = [p \in (DOMAIN memory \ freed) |-> memory[p]]
      /\ chain' = <<>> /\ given' = given /\ chainAborted' = chainAborted
  BY DEF DropChain, Restrict
<1>2. /\ chain \in Seq(VectorEntry) /\ IsInjective(P) /\ Linking(memory, P)
      /\ DOMAIN memory \subseteq Places /\ DOMAIN memory \subseteq Range(given) \union Range(P)
      /\ memory \in [DOMAIN memory -> Structures] /\ given \in Seq(Places) /\ IsInjective(given)
      /\ Range(given) \subseteq DOMAIN memory
      /\ GivenLinked(memory, chain, given) /\ EntriesApart(chain, given)
      /\ chainAborted \in BOOLEAN
  BY DEF ChainInvariant, Structured
<1>3. /\ P \in Seq(Places) /\ DOMAIN P = DOMAIN chain /\ \A i \in DOMAIN chain : P[i] = chain[i].at
      /\ DOMAIN chain = 1 .. Len(chain) /\ Len(chain) \in Nat /\ Len(P) = Len(chain)
      /\ \A i \in DOMAIN chain : chain[i].owned \in BOOLEAN
  <2>1. \A i \in 1 .. Len(chain) : chain[i] \in VectorEntry
    BY <1>2, ElementOfSeq
  <2>. QED BY <1>2, <2>1, PlacesFacts DEF VectorEntry
<1>4. DOMAIN memory' = DOMAIN memory \ freed /\ memory' \in [DOMAIN memory' -> Structures]
  BY <1>1, <1>2
<1>5. freed \intersect Range(given) = {}
  BY <1>2 DEF EntriesApart
<1>6. ASSUME NEW p \in DOMAIN memory'
      PROVE  p \in Range(given) /\ memory'[p] = memory[p]
  <2>1. ASSUME p \in Range(P)
        PROVE  p \in Range(given)
    <3>1. PICK i \in DOMAIN chain : chain[i].at = p
      BY <1>3, <2>1 DEF Range
    <3>2. ~ chain[i].owned
      BY <1>4, <1>6, <3>1
    <3>3. Len(given) = 1 /\ p = given[1]
      BY <1>2, <3>1, <3>2 DEF EntriesApart
    <3>. QED BY <1>2, <3>3 DEF Range
  <2>. QED BY <1>1, <1>2, <1>4, <1>6, <2>1
<1>. HIDE DEF P, freed
<1>7. Range(given) \subseteq DOMAIN memory'
  BY <1>2, <1>4, <1>5
<1>8. ASSUME given # <<>>
      PROVE  Linking(memory', given) \/ (Len(given) = 1 /\ memory'[given[1]].pNext # given[1])
  <2>1. given[1] \in Range(given)
    BY <1>2, <1>8 DEF Range
  <2>2. CASE given[1] \notin Range(P)
    <3>1. Linking(memory, given) \/ (Len(given) = 1 /\ memory[given[1]].pNext # given[1])
      BY <1>2, <1>8, <2>2 DEF GivenLinked, P
    <3>2. Linking(memory, given) => Linking(memory', given)
      <4>1. \A i \in DOMAIN given : given[i] \in Range(given)
        BY DEF Range
      <4>. QED BY <1>6, <1>7, <4>1 DEF Linking
    <3>. QED BY <1>6, <1>7, <2>1, <3>1, <3>2
  <2>3. CASE given[1] \in Range(P)
    <3>1. PICK i \in DOMAIN P : P[i] = given[1]
      BY <2>3 DEF Range
    <3>2. Len(given) = 1
      BY <1>2, <1>3, <2>1, <3>1 DEF EntriesApart
    <3>3. memory[P[i]].pNext = Linked(P, i)
      BY <1>2, <3>1 DEF Linking
    <3>4. Linked(P, i) # P[i]
      <4>1. CASE i = Len(P)
        BY <1>3, <3>1, <4>1, ChainAssumption DEF Linked
      <4>2. CASE i # Len(P)
        <5>1. i + 1 \in DOMAIN P /\ i + 1 # i
          BY <1>3, <3>1, <4>2
        <5>. QED BY <1>2, <4>2, <5>1 DEF Linked, IsInjective
      <4>. QED BY <4>1, <4>2
    <3>5. memory'[given[1]] = memory[given[1]]
      BY <1>6, <1>7, <2>1
    <3>. QED BY <3>1, <3>2, <3>3, <3>4, <3>5
  <2>. QED BY <2>2, <2>3
<1>9. /\ PlacesIn(<<>>) = <<>> /\ Range(<<>>) = {} /\ IsInjective(<<>>)
      /\ <<>> \in Seq(VectorEntry) /\ DOMAIN <<>> = {}
  BY DEF PlacesIn, Range, IsInjective
<1>10. /\ EntriesApart(<<>>, given) /\ Linking(memory', <<>>) /\ GivenLinked(memory', <<>>, given)
  BY <1>8, <1>9 DEF EntriesApart, Linking, GivenLinked
<1>11. Structured(memory', <<>>, given)
  BY <1>2, <1>4, <1>6, <1>7, <1>9, <1>10 DEF Structured
<1>. QED BY <1>1, <1>2, <1>11 DEF ChainInvariant

-----------------------------------------------------------------------------
(* Joining linked places                                                     *)

(* Two sequences without common elements                                      *)
LEMMA Joining ==
  ASSUME NEW S, NEW s \in Seq(S), NEW t \in Seq(S), IsInjective(s), IsInjective(t),
         Range(s) \intersect Range(t) = {}
  PROVE  /\ s \o t \in Seq(S) /\ Len(s \o t) = Len(s) + Len(t) /\ IsInjective(s \o t)
         /\ Range(s \o t) = Range(s) \union Range(t)
         /\ \A i \in 1 .. Len(s) + Len(t) : (s \o t)[i] = IF i <= Len(s) THEN s[i] ELSE t[i - Len(s)]
<1>1. /\ Len(s) \in Nat /\ Len(t) \in Nat /\ DOMAIN s = 1 .. Len(s) /\ DOMAIN t = 1 .. Len(t)
      /\ s \o t \in Seq(S) /\ Len(s \o t) = Len(s) + Len(t) /\ DOMAIN (s \o t) = 1 .. Len(s) + Len(t)
      /\ \A i \in 1 .. Len(s) + Len(t) : (s \o t)[i] = IF i <= Len(s) THEN s[i] ELSE t[i - Len(s)]
  BY ConcatProperties, LenProperties
<1>. DEFINE all == s \o t
<1>. HIDE DEF all
<1>2. \A i \in 1 .. Len(s) : i \in DOMAIN all /\ all[i] = s[i]
  BY <1>1 DEF all
<1>3. \A i \in 1 .. Len(t) : Len(s) + i \in DOMAIN all /\ all[Len(s) + i] = t[i]
  BY <1>1 DEF all
<1>4. \A i \in DOMAIN all : \/ i \in DOMAIN s /\ all[i] = s[i]
                            \/ i - Len(s) \in DOMAIN t /\ all[i] = t[i - Len(s)]
  BY <1>1 DEF all
<1>5. \A i \in DOMAIN s, j \in DOMAIN t : s[i] # t[j]
  BY DEF Range
<1>6. IsInjective(all)
  <2>1. ASSUME NEW i \in DOMAIN all, NEW j \in DOMAIN all, all[i] = all[j]
        PROVE  i = j
    <3>1. CASE i \in DOMAIN s /\ all[i] = s[i] /\ j \in DOMAIN s /\ all[j] = s[j]
      BY <2>1, <3>1 DEF IsInjective
    <3>2. CASE /\ i - Len(s) \in DOMAIN t /\ all[i] = t[i - Len(s)]
               /\ j - Len(s) \in DOMAIN t /\ all[j] = t[j - Len(s)]
      <4>1. i - Len(s) = j - Len(s)
        BY <2>1, <3>2 DEF IsInjective
      <4>2. i \in Int /\ j \in Int
        BY <1>1 DEF all
      <4>. QED BY <1>1, <4>1, <4>2
    <3>. QED BY <1>4, <1>5, <2>1, <3>1, <3>2
  <2>. QED BY <2>1 DEF IsInjective
<1>7. Range(all) = Range(s) \union Range(t)
  <2>1. Range(all) \subseteq Range(s) \union Range(t)
    BY <1>4 DEF Range
  <2>2. Range(s) \subseteq Range(all)
    BY <1>1, <1>2 DEF Range
  <2>3. Range(t) \subseteq Range(all)
    BY <1>1, <1>3 DEF Range
  <2>. QED BY <2>1, <2>2, <2>3
<1>. QED BY <1>1, <1>6, <1>7 DEF all

LEMMA NextBehind ==
  ASSUME NEW a \in Nat, NEW b \in Nat, NEW i \in Int, i > a, i <= a + b, i # a + b
  PROVE  i + 1 \in 1 .. a + b /\ ~ (i + 1 <= a) /\ i + 1 - a = (i - a) + 1
OBVIOUS

(* A sequence behind another one as long as k                                 *)
LEMMA ConcatBehind ==
  ASSUME NEW R, NEW c \in Seq(R), NEW e \in Seq(R), NEW k, k = Len(e)
  PROVE  /\ c \o e \in Seq(R) /\ Len(c \o e) = Len(c) + k /\ DOMAIN (c \o e) = 1 .. Len(c) + k
         /\ Len(c) \in Nat /\ DOMAIN c = 1 .. Len(c)
         /\ \A i \in 1 .. Len(c) + k : (c \o e)[i] = IF i <= Len(c) THEN c[i] ELSE e[i - Len(c)]
BY ConcatProperties, LenProperties

(* A linked list whose last one links to another linked list is one.          *)
LEMMA LinkingGrows ==
  ASSUME NEW m, NEW s \in Seq(Places), NEW t \in Seq(Places), t # <<>>,
         \A i \in 1 .. Len(s) :
           s[i] \in DOMAIN m /\ m[s[i]].pNext = IF i = Len(s) THEN t[1] ELSE Linked(s, i),
         Linking(m, t)
  PROVE  Linking(m, s \o t)
<1>1. /\ Len(s) \in Nat /\ Len(t) \in Nat \ {0} /\ DOMAIN t = 1 .. Len(t)
      /\ Len(s \o t) = Len(s) + Len(t) /\ DOMAIN (s \o t) = 1 .. Len(s) + Len(t)
      /\ \A i \in 1 .. Len(s) + Len(t) : (s \o t)[i] = IF i <= Len(s) THEN s[i] ELSE t[i - Len(s)]
  BY ConcatProperties, LenProperties, EmptySeq
<1>. DEFINE all == s \o t
<1>. HIDE DEF all
<1>2. ASSUME NEW i \in DOMAIN all
      PROVE  all[i] \in DOMAIN m /\ m[all[i]].pNext = Linked(all, i)
  <2>1. CASE i < Len(s)
    <3>1. i \in 1 .. Len(s) /\ all[i] = s[i] /\ all[i + 1] = s[i + 1] /\ i # Len(all) /\ i # Len(s)
      BY <1>1, <1>2, <2>1 DEF all
    <3>. QED BY <3>1 DEF Linked
  <2>2. CASE i = Len(s)
    <3>1. i \in 1 .. Len(s) /\ all[i] = s[i] /\ i # Len(all)
      BY <1>1, <1>2, <2>2 DEF all
    <3>2. all[i + 1] = t[1]
      <4>1. i + 1 \in 1 .. Len(s) + Len(t) /\ ~ (i + 1 <= Len(s)) /\ i + 1 - Len(s) = 1
        BY <1>1, <2>2
      <4>. QED BY <1>1, <4>1 DEF all
    <3>. QED BY <2>2, <3>1, <3>2 DEF Linked
  <2>3. CASE i > Len(s)
    <3>. DEFINE k == i - Len(s)
    <3>1. k \in DOMAIN t /\ all[i] = t[k] /\ (i = Len(all) <=> k = Len(t))
      BY <1>1, <1>2, <2>3 DEF all
    <3>2. i # Len(all) => all[i + 1] = t[k + 1]
      <4>1. ASSUME i # Len(all)
            PROVE  i + 1 \in 1 .. Len(s) + Len(t) /\ ~ (i + 1 <= Len(s)) /\ i + 1 - Len(s) = k + 1
        <5>1. i \in Int /\ i <= Len(s) + Len(t) /\ i # Len(s) + Len(t)
          BY <1>1, <1>2, <4>1 DEF all
        <5>2. Len(s) \in Nat /\ Len(t) \in Nat
          BY <1>1
        <5>. QED BY <2>3, <5>1, <5>2, NextBehind
      <4>. QED BY <1>1, <4>1 DEF all
    <3>3. m[t[k]].pNext = Linked(t, k) /\ t[k] \in DOMAIN m
      BY <3>1 DEF Linking
    <3>. HIDE DEF k
    <3>. QED BY <3>1, <3>2, <3>3 DEF Linked
  <2>. QED BY <1>1, <1>2, <2>1, <2>2, <2>3 DEF all
<1>. QED BY <1>2 DEF Linking, all

(* What the vector gains                                                      *)
LEMMA EntriesFacts ==
  ASSUME NEW c \in Seq(VectorEntry), NEW t \in Seq(Places), NEW own \in BOOLEAN
  PROVE  /\ c \o Entries(t, own) \in Seq(VectorEntry)
         /\ PlacesIn(c \o Entries(t, own)) = PlacesIn(c) \o t
         /\ \A i \in DOMAIN (c \o Entries(t, own)) :
              \/ i \in DOMAIN c /\ (c \o Entries(t, own))[i] = c[i]
              \/ /\ (c \o Entries(t, own))[i].owned = own
                 /\ (c \o Entries(t, own))[i].at \in Range(t)
<1>. DEFINE e == Entries(t, own)  all == c \o e
<1>1. /\ e \in Seq(VectorEntry) /\ Len(e) = Len(t) /\ DOMAIN t = 1 .. Len(t) /\ Len(t) \in Nat
      /\ \A i \in 1 .. Len(t) : e[i].at = t[i] /\ e[i].owned = own
  <2>1. \A i \in 1 .. Len(t) : [at |-> t[i], owned |-> own] \in VectorEntry
    BY DEF VectorEntry
  <2>2. e \in [1 .. Len(t) -> VectorEntry] /\ Len(t) \in Nat
    BY <2>1 DEF Entries
  <2>. QED BY <2>2 DEF Entries
<1>. HIDE DEF e
<1>2. /\ all \in Seq(VectorEntry) /\ Len(all) = Len(c) + Len(t) /\ DOMAIN all = 1 .. Len(c) + Len(t)
      /\ Len(c) \in Nat /\ DOMAIN c = 1 .. Len(c)
      /\ \A i \in 1 .. Len(c) + Len(t) : all[i] = IF i <= Len(c) THEN c[i] ELSE e[i - Len(c)]
  <2>1. Len(t) = Len(e)
    BY <1>1
  <2>2. e \in Seq(VectorEntry)
    BY <1>1
  <2>3. /\ c \o e \in Seq(VectorEntry) /\ Len(c \o e) = Len(c) + Len(e)
        /\ DOMAIN (c \o e) = 1 .. Len(c) + Len(e)
        /\ Len(c) \in Nat /\ DOMAIN c = 1 .. Len(c)
        /\ \A i \in 1 .. Len(c) + Len(e) : (c \o e)[i] = IF i <= Len(c) THEN c[i] ELSE e[i - Len(c)]
    BY <2>2, ConcatBehind
  <2>. QED BY <2>1, <2>3
<1>. HIDE DEF all
<1>3. \A i \in DOMAIN all : \/ i \in DOMAIN c /\ all[i] = c[i]
                            \/ all[i].owned = own /\ all[i].at \in Range(t)
  <2>1. ASSUME NEW i \in DOMAIN all, ~ (i <= Len(c))
        PROVE  all[i].owned = own /\ all[i].at \in Range(t)
    <3>1. i - Len(c) \in 1 .. Len(t)
      BY <1>1, <1>2, <2>1
    <3>2. all[i] = e[i - Len(c)] /\ t[i - Len(c)] \in Range(t)
      BY <1>1, <1>2, <2>1, <3>1 DEF Range
    <3>. QED BY <1>1, <3>1, <3>2
  <2>. QED BY <1>2, <2>1
<1>4. PlacesIn(all) = PlacesIn(c) \o t
  <2>1. /\ PlacesIn(all) \in Seq(Places) /\ Len(PlacesIn(all)) = Len(c) + Len(t)
        /\ \A i \in 1 .. Len(c) + Len(t) : PlacesIn(all)[i] = all[i].at
    BY <1>2, PlacesFacts
  <2>2. /\ PlacesIn(c) \in Seq(Places) /\ Len(PlacesIn(c)) = Len(c)
        /\ \A i \in 1 .. Len(c) : PlacesIn(c)[i] = c[i].at
    BY PlacesFacts
  <2>3. /\ PlacesIn(c) \o t \in Seq(Places) /\ Len(PlacesIn(c) \o t) = Len(c) + Len(t)
        /\ \A i \in 1 .. Len(c) + Len(t) :
             (PlacesIn(c) \o t)[i] = IF i <= Len(c) THEN PlacesIn(c)[i] ELSE t[i - Len(c)]
    <3>. DEFINE P == PlacesIn(c)
    <3>. HIDE DEF P
    <3>1. /\ P \o t \in Seq(Places) /\ Len(P \o t) = Len(P) + Len(t)
          /\ \A i \in 1 .. Len(P) + Len(t) : (P \o t)[i] = IF i <= Len(P) THEN P[i] ELSE t[i - Len(P)]
      BY <2>2, ConcatProperties DEF P
    <3>2. Len(P) = Len(c)
      BY <2>2 DEF P
    <3>. QED BY <3>1, <3>2 DEF P
  <2>4. ASSUME NEW i \in 1 .. Len(c) + Len(t)
        PROVE  PlacesIn(all)[i] = (PlacesIn(c) \o t)[i]
    <3>1. CASE i <= Len(c)
      <4>1. i \in 1 .. Len(c)
        BY <1>2, <3>1
      <4>. QED BY <1>2, <2>1, <2>2, <2>3, <3>1, <4>1
    <3>2. CASE ~ (i <= Len(c))
      <4>1. i - Len(c) \in 1 .. Len(t)
        BY <1>1, <1>2, <3>2
      <4>2. e[i - Len(c)].at = t[i - Len(c)] /\ all[i] = e[i - Len(c)]
        BY <1>1, <1>2, <3>2, <4>1
      <4>. QED BY <2>1, <2>3, <3>2, <4>2
    <3>. QED BY <3>1, <3>2
  <2>. QED BY <2>1, <2>3, <2>4, SeqEqual
<1>. QED BY <1>2, <1>3, <1>4 DEF all, e

(* A chain the caller links and has not lent is walked as it was linked.      *)
LEMMA PresentedWalk ==
  ASSUME ChainInvariant, Presentable
  PROVE  Walk(given[1]) = given /\ Linking(memory, given)
<1>1. given \in Seq(Places) /\ given # <<>> /\ Range(given) \subseteq DOMAIN memory
  BY DEF ChainInvariant, Structured, Presentable
<1>2. Linking(memory, given)
  BY <1>1 DEF Linking, Presentable, Range
<1>. QED BY <1>1, <1>2, WalksEnd, WalkIs

(* The chain of the vector is the one that is walked.                         *)
LEMMA InvariantLinks == ChainInvariant => ChainTypeOK /\ ChainLinked
<1>. SUFFICES ASSUME ChainInvariant PROVE ChainTypeOK /\ ChainLinked
  OBVIOUS
<1>. DEFINE P == PlacesIn(chain)
<1>1. /\ P = ChainPlaces /\ chain \in Seq(VectorEntry) /\ Linking(memory, P)
      /\ DOMAIN memory \subseteq Places /\ memory \in [DOMAIN memory -> Structures]
      /\ given \in Seq(Places)
  BY DEF ChainInvariant, Structured, PlacesIn, ChainPlaces
<1>2. /\ P \in Seq(Places) /\ DOMAIN P = 1 .. Len(chain) /\ Len(P) = Len(chain)
      /\ Len(chain) \in Nat /\ \A i \in 1 .. Len(chain) : P[i] = chain[i].at
  BY <1>1, PlacesFacts
<1>. HIDE DEF P
<1>3. Range(P) \subseteq DOMAIN memory
  BY <1>1 DEF Linking, Range
<1>4. chain # <<>> => Walk(chain[1].at) = P
  <2>1. SUFFICES ASSUME chain # <<>> PROVE Walk(chain[1].at) = P
    OBVIOUS
  <2>2. Len(chain) # 0
    BY <1>1, <2>1, EmptySeq
  <2>3. P # <<>> /\ P[1] = chain[1].at
    BY <1>2, <2>2
  <2>4. Walk(P[1]) = P
    BY <1>1, <1>2, <2>3, WalksEnd, WalkIs
  <2>. QED BY <2>3, <2>4
<1>5. ChainTypeOK
  <2>1. ASSUME NEW p \in DOMAIN memory
        PROVE  memory[p].sType \in STypes \union {Unknown} /\ memory[p].pNext \in Places \union {Null}
    BY <1>1 DEF Structures
  <2>. QED BY <1>1, <2>1 DEF ChainTypeOK, VectorEntry
<1>. QED BY <1>1, <1>3, <1>4, <1>5 DEF ChainLinked

-----------------------------------------------------------------------------
(* A chain that is continued                                                 *)

(* The memory with the last structure of the vector linked to p                *)
Relinked(m, p) == IF chain = <<>> THEN m ELSE [m EXCEPT ![Last(chain).at].pNext = p]

LEMMA RelinkedFacts ==
  ASSUME NEW m, DOMAIN m \subseteq Places, m \in [DOMAIN m -> Structures],
         chain \in Seq(VectorEntry), IsInjective(PlacesIn(chain)),
         \A i \in DOMAIN chain : chain[i].at \in DOMAIN m,
         NEW p \in Places
  PROVE  /\ Relinked(m, p) \in [DOMAIN m -> Structures]
         /\ \A q \in DOMAIN m : Relinked(m, p)[q].sType = m[q].sType
         /\ \A i \in 1 .. Len(chain) :
              Relinked(m, p)[chain[i].at].pNext = IF i = Len(chain) THEN p ELSE m[chain[i].at].pNext
         /\ \A q \in DOMAIN m :
              (\A i \in DOMAIN chain : chain[i].at # q) => Relinked(m, p)[q] = m[q]
<1>1. /\ DOMAIN chain = 1 .. Len(chain) /\ Len(chain) \in Nat
      /\ \A i, j \in 1 .. Len(chain) : chain[i].at = chain[j].at => i = j
  BY PlacesFacts DEF IsInjective
<1>2. CASE chain = <<>>
  <2>1. Len(chain) = 0 /\ DOMAIN chain = {}
    BY <1>2
  <2>. QED BY <1>2, <2>1 DEF Relinked
<1>3. CASE chain # <<>>
  <2>. DEFINE last == chain[Len(chain)].at
  <2>1. Len(chain) \in 1 .. Len(chain) /\ last \in DOMAIN m
    <3>1. Len(chain) # 0
      BY <1>3, EmptySeq
    <3>. QED BY <1>1, <3>1
  <2>2. Relinked(m, p) = [m EXCEPT ![last].pNext = p]
    BY <1>3 DEF Relinked, Last
  <2>. HIDE DEF last
  <2>3. m[last] \in Structures
    BY <2>1
  <2>4. [m[last] EXCEPT !.pNext = p] \in Structures
    BY <2>3 DEF Structures
  <2>5. /\ DOMAIN Relinked(m, p) = DOMAIN m
        /\ Relinked(m, p) \in [DOMAIN m -> Structures]
        /\ Relinked(m, p)[last] = [m[last] EXCEPT !.pNext = p]
        /\ \A q \in DOMAIN m : q # last => Relinked(m, p)[q] = m[q]
    BY <2>1, <2>2, <2>4
  <2>6. Relinked(m, p)[last].pNext = p /\ Relinked(m, p)[last].sType = m[last].sType
    BY <2>3, <2>5 DEF Structures
  <2>7. \A i \in 1 .. Len(chain) : i # Len(chain) => chain[i].at # last
    BY <1>1, <2>1 DEF last
  <2>8. chain[Len(chain)].at = last
    BY DEF last
  <2>. QED BY <1>1, <2>1, <2>5, <2>6, <2>7, <2>8
<1>. QED BY <1>2, <1>3

(* The chain is continued by structures that are there, linked to each other, *)
(* and not among it.                                                          *)
Continues(t, own) ==
  /\ t \in Seq(Places) /\ t # <<>> /\ IsInjective(t)
  /\ Range(t) \intersect Range(PlacesIn(chain)) = {}
  /\ own \in BOOLEAN
  /\ chain' = chain \o Entries(t, own)
  /\ DOMAIN memory' = DOMAIN memory \union Range(t) /\ DOMAIN memory' \subseteq Places
  /\ memory' \in [DOMAIN memory' -> Structures]
  /\ Linking(memory', t)
  /\ \A i \in 1 .. Len(chain) :
       memory'[chain[i].at].pNext = IF i = Len(chain) THEN t[1] ELSE memory[chain[i].at].pNext
  /\ \A q \in DOMAIN memory : q \notin Range(t) => memory'[q].sType = memory[q].sType
  /\ \A q \in DOMAIN memory :
       q \notin Range(t) /\ (\A i \in DOMAIN chain : chain[i].at # q) => memory'[q] = memory[q]
  /\ UNCHANGED <<given, chainAborted>>

LEMMA ContinuedKeeps ==
  ASSUME ChainInvariant, NEW t, NEW own, Continues(t, own),
         IF own THEN Range(t) \intersect Range(given) = {} ELSE Len(given) = 1 /\ Range(t) = {given[1]}
  PROVE  ChainInvariant'
<1>. DEFINE P == PlacesIn(chain)  c == chain \o Entries(t, own)
<1>1. /\ chain \in Seq(VectorEntry) /\ IsInjective(P) /\ Linking(memory, P)
      /\ DOMAIN memory \subseteq Places /\ DOMAIN memory \subseteq Range(given) \union Range(P)
      /\ given \in Seq(Places) /\ IsInjective(given) /\ Range(given) \subseteq DOMAIN memory
      /\ GivenLinked(memory, chain, given) /\ EntriesApart(chain, given)
      /\ chainAborted \in BOOLEAN
  BY DEF ChainInvariant, Structured
<1>2. /\ P \in Seq(Places) /\ Len(P) = Len(chain) /\ DOMAIN P = 1 .. Len(chain)
      /\ DOMAIN chain = 1 .. Len(chain) /\ Len(chain) \in Nat
      /\ \A i \in 1 .. Len(chain) : P[i] = chain[i].at
  BY <1>1, PlacesFacts
<1>3. /\ t \in Seq(Places) /\ t # <<>> /\ IsInjective(t) /\ own \in BOOLEAN
      /\ Range(t) \intersect Range(P) = {}
      /\ chain' = c
      /\ DOMAIN memory' = DOMAIN memory \union Range(t) /\ DOMAIN memory' \subseteq Places
      /\ memory' \in [DOMAIN memory' -> Structures]
      /\ Linking(memory', t)
      /\ given' = given /\ chainAborted' = chainAborted
  BY DEF Continues
<1>4. /\ c \in Seq(VectorEntry) /\ PlacesIn(c) = P \o t
      /\ \A i \in DOMAIN c : \/ i \in DOMAIN chain /\ c[i] = chain[i]
                             \/ c[i].owned = own /\ c[i].at \in Range(t)
  BY <1>1, <1>3, EntriesFacts
<1>. HIDE DEF c, P
<1>5. IsInjective(P \o t) /\ Range(P \o t) = Range(P) \union Range(t)
  BY <1>1, <1>2, <1>3, Joining
<1>6. Linking(memory', P \o t)
  <2>1. ASSUME NEW i \in 1 .. Len(P)
        PROVE  /\ P[i] \in DOMAIN memory'
               /\ memory'[P[i]].pNext = IF i = Len(P) THEN t[1] ELSE Linked(P, i)
    <3>1. P[i] \in DOMAIN memory /\ memory[P[i]].pNext = Linked(P, i)
      BY <1>1, <1>2, <2>1 DEF Linking
    <3>2. memory'[P[i]].pNext = IF i = Len(P) THEN t[1] ELSE memory[P[i]].pNext
      BY <1>2, <2>1 DEF Continues
    <3>. QED BY <1>3, <3>1, <3>2
  <2>. QED BY <1>2, <1>3, <2>1, LinkingGrows
<1>7. EntriesApart(c, given)
  <2>1. ASSUME NEW i \in DOMAIN c
        PROVE  IF c[i].owned THEN c[i].at \notin Range(given)
               ELSE Len(given) = 1 /\ c[i].at = given[1]
    <3>1. CASE i \in DOMAIN chain /\ c[i] = chain[i]
      BY <1>1, <3>1 DEF EntriesApart
    <3>2. CASE c[i].owned = own /\ c[i].at \in Range(t)
      BY <1>3, <3>2
    <3>. QED BY <1>4, <2>1, <3>1, <3>2
  <2>. QED BY <2>1 DEF EntriesApart
<1>8. GivenLinked(memory', c, given)
  <2>1. SUFFICES ASSUME given # <<>>, given[1] \notin Range(P \o t)
                 PROVE  Linking(memory', given) \/ (Len(given) = 1 /\ memory'[given[1]].pNext # given[1])
    BY <1>4 DEF GivenLinked
  <2>2. given[1] \in Range(given) /\ given[1] \notin Range(P) /\ given[1] \notin Range(t)
    <3>1. Len(given) # 0 /\ Len(given) \in Nat /\ DOMAIN given = 1 .. Len(given)
      BY <1>1, <2>1, EmptySeq
    <3>2. 1 \in DOMAIN given
      BY <3>1
    <3>3. given[1] \in Range(given)
      BY <3>2 DEF Range
    <3>. QED BY <1>5, <2>1, <3>3
  <2>3. Range(given) \intersect Range(P) = {}
    BY <2>2, GivenApart DEF ChainInvariant, P
  <2>4. Range(given) \intersect Range(t) = {}
    BY <1>3, <2>2
  <2>5. \A q \in Range(given) : q \in DOMAIN memory' /\ memory'[q] = memory[q]
    <3>1. \A i \in DOMAIN chain : chain[i].at \in Range(P)
      BY <1>2 DEF Range
    <3>. QED BY <1>1, <1>3, <2>3, <2>4, <3>1 DEF Continues
  <2>6. Linking(memory, given) \/ (Len(given) = 1 /\ memory[given[1]].pNext # given[1])
    BY <1>1, <2>1, <2>2 DEF GivenLinked, P
  <2>7. Linking(memory, given) => Linking(memory', given)
    <3>1. \A i \in DOMAIN given : given[i] \in Range(given)
      BY DEF Range
    <3>. QED BY <2>5, <3>1 DEF Linking
  <2>. QED BY <2>2, <2>5, <2>6, <2>7
<1>9. DOMAIN memory' \subseteq Range(given) \union Range(P \o t) /\ Range(given) \subseteq DOMAIN memory'
  BY <1>1, <1>3, <1>5
<1>10. Structured(memory', c, given)
  BY <1>1, <1>3, <1>4, <1>5, <1>6, <1>7, <1>8, <1>9 DEF Structured
<1>. QED BY <1>1, <1>3, <1>10 DEF ChainInvariant

LEMMA SeqOfLength ==
  ASSUME NEW T, NEW n \in Nat, NEW f \in [1 .. n -> T]
  PROVE  f \in Seq(T) /\ Len(f) = n
OBVIOUS

LEMMA BehindIs ==
  ASSUME NEW p \in Nat, NEW q \in Nat, NEW i \in 1 .. p + q, ~ (i <= p)
  PROVE  i - p \in 1 .. q
OBVIOUS

(* What is appended is what there is more.                                    *)
LEMMA ContinuedTypes ==
  ASSUME ChainInvariant, NEW t, NEW own, Continues(t, own),
         NEW s \in Seq(Places), Len(s) = Len(t),
         \A i \in 1 .. Len(t) : memory'[t[i]].sType = memory[s[i]].sType
  PROVE  STypesAt(ChainPlaces)' = STypesAt(ChainPlaces) \o STypesAt(s)
<1>. DEFINE P == PlacesIn(chain)  S == STypes \union {Unknown}
<1>1. /\ chain \in Seq(VectorEntry) /\ IsInjective(P) /\ Linking(memory, P)
      /\ t \in Seq(Places) /\ own \in BOOLEAN /\ Range(t) \intersect Range(P) = {}
      /\ IsInjective(t) /\ chain' = chain \o Entries(t, own)
  BY DEF ChainInvariant, Structured, Continues
<1>2. /\ ChainPlaces = P /\ ChainPlaces' = P \o t
      /\ P \in Seq(Places) /\ Len(P) \in Nat /\ DOMAIN P = 1 .. Len(P)
  <2>1. PlacesIn(chain') = P \o t
    BY <1>1, EntriesFacts
  <2>. QED BY <1>1, <2>1, PlacesFacts DEF ChainPlaces, PlacesIn
<1>. HIDE DEF P
<1>3. /\ Len(t) \in Nat /\ DOMAIN t = 1 .. Len(t) /\ DOMAIN s = 1 .. Len(t)
      /\ P \o t \in Seq(Places) /\ DOMAIN (P \o t) = 1 .. Len(P) + Len(t)
      /\ \A i \in 1 .. Len(P) + Len(t) : (P \o t)[i] = IF i <= Len(P) THEN P[i] ELSE t[i - Len(P)]
  BY <1>1, <1>2, ConcatProperties, LenProperties
<1>. DEFINE a == [i \in 1 .. Len(P) |-> memory[P[i]].sType]
            b == [i \in 1 .. Len(t) |-> memory[s[i]].sType]
            T == {memory[P[i]].sType : i \in 1 .. Len(P)} \union {memory[s[i]].sType : i \in 1 .. Len(t)}
            new == [i \in 1 .. Len(P) + Len(t) |-> memory'[(P \o t)[i]].sType]
<1>4. STypesAt(ChainPlaces) = a /\ STypesAt(s) = b
  BY <1>2, <1>3 DEF STypesAt
<1>5. STypesAt(ChainPlaces)' = new
  <2>1. STypesAt(ChainPlaces)' = [i \in DOMAIN ChainPlaces' |-> memory'[ChainPlaces'[i]].sType]
    BY DEF STypesAt
  <2>. QED BY <1>2, <1>3, <2>1
<1>6. /\ a \in Seq(T) /\ Len(a) = Len(P) /\ \A i \in 1 .. Len(P) : a[i] = memory[P[i]].sType
      /\ b \in Seq(T) /\ Len(b) = Len(t) /\ \A i \in 1 .. Len(t) : b[i] = memory[s[i]].sType
  <2>1. a \in [1 .. Len(P) -> T] /\ b \in [1 .. Len(t) -> T]
    OBVIOUS
  <2>2. /\ \A i \in 1 .. Len(P) : a[i] = memory[P[i]].sType
        /\ \A i \in 1 .. Len(t) : b[i] = memory[s[i]].sType
    OBVIOUS
  <2>. HIDE DEF T, a, b
  <2>3. a \in Seq(T) /\ Len(a) = Len(P)
    BY <1>2, <2>1, SeqOfLength
  <2>4. b \in Seq(T) /\ Len(b) = Len(t)
    BY <1>3, <2>1, SeqOfLength
  <2>. QED BY <2>2, <2>3, <2>4
<1>7. \A i \in 1 .. Len(P) : memory'[P[i]].sType = memory[P[i]].sType
  <2>1. \A i \in 1 .. Len(P) : P[i] \in DOMAIN memory /\ P[i] \notin Range(t)
    BY <1>1, <1>2 DEF Linking, Range
  <2>. QED BY <2>1 DEF Continues
<1>8. /\ a \o b \in Seq(T) /\ Len(a \o b) = Len(P) + Len(t)
      /\ \A i \in 1 .. Len(P) + Len(t) : (a \o b)[i] = IF i <= Len(P) THEN a[i] ELSE b[i - Len(P)]
  <2>. HIDE DEF a, b, T
  <2>1. a \in Seq(T) /\ b \in Seq(T)
    BY <1>6
  <2>2. /\ a \o b \in Seq(T) /\ Len(a \o b) = Len(a) + Len(b)
        /\ \A i \in 1 .. Len(a) + Len(b) : (a \o b)[i] = IF i <= Len(a) THEN a[i] ELSE b[i - Len(a)]
    BY <2>1, ConcatBehind
  <2>. QED BY <1>6, <2>2
<1>. HIDE DEF a, b, T
<1>9. ASSUME NEW i \in 1 .. Len(P) + Len(t)
      PROVE  new[i] = (a \o b)[i]
  <2>1. CASE i <= Len(P)
    <3>1. i \in 1 .. Len(P) /\ (P \o t)[i] = P[i] /\ (a \o b)[i] = a[i]
      BY <1>2, <1>3, <1>8, <2>1
    <3>. QED BY <1>6, <1>7, <3>1
  <2>2. CASE ~ (i <= Len(P))
    <3>1. i - Len(P) \in 1 .. Len(t)
      BY <1>2, <1>3, <2>2, BehindIs
    <3>2. (P \o t)[i] = t[i - Len(P)] /\ (a \o b)[i] = b[i - Len(P)]
      BY <1>3, <1>8, <2>2
    <3>. QED BY <1>6, <3>1, <3>2
  <2>. QED BY <2>1, <2>2
<1>10. new \in Seq(T) /\ Len(new) = Len(P) + Len(t)
  <2>1. \A i \in 1 .. Len(P) + Len(t) : (a \o b)[i] \in T
    BY <1>8
  <2>2. new \in [1 .. Len(P) + Len(t) -> T]
    BY <1>9, <2>1
  <2>3. Len(P) + Len(t) \in Nat
    BY <1>2, <1>3
  <2>. HIDE DEF new
  <2>. QED BY <2>2, <2>3
<1>. HIDE DEF new
<1>11. new = a \o b
  BY <1>8, <1>9, <1>10, SeqEqual
<1>. QED BY <1>4, <1>5, <1>11

-----------------------------------------------------------------------------
(* Cloning and appending                                                     *)

(* Copies in free places continue the chain.                                  *)
LEMMA CopiesContinue ==
  ASSUME ChainInvariant, Presentable,
         NEW to \in [DOMAIN given -> FreePlaces], IsInjective(to),
         memory' = WithCopies(given, to), chain' = chain \o Entries(to, TRUE),
         UNCHANGED <<given, chainAborted>>
  PROVE  /\ Continues(to, TRUE) /\ Range(to) \subseteq FreePlaces /\ Len(given) = Len(to)
         /\ \A i \in 1 .. Len(to) : memory'[to[i]].sType = memory[given[i]].sType
<1>. DEFINE Copy(i) == [sType |-> memory[given[i]].sType, pNext |-> Linked(to, i)]
            copies == [p \in Range(to) |->
                         LET i == CHOOSE j \in DOMAIN to : to[j] = p
                         IN  [sType |-> memory[given[i]].sType, pNext |-> Linked(to, i)]]
            old == Relinked(memory, to[1])
<1>1. /\ chain \in Seq(VectorEntry) /\ IsInjective(PlacesIn(chain)) /\ Linking(memory, PlacesIn(chain))
      /\ DOMAIN memory \subseteq Places /\ memory \in [DOMAIN memory -> Structures]
      /\ given \in Seq(Places) /\ Range(given) \subseteq DOMAIN memory /\ given # <<>>
  BY DEF ChainInvariant, Structured, Presentable
<1>2. /\ DOMAIN chain = 1 .. Len(chain) /\ DOMAIN PlacesIn(chain) = 1 .. Len(chain)
      /\ \A i \in 1 .. Len(chain) : PlacesIn(chain)[i] = chain[i].at /\ chain[i].at \in DOMAIN memory
  BY <1>1, PlacesFacts DEF Linking
<1>3. Len(given) \in Nat \ {0} /\ DOMAIN given = 1 .. Len(given)
  BY <1>1, EmptySeq
<1>4. /\ to \in Seq(FreePlaces) /\ Len(to) = Len(given) /\ DOMAIN to = 1 .. Len(to)
      /\ 1 \in DOMAIN to /\ to[1] \in Places /\ to \in Seq(Places) /\ to # <<>>
  <2>1. to \in [1 .. Len(given) -> FreePlaces] /\ to \in [1 .. Len(given) -> Places] /\ Len(given) \in Nat
    BY <1>3 DEF FreePlaces
  <2>2. to \in Seq(FreePlaces) /\ to \in Seq(Places) /\ Len(to) = Len(given)
    BY <2>1, SeqOfLength
  <2>. QED BY <1>3, <2>1, <2>2, EmptySeq
<1>5. Range(to) \subseteq FreePlaces /\ \A i \in DOMAIN to : to[i] \in Range(to)
  BY DEF Range
<1>6. /\ old \in [DOMAIN memory -> Structures]
      /\ \A q \in DOMAIN memory : old[q].sType = memory[q].sType
      /\ \A i \in 1 .. Len(chain) :
           old[chain[i].at].pNext = IF i = Len(chain) THEN to[1] ELSE memory[chain[i].at].pNext
      /\ \A q \in DOMAIN memory : (\A i \in DOMAIN chain : chain[i].at # q) => old[q] = memory[q]
  BY <1>1, <1>2, <1>4, RelinkedFacts
<1>7. memory' = Placed(copies, old)
  BY Zenon DEF WithCopies, Relinked
<1>8. DOMAIN copies = Range(to)
  OBVIOUS
<1>9. ASSUME NEW i \in DOMAIN to
      PROVE  copies[to[i]] = Copy(i)
  <2>1. (CHOOSE j \in DOMAIN to : to[j] = to[i]) = i
    BY DEF IsInjective
  <2>. QED BY <1>5, <2>1, Zenon
<1>10. ASSUME NEW i \in DOMAIN to
       PROVE  /\ Copy(i) \in Structures /\ Copy(i).pNext = Linked(to, i)
              /\ Copy(i).sType = memory[given[i]].sType
  <2>1. given[i] \in Range(given)
    BY DEF Range
  <2>2. memory[given[i]].sType \in STypes \union {Unknown}
    BY <1>1, <2>1 DEF Structures
  <2>3. i \in Int /\ (i # Len(to) => i + 1 \in DOMAIN to)
    BY <1>3, <1>4
  <2>4. Linked(to, i) \in Places \union {Null}
    <3>1. \A j \in DOMAIN to : to[j] \in Places
      BY DEF FreePlaces
    <3>. QED BY <2>3, <3>1 DEF Linked
  <2>. QED BY <2>2, <2>4 DEF Structures
<1>. HIDE DEF copies, old, Copy
<1>11. /\ DOMAIN memory' = DOMAIN memory \union Range(to)
       /\ memory' = [p \in DOMAIN memory' |-> memory'[p]]
       /\ \A p \in Range(to) : memory'[p] = copies[p]
       /\ \A p \in DOMAIN memory : p \notin Range(to) => memory'[p] = old[p]
  <2>. DEFINE m == Placed(copies, old)
  <2>1. /\ m = [p \in DOMAIN m |-> m[p]]
        /\ DOMAIN m = DOMAIN copies \union DOMAIN old
        /\ \A p \in DOMAIN copies : m[p] = copies[p]
        /\ \A p \in DOMAIN old : p \notin DOMAIN copies => m[p] = old[p]
    BY DEF Placed
  <2>2. DOMAIN old = DOMAIN memory
    BY <1>6
  <2>. HIDE DEF m
  <2>3. memory' = m
    BY <1>7 DEF m
  <2>. QED BY <1>8, <2>1, <2>2, <2>3
<1>12. \A i \in DOMAIN to : memory'[to[i]] = Copy(i)
  BY <1>5, <1>9, <1>11
<1>13. memory' \in [DOMAIN memory' -> Structures]
  <2>1. \A p \in Range(to) : memory'[p] \in Structures
    BY <1>10, <1>12 DEF Range
  <2>2. \A p \in DOMAIN memory : old[p] \in Structures
    BY <1>6
  <2>3. \A p \in DOMAIN memory' : memory'[p] \in Structures
    BY <1>11, <2>1, <2>2
  <2>. QED BY <1>11, <2>3
<1>14. Linking(memory', to)
  <2>1. \A i \in DOMAIN to : to[i] \in DOMAIN memory' /\ memory'[to[i]].pNext = Linked(to, i)
    BY <1>5, <1>10, <1>11, <1>12
  <2>. QED BY <2>1 DEF Linking
<1>15. Range(to) \intersect DOMAIN memory = {} /\ Range(to) \subseteq Places
  BY <1>5 DEF FreePlaces
<1>16. Range(to) \intersect Range(PlacesIn(chain)) = {}
  BY <1>2, <1>15 DEF Range
<1>17. \A i \in 1 .. Len(chain) :
         memory'[chain[i].at].pNext = IF i = Len(chain) THEN to[1] ELSE memory[chain[i].at].pNext
  <2>1. \A i \in 1 .. Len(chain) : memory'[chain[i].at] = old[chain[i].at]
    BY <1>2, <1>11, <1>15
  <2>. QED BY <1>6, <2>1
<1>18. /\ \A q \in DOMAIN memory : q \notin Range(to) => memory'[q].sType = memory[q].sType
       /\ \A q \in DOMAIN memory :
            q \notin Range(to) /\ (\A i \in DOMAIN chain : chain[i].at # q) => memory'[q] = memory[q]
  BY <1>6, <1>11
<1>19. DOMAIN memory' \subseteq Places
  BY <1>1, <1>11, <1>15
<1>20. Continues(to, TRUE)
  BY <1>4, <1>11, <1>13, <1>14, <1>16, <1>17, <1>18, <1>19 DEF Continues
<1>21. \A i \in 1 .. Len(to) : memory'[to[i]].sType = memory[given[i]].sType
  BY <1>4, <1>10, <1>12
<1>. QED BY <1>4, <1>5, <1>20, <1>21

(* Cloning aborts or appends all that was handed in.                          *)
LEMMA CloneKeeps ==
  ASSUME ChainInvariant, CloneInto(chain)
  PROVE  /\ ChainInvariant'
         /\ \/ STypesAt(ChainPlaces)' = STypesAt(ChainPlaces) \o STypesAt(Walk(given[1]))
            \/ chainAborted'
<1>1. Presentable /\ given' = given
  BY DEF CloneInto
<1>2. Walk(given[1]) = given
  BY <1>1, PresentedWalk
<1>3. CASE chainAborted' = TRUE /\ UNCHANGED <<memory, chain>>
  BY <1>1, <1>3 DEF ChainInvariant
<1>4. CASE /\ \E to \in [DOMAIN given -> FreePlaces] :
                /\ IsInjective(to)
                /\ memory' = WithCopies(given, to)
                /\ chain' = chain \o Entries(to, TRUE)
           /\ UNCHANGED chainAborted
  <2>1. PICK to \in [DOMAIN given -> FreePlaces] :
          IsInjective(to) /\ memory' = WithCopies(given, to) /\ chain' = chain \o Entries(to, TRUE)
    BY <1>4
  <2>2. /\ Continues(to, TRUE) /\ Range(to) \subseteq FreePlaces /\ Len(given) = Len(to)
        /\ \A i \in 1 .. Len(to) : memory'[to[i]].sType = memory[given[i]].sType
    BY <1>1, <1>4, <2>1, CopiesContinue
  <2>3. given \in Seq(Places) /\ Range(given) \subseteq DOMAIN memory
    BY DEF ChainInvariant, Structured
  <2>4. Range(to) \intersect Range(given) = {}
    BY <2>2, <2>3 DEF FreePlaces
  <2>5. ChainInvariant'
    BY <2>2, <2>4, ContinuedKeeps
  <2>6. STypesAt(ChainPlaces)' = STypesAt(ChainPlaces) \o STypesAt(given)
    BY <2>2, <2>3, ContinuedTypes
  <2>. QED BY <1>2, <2>5, <2>6
<1>. QED BY <1>1, <1>2, <1>3, <1>4 DEF CloneInto

(* The caller's one structure continues the chain.                            *)
LEMMA AppendGivenKeeps ==
  ASSUME ChainInvariant, AppendGiven, LongAppends = FALSE
  PROVE  /\ ChainInvariant'
         /\ STypesAt(ChainPlaces)' = STypesAt(ChainPlaces) \o STypesAt(Walk(given[1]))
<1>. DEFINE g == given[1]  t == <<g>>
            cleared == [memory EXCEPT ![g].pNext = Null]
<1>1. /\ Presentable /\ Len(given) = 1 /\ g \notin Range(ChainPlaces)
      /\ memory' = Relinked(cleared, g)
      /\ chain' = chain \o Entries(t, FALSE) /\ given' = given /\ chainAborted' = chainAborted
  BY DEF AppendGiven, Relinked
<1>2. /\ chain \in Seq(VectorEntry) /\ IsInjective(PlacesIn(chain)) /\ Linking(memory, PlacesIn(chain))
      /\ DOMAIN memory \subseteq Places /\ memory \in [DOMAIN memory -> Structures]
      /\ given \in Seq(Places) /\ Range(given) \subseteq DOMAIN memory
  BY DEF ChainInvariant, Structured
<1>3. /\ DOMAIN chain = 1 .. Len(chain) /\ DOMAIN PlacesIn(chain) = 1 .. Len(chain)
      /\ \A i \in 1 .. Len(chain) : PlacesIn(chain)[i] = chain[i].at /\ chain[i].at \in DOMAIN memory
  BY <1>2, PlacesFacts DEF Linking
<1>4. /\ DOMAIN given = 1 .. 1 /\ Range(given) = {g} /\ g \in Places /\ g \in DOMAIN memory
  BY <1>1, <1>2 DEF Range
<1>5. PlacesIn(chain) = ChainPlaces
  BY DEF PlacesIn, ChainPlaces
<1>6. \A i \in 1 .. Len(chain) : chain[i].at # g
  BY <1>1, <1>3, <1>5 DEF Range
<1>7. /\ DOMAIN cleared = DOMAIN memory /\ cleared \in [DOMAIN memory -> Structures]
      /\ \A q \in DOMAIN memory : q # g => cleared[q] = memory[q]
      /\ cleared[g].pNext = Null /\ cleared[g].sType = memory[g].sType
  <2>1. memory[g] \in Structures
    BY <1>2, <1>4
  <2>2. /\ [memory[g] EXCEPT !.pNext = Null] \in Structures
        /\ [memory[g] EXCEPT !.pNext = Null].pNext = Null
        /\ [memory[g] EXCEPT !.pNext = Null].sType = memory[g].sType
    BY <2>1 DEF Structures
  <2>. QED BY <1>2, <1>4, <2>2
<1>. HIDE DEF cleared, g
<1>8. /\ Relinked(cleared, g) \in [DOMAIN cleared -> Structures]
      /\ \A q \in DOMAIN cleared : Relinked(cleared, g)[q].sType = cleared[q].sType
      /\ \A i \in 1 .. Len(chain) :
           Relinked(cleared, g)[chain[i].at].pNext = IF i = Len(chain) THEN g ELSE cleared[chain[i].at].pNext
      /\ \A q \in DOMAIN cleared :
           (\A i \in DOMAIN chain : chain[i].at # q) => Relinked(cleared, g)[q] = cleared[q]
  <2>1. /\ DOMAIN cleared \subseteq Places /\ cleared \in [DOMAIN cleared -> Structures]
        /\ \A i \in DOMAIN chain : chain[i].at \in DOMAIN cleared
    BY <1>2, <1>3, <1>7
  <2>. QED BY <1>2, <1>4, <2>1, RelinkedFacts
<1>9. /\ t \in Seq(Places) /\ t # <<>> /\ Len(t) = 1 /\ DOMAIN t = 1 .. 1 /\ t[1] = g
      /\ IsInjective(t) /\ Range(t) = {g}
  BY <1>4 DEF IsInjective, Range
<1>. HIDE DEF t
<1>10. DOMAIN memory' = DOMAIN memory /\ memory' \in [DOMAIN memory' -> Structures]
  BY <1>1, <1>7, <1>8
<1>11. memory'[g] = cleared[g]
  BY <1>1, <1>3, <1>4, <1>6, <1>7, <1>8
<1>12. Linking(memory', t)
  BY <1>4, <1>7, <1>9, <1>10, <1>11 DEF Linking, Linked
<1>13. \A i \in 1 .. Len(chain) :
         memory'[chain[i].at].pNext = IF i = Len(chain) THEN t[1] ELSE memory[chain[i].at].pNext
  BY <1>1, <1>3, <1>6, <1>7, <1>8, <1>9
<1>14. /\ \A q \in DOMAIN memory : q \notin Range(t) => memory'[q].sType = memory[q].sType
       /\ \A q \in DOMAIN memory :
            q \notin Range(t) /\ (\A i \in DOMAIN chain : chain[i].at # q) => memory'[q] = memory[q]
  BY <1>1, <1>7, <1>8, <1>9
<1>15. Range(t) \intersect Range(PlacesIn(chain)) = {}
  BY <1>1, <1>5, <1>9
<1>16. Continues(t, FALSE)
  <2>1. DOMAIN memory' = DOMAIN memory \union Range(t) /\ DOMAIN memory' \subseteq Places
    BY <1>2, <1>4, <1>9, <1>10
  <2>. QED BY <1>1, <1>9, <1>10, <1>12, <1>13, <1>14, <1>15, <2>1 DEF Continues
<1>17. ChainInvariant'
  <2>1. Range(t) = {given[1]}
    BY <1>9 DEF g
  <2>. QED BY <1>1, <1>16, <2>1, ContinuedKeeps
<1>18. STypesAt(ChainPlaces)' = STypesAt(ChainPlaces) \o STypesAt(given)
  <2>1. memory'[t[1]].sType = memory[given[1]].sType
    BY <1>7, <1>9, <1>11 DEF g
  <2>2. \A i \in 1 .. Len(t) : memory'[t[i]].sType = memory[given[i]].sType
    BY <1>9, <2>1
  <2>. QED BY <1>1, <1>2, <1>9, <1>16, <2>2, ContinuedTypes
<1>19. Walk(given[1]) = given
  BY <1>1, PresentedWalk
<1>. QED BY <1>17, <1>18, <1>19

LEMMA ChainInitially == ChainInit => ChainInvariant
<1>. SUFFICES ASSUME ChainInit PROVE ChainInvariant
  OBVIOUS
<1>1. /\ DOMAIN memory = {} /\ memory = [p \in {} |-> memory[p]]
      /\ chain = <<>> /\ given = <<>> /\ chainAborted = FALSE
  BY DEF ChainInit
<1>2. /\ PlacesIn(<<>>) = <<>> /\ Range(<<>>) = {} /\ IsInjective(<<>>) /\ DOMAIN <<>> = {}
      /\ <<>> \in Seq(VectorEntry) /\ <<>> \in Seq(Places)
  BY DEF PlacesIn, Range, IsInjective
<1>3. Linking(memory, <<>>) /\ GivenLinked(memory, <<>>, <<>>) /\ EntriesApart(<<>>, <<>>)
  BY <1>2 DEF Linking, GivenLinked, EntriesApart
<1>4. memory \in [DOMAIN memory -> Structures]
  BY <1>1
<1>5. Structured(memory, <<>>, <<>>)
  BY <1>1, <1>2, <1>3, <1>4 DEF Structured
<1>. QED BY <1>1, <1>5 DEF ChainInvariant

LEMMA ChainStep ==
  ASSUME LongAppends = FALSE, ChainInvariant, [ChainNext]_chainVars
  PROVE  ChainInvariant'
<1>1. CASE UNCHANGED chainVars
  BY <1>1 DEF ChainInvariant, chainVars
<1>2. ASSUME NEW n \in 1 .. MaxChain, NEW sTypes \in [1 .. n -> STypes \union {Unknown}], MakeGiven(sTypes)
      PROVE  ChainInvariant'
  BY <1>2, MakeGivenKeeps
<1>3. CASE DropGiven
  BY <1>3, DropGivenKeeps
<1>4. CASE CloneVkStructureChain
  <2>1. CloneInto(chain)
    BY <1>4 DEF CloneVkStructureChain
  <2>. QED BY <2>1, CloneKeeps
<1>5. CASE AppendCopies
  BY <1>5, CloneKeeps DEF AppendCopies
<1>6. CASE AppendGiven
  BY <1>6, AppendGivenKeeps
<1>7. CASE DropChain
  BY <1>7, DropChainKeeps
<1>. QED BY <1>1, <1>2, <1>3, <1>4, <1>5, <1>6, <1>7 DEF ChainNext, ChainCall

(* As long as chains of several structures are only copied, never lent, the   *)
(* list the driver walks is the chain of the vector, and an append adds all   *)
(* it is given (cloneVkStructureChain, appendVkStructureChain).                *)
THEOREM ChainsAlwaysHold == ASSUME LongAppends = FALSE PROVE ChainSpec => ChainsHold
<1>1. ChainInvariant /\ [ChainNext]_chainVars => ChainInvariant'
  BY ChainStep
<1>2. ChainInvariant => [AppendCopies \/ AppendGiven => STypesAt(ChainPlaces)' =
                           STypesAt(ChainPlaces) \o STypesAt(Walk(given[1]))
                         \/ chainAborted']_chainVars
  BY CloneKeeps, AppendGivenKeeps DEF AppendCopies
<1>. QED BY <1>1, <1>2, ChainInitially, InvariantLinks, PTL DEF ChainSpec, ChainsHold, AppendsAll
=============================================================================
