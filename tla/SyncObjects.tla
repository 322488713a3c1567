----------------------------- MODULE SyncObjects -----------------------------
(***************************************************************************)
(* src/device/sync/sync.cpp: the syncObjectManager, which lends binary     *)
(* semaphores and fences and keeps those it gets back on two stacks.       *)
(* Borrowers are the contexts and swapchains of a device: they make the    *)
(* GPU signal a fence, reset it, and return what they hold in any order.   *)
(***************************************************************************)
EXTENDS Naturals, Sequences, FiniteSets, Functions

CONSTANTS
  Semaphores,   \* handles the driver may give to a VkSemaphore
  Fences        \* handles the driver may give to a VkFence

VARIABLES
  freeSemaphores,  \* stack, the last returned at the end
  freeFences,      \* stack, likewise
  lentSemaphores,  \* on loan to borrowers
  lentFences,
  signaled,        \* the fences whose payload is set
  fatal            \* a fence was returned unsignaled

vars == <<freeSemaphores, freeFences, lentSemaphores, lentFences, signaled, fatal>>

Init ==
  /\ freeSemaphores = <<>>
  /\ freeFences = <<>>
  /\ lentSemaphores = {}
  /\ lentFences = {}
  /\ signaled = {}
  /\ fatal = FALSE

Top(stack) == stack[Len(stack)]

(* Fault: the handle lent stays on the stack. *)
Peek(stack) == stack

(* vector::dequeueBack leaves all but the last *)
Pop(stack) == SubSeq(stack, 1, Len(stack) - 1)

(* vector::pushBack *)
Push(stack, handle) == Append(stack, handle)

(* acquireBinarySemaphore *)
AcquireBinarySemaphore ==
  /\ ~ fatal
  /\ \/ /\ freeSemaphores # <<>>
        /\ lentSemaphores' = lentSemaphores \union {Top(freeSemaphores)}
        /\ freeSemaphores' = Pop(freeSemaphores)
     \/ /\ freeSemaphores = <<>>
        /\ \E s \in Semaphores \ lentSemaphores :
             lentSemaphores' = lentSemaphores \union {s}
        /\ UNCHANGED freeSemaphores
  /\ UNCHANGED <<freeFences, lentFences, signaled, fatal>>

(* releaseBinarySemaphore *)
ReleaseBinarySemaphore(s) ==
  /\ ~ fatal
  /\ s \in lentSemaphores
  /\ freeSemaphores' = Push(freeSemaphores, s)
  /\ lentSemaphores' = lentSemaphores \ {s}
  /\ UNCHANGED <<freeFences, lentFences, signaled, fatal>>

(* The payload of a fence taken from the stack: vkResetFences unless the     *)
(* caller wants it signaled, in which case it is taken as it is.            *)
Recycled(f, signal) == IF signal THEN signaled ELSE signaled \ {f}

(* acquireFence(signal) *)
AcquireFence(signal) ==
  /\ ~ fatal
  /\ \/ /\ freeFences # <<>>
        /\ lentFences' = lentFences \union {Top(freeFences)}
        /\ freeFences' = Pop(freeFences)
        /\ signaled' = Recycled(Top(freeFences), signal)
     \/ /\ freeFences = <<>>
        /\ \E f \in Fences \ lentFences :
             /\ lentFences' = lentFences \union {f}
             /\ signaled' = IF signal THEN signaled \union {f} ELSE signaled \ {f}
        /\ UNCHANGED freeFences
  /\ UNCHANGED <<freeSemaphores, lentSemaphores, fatal>>

(* Fault: the payload is not looked at. *)
ReturnableAlways(f) == TRUE

(* vkWaitForFences with a timeout of 0 *)
Returnable(f) == f \in signaled

(* releaseFence *)
ReleaseFence(f) ==
  /\ ~ fatal
  /\ f \in lentFences
  /\ \/ /\ Returnable(f)
        /\ freeFences' = Push(freeFences, f)
        /\ lentFences' = lentFences \ {f}
        /\ UNCHANGED fatal
     \/ /\ ~ Returnable(f)
        /\ fatal' = TRUE
        /\ UNCHANGED <<freeFences, lentFences>>
  /\ UNCHANGED <<freeSemaphores, lentSemaphores, signaled>>

(* clear, when the device is destroyed *)
Clear ==
  /\ ~ fatal
  /\ freeSemaphores' = <<>>
  /\ freeFences' = <<>>
  /\ UNCHANGED <<lentSemaphores, lentFences, signaled, fatal>>

(* What borrowers do with a fence they hold, and with a semaphore that is    *)
(* no longer needed by anyone.                                              *)
UseFence(f) ==
  /\ ~ fatal
  /\ f \in lentFences
  /\ signaled' \in {signaled \union {f}, signaled \ {f}}
  /\ UNCHANGED <<freeSemaphores, freeFences, lentSemaphores, lentFences, fatal>>

DestroySemaphore(s) ==
  /\ ~ fatal
  /\ s \in lentSemaphores
  /\ lentSemaphores' = lentSemaphores \ {s}
  /\ UNCHANGED <<freeSemaphores, freeFences, lentFences, signaled, fatal>>

Aborted == fatal /\ UNCHANGED vars

Next ==
  \/ AcquireBinarySemaphore
  \/ \E s \in Semaphores : ReleaseBinarySemaphore(s) \/ DestroySemaphore(s)
  \/ \E signal \in BOOLEAN : AcquireFence(signal)
  \/ \E f \in Fences : ReleaseFence(f) \/ UseFence(f)
  \/ Clear
  \/ Aborted

Spec == Init /\ [][Next]_vars
-----------------------------------------------------------------------------
(* Type invariant *)
TypeOK ==
  /\ freeSemaphores \in Seq(Semaphores)
  /\ freeFences \in Seq(Fences)
  /\ lentSemaphores \subseteq Semaphores
  /\ lentFences \subseteq Fences
  /\ signaled \subseteq Fences
  /\ fatal \in BOOLEAN

(* No handle is on a stack twice, nor there while a borrower holds it.      *)
StacksExclusive ==
  /\ IsInjective(freeSemaphores) /\ Range(freeSemaphores) \intersect lentSemaphores = {}
  /\ IsInjective(freeFences) /\ Range(freeFences) \intersect lentFences = {}

(* acquireFence leans on releaseFence's check: it hands out a recycled fence *)
(* untouched when it is asked for a signaled one.                           *)
FreeFencesSignaled == Range(freeFences) \subseteq signaled

(* A fence comes out of acquireFence with the payload that was asked for.   *)
FencesAsAsked ==
  [][\A signal \in BOOLEAN : AcquireFence(signal) =>
       \A f \in lentFences' \ lentFences : f \in signaled' <=> signal]_vars

SemaphorePool == INSTANCE SyncPool WITH
  Handles <- Semaphores, BorrowersDestroy <- TRUE,
  free <- Range(freeSemaphores), lent <- lentSemaphores
FencePool == INSTANCE SyncPool WITH
  Handles <- Fences, BorrowersDestroy <- FALSE,
  free <- Range(freeFences), lent <- lentFences

(* Both stacks keep the promise of the pool.                                *)
SemaphoresPooled == SemaphorePool!Spec
FencesPooled == FencePool!Spec

(* The stacks hold each handle once, never one that is lent, and no fence     *)
(* that acquireFence could not hand out as signaled.                          *)
StacksSafe == TypeOK /\ StacksExclusive /\ FreeFencesSignaled

(* What a caller of the syncObjectManager relies on: two pools, and fences    *)
(* with the payload asked for.                                                *)
StacksArePools == SemaphoresPooled /\ FencesPooled /\ FencesAsAsked
=============================================================================
