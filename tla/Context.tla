------------------------------- MODULE Context -------------------------------
(***************************************************************************)
(* src/context/context.cpp: the frames of a context, and the whole of      *)
(* vkm's presentation machinery around it.  The host is single-threaded;   *)
(* it runs against the GPU and the presentation engine of module Vulkan,   *)
(* and uses the swapchains of module Swapchain.                            *)
(*                                                                         *)
(* A frame slot remembers, in pendingSemaphoreValue, the last timeline     *)
(* value submitted when it was used, and gives up what the slot collected  *)
(* (destroyers, scratch buffers, semaphores, command buffers) when it      *)
(* comes around again and that value has been reached.                     *)
(***************************************************************************)
EXTENDS Swapchain

CONSTANTS
  MaxPendingFrames,  \* info.maxPendingFrames of vkm_createContext
  Objects,           \* what the client destroys through vkm_context_queueDestroyer
  Buffers,           \* handles of vkm_context_createScratchHostBuffer
  MaxValue,          \* bound: submissions in the life of one context
  MaxWaits,          \* bound: semaphores in the wait list of one slot
  MaxPresents,       \* bound: swapchains presented by one submission
  Liberties          \* what the client does beyond the discipline of the README

NumFrames == IF MaxPendingFrames = 0 THEN 1 ELSE MaxPendingFrames
Frames == 0 .. NumFrames - 1

ASSUME ContextAssumption ==
  /\ MaxPendingFrames \in Nat
  /\ MaxValue \in Nat
  /\ MaxWaits \in Nat
  /\ MaxPresents \in Nat
  /\ Objects \intersect Buffers = {}
  /\ Liberties \subseteq {"carryAcquire", "resizeAcquired", "reentrant"}

VARIABLES
  alive,                  \* the context exists
  inFrame,                \* the client is between begin and end
  frameID,                \* ctx->frameID
  pendingValue,           \* ctx->semaphore.pendingValue
  pendingSemaphoreValue,  \* frame.pendingSemaphoreValue, per slot
  acquiredCommandBuffers, submittedCommandBuffers,    \* per slot
  pendingBinarySemaphores,                            \* per slot, a set
  pendingWaitSemaphores,                              \* per slot, in order
  pendingScratchBuffers, pendingDestroyers,           \* per slot, sets
  presenting,             \* endCommandBuffer's presents still to be made
  live,                   \* the objects and buffers that exist
  doomed,                 \* the objects ever handed to queueDestroyer
  fatal                   \* how the process died, "no" while it runs

frameVars ==
  <<pendingSemaphoreValue, acquiredCommandBuffers, submittedCommandBuffers,
    pendingBinarySemaphores, pendingWaitSemaphores, pendingScratchBuffers,
    pendingDestroyers>>
contextVars ==
  <<alive, inFrame, frameID, pendingValue, frameVars, presenting, live, doomed>>
vars == <<gpuVars, swapchainVars, contextVars, fatal>>

Resources == Objects \union Buffers
-----------------------------------------------------------------------------
(* The host is at rest: no call in progress, and it has not aborted. *)
Running == fatal = "no" /\ presenting = <<>>

ActiveCommandBuffer == acquiredCommandBuffers[frameID] # submittedCommandBuffers[frameID]

(* Binary semaphores the slots of the context have on loan. *)
HeldByFrames == UNION {pendingBinarySemaphores[f] : f \in Frames}

Fatal(why) ==
  /\ fatal' = why
  /\ UNCHANGED <<gpuVars, swapchainVars, contextVars>>

(* vkm_semaphore_timeline_wait(value) returns, or dies after its second: a  *)
(* driver that can still make progress is assumed to make it in time.       *)
Reached(value) == timeline >= value
TimesOut(value) == timeline < value /\ Stuck /\ Fatal("wait")
-----------------------------------------------------------------------------
(* vkm_createContext *)
FreshFrames ==
  /\ frameID' = 0
  /\ pendingValue' = 0
  /\ timeline' = 0
  /\ pendingSemaphoreValue' = [f \in Frames |-> 0]
  /\ acquiredCommandBuffers' = [f \in Frames |-> 0]
  /\ submittedCommandBuffers' = [f \in Frames |-> 0]
  /\ pendingBinarySemaphores' = [f \in Frames |-> {}]
  /\ pendingWaitSemaphores' = [f \in Frames |-> <<>>]
  /\ pendingScratchBuffers' = [f \in Frames |-> {}]
  /\ pendingDestroyers' = [f \in Frames |-> {}]

CreateContext ==
  /\ Running /\ ~ alive
  /\ alive' = TRUE
  /\ FreshFrames
  /\ UNCHANGED <<queue, binary, acquiring, fence, presents, engine, swapchainVars,
                 inFrame, presenting, live, doomed, fatal>>

(* Fault: the slot's destroyers are dropped without being run. *)
RetiredBuffers(f) == pendingScratchBuffers[f]

(* What slot f destroys when it is given up. *)
Retired(f) == pendingDestroyers[f] \union pendingScratchBuffers[f]

(* What the destroyers D may hand to queueDestroyer as they run: it lands in *)
(* the list of slot frameID.  (That this list may be reallocated while it is *)
(* walked is left out: the model takes the outcome that does no harm.)      *)
QueuedByDestroyers(D) ==
  IF "reentrant" \in Liberties /\ D # {} THEN SUBSET ((live \intersect Objects) \ doomed)
  ELSE {{}}

DestroyersOf(S) == UNION {pendingDestroyers[f] : f \in S}

(* vkm_destroyContext goes through the slots in order: what is queued before *)
(* it comes to slot frameID is run there, what is queued later is forgotten. *)
DestroyContext ==
  /\ Running /\ alive
  /\ "carryAcquire" \in Liberties \/ pendingWaitSemaphores[frameID] = <<>>
  /\ \/ /\ Reached(pendingValue)
        /\ \E Q \in QueuedByDestroyers(DestroyersOf(0 .. frameID - 1)) :
             \E L \in QueuedByDestroyers(DestroyersOf(frameID .. NumFrames - 1) \union Q) :
               /\ Q \intersect L = {}
               /\ live' = (live \ UNION {Retired(f) : f \in Frames}) \ Q
               /\ doomed' = doomed \union Q \union L
        /\ freeSemaphores' = freeSemaphores \union HeldByFrames
        /\ alive' = FALSE
        /\ inFrame' = FALSE
        /\ FreshFrames
        /\ UNCHANGED <<queue, binary, acquiring, fence, presents, engine, swapchains,
                       images, imageIndex, settings, vkSwapchain, result, freeFences,
                       presenting, fatal>>
     \/ TimesOut(pendingValue)

(* Fault: begin is one submission short of what the slot waits for. *)
SlotAlmostDone(f) == Reached(pendingSemaphoreValue[f] - 1)

(* Fault: begin does not wait. *)
SlotAssumedDone(f) == TRUE

(* vkm_context_begin: resizing pendingDestroyers to 0 forgets what the      *)
(* destroyers it just ran have queued.                                      *)
SlotDone(f) == Reached(pendingSemaphoreValue[f])

Begin ==
  /\ Running /\ alive /\ ~ inFrame
  /\ \/ /\ SlotDone(frameID)
        /\ ~ ActiveCommandBuffer
        /\ \E Q \in QueuedByDestroyers(pendingDestroyers[frameID]) :
             doomed' = doomed \union Q
        /\ live' = live \ Retired(frameID)
        /\ pendingDestroyers' = [pendingDestroyers EXCEPT ![frameID] = {}]
        /\ pendingScratchBuffers' = [pendingScratchBuffers EXCEPT ![frameID] = {}]
        /\ freeSemaphores' = freeSemaphores \union pendingBinarySemaphores[frameID]
        /\ pendingBinarySemaphores' = [pendingBinarySemaphores EXCEPT ![frameID] = {}]
        /\ acquiredCommandBuffers' = [acquiredCommandBuffers EXCEPT ![frameID] = 0]
        /\ submittedCommandBuffers' = [submittedCommandBuffers EXCEPT ![frameID] = 0]
        /\ inFrame' = TRUE
        /\ UNCHANGED <<gpuVars, swapchains, images, imageIndex, settings, vkSwapchain,
                       result, freeFences, alive, frameID, pendingValue,
                       pendingSemaphoreValue, pendingWaitSemaphores, presenting, fatal>>
     \/ TimesOut(pendingSemaphoreValue[frameID])

(* vkm_context_queueDestroyer *)
QueueDestroyer(o) ==
  /\ Running /\ inFrame
  /\ o \in live \ doomed
  /\ pendingDestroyers' = [pendingDestroyers EXCEPT ![frameID] = @ \union {o}]
  /\ doomed' = doomed \union {o}
  /\ UNCHANGED <<gpuVars, swapchainVars, alive, inFrame, frameID, pendingValue,
                 pendingSemaphoreValue, acquiredCommandBuffers, submittedCommandBuffers,
                 pendingBinarySemaphores, pendingWaitSemaphores, pendingScratchBuffers,
                 presenting, live, fatal>>

(* vkm_context_createScratchHostBuffer *)
CreateScratchHostBuffer(b) ==
  /\ Running /\ inFrame
  /\ b \notin live
  /\ live' = live \union {b}
  /\ pendingScratchBuffers' = [pendingScratchBuffers EXCEPT ![frameID] = @ \union {b}]
  /\ UNCHANGED <<gpuVars, swapchainVars, alive, inFrame, frameID, pendingValue,
                 pendingSemaphoreValue, acquiredCommandBuffers, submittedCommandBuffers,
                 pendingBinarySemaphores, pendingWaitSemaphores, pendingDestroyers,
                 presenting, doomed, fatal>>
-----------------------------------------------------------------------------
(* Fault: the semaphore stays in the free list. *)
EnlistedByCopy(s) ==
  /\ pendingBinarySemaphores' = [pendingBinarySemaphores EXCEPT ![frameID] = @ \union {s}]
  /\ pendingWaitSemaphores' = [pendingWaitSemaphores EXCEPT ![frameID] = Append(@, s)]
  /\ UNCHANGED freeSemaphores

(* Fault: the submission will not wait for the acquired image. *)
EnlistedToRelease(s) ==
  /\ pendingBinarySemaphores' = [pendingBinarySemaphores EXCEPT ![frameID] = @ \union {s}]
  /\ freeSemaphores' = freeSemaphores \ {s}
  /\ UNCHANGED pendingWaitSemaphores

(* vkm_context_acquireSwapchain, one entry of infos: the semaphore joins   *)
(* the slot's lists before the answer is known.                            *)
Enlisted(s) ==
  /\ pendingBinarySemaphores' = [pendingBinarySemaphores EXCEPT ![frameID] = @ \union {s}]
  /\ pendingWaitSemaphores' = [pendingWaitSemaphores EXCEPT ![frameID] = Append(@, s)]
  /\ freeSemaphores' = freeSemaphores \ {s}

HeldByImages == UNION {ImageSemaphores(sc) : sc \in Swapchains}

AcquireSwapchain(sc) ==
  /\ Running /\ inFrame
  /\ sc \in swapchains /\ result[sc] = "SUCCESS"
  /\ pendingValue < MaxValue
  /\ Len(pendingWaitSemaphores[frameID]) < MaxWaits
  /\ \/ /\ imageIndex[sc] = NoIndex
        /\ \E s \in Semaphores :
             /\ Acquirable({s}, freeSemaphores, HeldByFrames \union HeldByImages)
             /\ Enlisted(s)
             /\ \/ \E i \in DOMAIN images[sc] : ImageAcquired(sc, s, i)
                \/ ImageRefused(sc)
        /\ UNCHANGED <<swapchains, images, settings, vkSwapchain, result, freeFences,
                       alive, inFrame, frameID, pendingValue, pendingSemaphoreValue,
                       acquiredCommandBuffers, submittedCommandBuffers,
                       pendingScratchBuffers, pendingDestroyers, presenting, live,
                       doomed, fatal>>
     \/ /\ imageIndex[sc] = NoIndex
        /\ \E i \in Image \ DOMAIN images[sc] : engine[sc][i] = "available"
        /\ Fatal("abort")
     \/ imageIndex[sc] # NoIndex /\ Fatal("misuse")

(* vkm_context_beginCommandBuffer *)
BeginCommandBuffer ==
  /\ Running /\ inFrame
  /\ pendingValue < MaxValue
  /\ \/ /\ ~ ActiveCommandBuffer
        /\ acquiredCommandBuffers' = [acquiredCommandBuffers EXCEPT ![frameID] = @ + 1]
        /\ UNCHANGED <<gpuVars, swapchainVars, alive, inFrame, frameID, pendingValue,
                       pendingSemaphoreValue, submittedCommandBuffers,
                       pendingBinarySemaphores, pendingWaitSemaphores,
                       pendingScratchBuffers, pendingDestroyers, presenting, live,
                       doomed, fatal>>
     \/ ActiveCommandBuffer /\ Fatal("misuse")

(* What the client may record into a command buffer: what exists, unless it *)
(* was given up in an earlier frame.                                        *)
Usable == live \ UNION {Retired(f) : f \in Frames \ {frameID}}

(* vkm_context_endCommandBuffer up to vkQueueSubmit2.  "uses" is what the   *)
(* command buffer refers to, "scs" the swapchains of pPresentInfos.         *)
Batch(uses, scs) ==
  [value   |-> pendingValue + 1,
   waits   |-> pendingWaitSemaphores[frameID],
   signals |-> {AcquiredImage(scs[i]).semaphore : i \in DOMAIN scs},
   uses    |-> uses,
   slot    |-> frameID,
   cb      |-> submittedCommandBuffers[frameID] + 1]

(* Fault: the next submission of the slot waits for the same semaphores. *)
WaitsKept == UNCHANGED pendingWaitSemaphores

WaitsForgotten ==
  pendingWaitSemaphores' = [pendingWaitSemaphores EXCEPT ![frameID] = <<>>]

Submit(uses, scs) ==
  /\ queue' = Append(queue, Batch(uses, scs))
  /\ binary' = [s \in Semaphores |->
                  IF s \in Batch(uses, scs).signals THEN "pending" ELSE binary[s]]
  /\ pendingValue' = pendingValue + 1
  /\ WaitsForgotten
  /\ submittedCommandBuffers' = [submittedCommandBuffers EXCEPT ![frameID] = @ + 1]
  /\ presenting' = scs

(* Without an active command buffer the process dies by the library's test,  *)
(* or just before it by the index of a command buffer the slot never had.   *)
EndCommandBuffer(uses, scs) ==
  /\ Running /\ inFrame
  /\ \/ /\ ActiveCommandBuffer
        /\ \A i \in DOMAIN scs : Presentable(scs[i])
        /\ Submit(uses, scs)
        /\ UNCHANGED <<timeline, acquiring, fence, presents, engine, swapchainVars,
                       alive, inFrame, frameID, pendingSemaphoreValue,
                       acquiredCommandBuffers, pendingBinarySemaphores,
                       pendingScratchBuffers, pendingDestroyers, live, doomed, fatal>>
     \/ /\ ActiveCommandBuffer
        /\ \E i \in DOMAIN scs : imageIndex[scs[i]] = NoIndex
        /\ Fatal("misuse")
     \/ /\ ActiveCommandBuffer
        /\ \E i \in DOMAIN scs : imageIndex[scs[i]] \notin DOMAIN images[scs[i]] \union {NoIndex}
        /\ Fatal("abort")
     \/ ~ ActiveCommandBuffer /\ Fatal("misuse")

(* The rest of vkm_context_endCommandBuffer: one present after the other,   *)
(* each blocking on the fence of its image.                                 *)
PresentNext ==
  /\ fatal = "no" /\ presenting # <<>>
  /\ LET sc == Head(presenting) IN
     \/ /\ imageIndex[sc] # NoIndex
        /\ ImagePresented(sc)
        /\ presenting' = Tail(presenting)
        /\ UNCHANGED <<alive, inFrame, frameID, pendingValue, frameVars, live, doomed, fatal>>
     \/ /\ imageIndex[sc] # NoIndex
        /\ ~ PresentWaited(sc) /\ Stuck
        /\ Fatal("wait")
     \/ imageIndex[sc] = NoIndex /\ Fatal("misuse")

(* vkm_context_end *)
NextFrame(f) == (f + 1) % NumFrames

End ==
  /\ Running /\ inFrame
  /\ "carryAcquire" \in Liberties \/ pendingWaitSemaphores[frameID] = <<>>
  /\ \/ /\ ~ ActiveCommandBuffer
        /\ pendingSemaphoreValue' = [pendingSemaphoreValue EXCEPT ![frameID] = pendingValue]
        /\ frameID' = NextFrame(frameID)
        /\ inFrame' = FALSE
        /\ UNCHANGED <<gpuVars, swapchainVars, alive, pendingValue,
                       acquiredCommandBuffers, submittedCommandBuffers,
                       pendingBinarySemaphores, pendingWaitSemaphores,
                       pendingScratchBuffers, pendingDestroyers, presenting, live,
                       doomed, fatal>>
     \/ ActiveCommandBuffer /\ Fatal("misuse")

(* vkm_context_wait *)
Wait ==
  /\ Running /\ alive
  /\ \/ Reached(pendingValue) /\ UNCHANGED vars
     \/ TimesOut(pendingValue)
-----------------------------------------------------------------------------
(* The swapchain calls, which the client may make at any time.             *)

Preferred == Preferences \X Extents

(* With an image acquired a disciplined client presents before it resizes. *)
MayResize(sc) ==
  /\ sc \in swapchains
  /\ "resizeAcquired" \in Liberties \/ imageIndex[sc] = NoIndex

CreateSwapchain(sc) ==
  /\ Running /\ sc \notin swapchains
  /\ \E p \in Preferred : SwapchainCreated(sc, p[1], p[2], HeldByFrames)
  /\ UNCHANGED <<contextVars, fatal>>

ChangeVkPresentMode(sc) ==
  /\ Running /\ MayResize(sc)
  /\ \E p \in Preferred : PresentModeChanged(sc, p[1], p[2], HeldByFrames)
  /\ UNCHANGED <<swapchains, contextVars, fatal>>

Resize(sc) ==
  /\ Running /\ MayResize(sc)
  /\ \E extent \in Extents : Resized(sc, settings[sc].vkPresentMode, extent, HeldByFrames)
  /\ UNCHANGED <<swapchains, contextVars, fatal>>

DestroySwapchain(sc) ==
  /\ Running /\ MayResize(sc)
  /\ SwapchainDestroyed(sc)
  /\ UNCHANGED <<contextVars, fatal>>

(* A resize or destroy that waits for images that will never be done.  (For  *)
(* their fences, that is: vkDeviceWaitIdle would not even give up.)         *)
ImageWaitTimesOut(sc) ==
  /\ Running /\ MayResize(sc)
  /\ ~ ImagesWaited(sc) /\ Stuck
  /\ Fatal("wait")

(* vkAcquireNextImageKHR gives up after a second too. *)
AcquireTimesOut(sc) ==
  /\ Running /\ inFrame
  /\ sc \in swapchains /\ result[sc] = "SUCCESS"
  /\ pendingValue < MaxValue
  /\ imageIndex[sc] = NoIndex
  /\ \A i \in Image : engine[sc][i] # "available"
  /\ Stuck
  /\ Fatal("wait")
-----------------------------------------------------------------------------
Init ==
  /\ VulkanInit
  /\ SwapchainInit
  /\ alive = FALSE
  /\ inFrame = FALSE
  /\ frameID = 0
  /\ pendingValue = 0
  /\ pendingSemaphoreValue = [f \in Frames |-> 0]
  /\ acquiredCommandBuffers = [f \in Frames |-> 0]
  /\ submittedCommandBuffers = [f \in Frames |-> 0]
  /\ pendingBinarySemaphores = [f \in Frames |-> {}]
  /\ pendingWaitSemaphores = [f \in Frames |-> <<>>]
  /\ pendingScratchBuffers = [f \in Frames |-> {}]
  /\ pendingDestroyers = [f \in Frames |-> {}]
  /\ presenting = <<>>
  /\ live = Objects
  /\ doomed = {}
  /\ fatal = "no"

PresentLists == UNION {[1 .. n -> swapchains] : n \in 0 .. MaxPresents}

Aborted == fatal # "no" /\ UNCHANGED vars

SwapchainCall(sc) ==
  \/ CreateSwapchain(sc) \/ ChangeVkPresentMode(sc) \/ Resize(sc)
  \/ DestroySwapchain(sc) \/ ImageWaitTimesOut(sc)
  \/ AcquireSwapchain(sc) \/ AcquireTimesOut(sc)

ContextCall ==
  \/ CreateContext \/ DestroyContext \/ Begin \/ End \/ Wait
  \/ \E o \in Objects : QueueDestroyer(o)
  \/ \E b \in Buffers : CreateScratchHostBuffer(b)
  \/ BeginCommandBuffer
  \/ \E uses \in SUBSET Usable, scs \in PresentLists : EndCommandBuffer(uses, scs)
  \/ PresentNext

GpuStep == fatal = "no" /\ Gpu /\ UNCHANGED <<swapchainVars, contextVars, fatal>>

Next ==
  \/ ContextCall
  \/ \E sc \in Swapchains : SwapchainCall(sc)
  \/ GpuStep
  \/ Aborted

Spec == Init /\ [][Next]_vars

(* The GPU and the engine finish what they can; the host's calls return; a  *)
(* client inside a frame ends it, and begins another.                       *)
GpuFairness ==
  /\ WF_vars(fatal = "no" /\ (\E s \in Semaphores : SignalAcquire(s))
               /\ UNCHANGED <<swapchainVars, contextVars, fatal>>)
  /\ WF_vars(fatal = "no" /\ ExecuteBatch
               /\ UNCHANGED <<swapchainVars, contextVars, fatal>>)
  /\ WF_vars(fatal = "no" /\ (\E p \in presents : Present(p))
               /\ UNCHANGED <<swapchainVars, contextVars, fatal>>)

ClientFairness ==
  /\ WF_vars(Begin)
  /\ WF_vars(BeginCommandBuffer)
  /\ WF_vars(\E uses \in SUBSET Usable, scs \in PresentLists : EndCommandBuffer(uses, scs))
  /\ WF_vars(PresentNext)
  /\ WF_vars(End)

FairSpec == Spec /\ GpuFairness /\ ClientFairness
-----------------------------------------------------------------------------
(* Type invariant *)

BatchType ==
  [value : Nat, waits : Seq(Semaphores), signals : SUBSET Semaphores,
   uses : SUBSET Resources, slot : Frames, cb : Nat]
PresentType ==
  [swapchain : Swapchains, image : Image, semaphore : Semaphores,
   fence : SUBSET Fences, todo : SUBSET {"wait", "image", "fence"}]
ImageType == [semaphore : Semaphores, fence : SUBSET Fences]
SettingsType ==
  [vkPresentMode : Modes \union {NoMode}, extent : Extents \union {NoExtent},
   compatiblePresentModes : SUBSET Modes, pendingPresentChain : BOOLEAN]
VkSwapchainType == [modes : SUBSET Modes, mode : Modes \union {NoMode}]

GpuType ==
  /\ queue \in Seq(BatchType)
  /\ timeline \in Nat
  /\ binary \in [Semaphores -> {"unsignaled", "pending", "signaled"}]
  /\ acquiring \subseteq Semaphores
  /\ fence \in [Fences -> {"unsignaled", "signaled"}]
  /\ presents \subseteq PresentType
  /\ engine \in [Swapchains -> [Image -> {"available", "acquired", "presenting"}]]

SwapchainType ==
  /\ images \in [Swapchains -> Seq(ImageType)]
  /\ imageIndex \in [Swapchains -> Image \union {NoIndex}]
  /\ settings \in [Swapchains -> SettingsType]
  /\ vkSwapchain \in [Swapchains -> VkSwapchainType]
  /\ result \in [Swapchains -> {"NONE", "SUCCESS", "SURFACE_LOST", "FORMAT_NOT_SUPPORTED"}]
  /\ freeSemaphores \subseteq Semaphores
  /\ freeFences \subseteq Fences

FrameType ==
  /\ alive \in BOOLEAN
  /\ inFrame \in BOOLEAN
  /\ frameID \in Frames
  /\ pendingValue \in Nat
  /\ pendingSemaphoreValue \in [Frames -> Nat]
  /\ acquiredCommandBuffers \in [Frames -> Nat]
  /\ submittedCommandBuffers \in [Frames -> Nat]
  /\ pendingBinarySemaphores \in [Frames -> SUBSET Semaphores]
  /\ pendingWaitSemaphores \in [Frames -> Seq(Semaphores)]
  /\ pendingScratchBuffers \in [Frames -> SUBSET Buffers]
  /\ pendingDestroyers \in [Frames -> SUBSET Objects]
  /\ presenting \in Seq(Swapchains)
  /\ live \subseteq Resources
  /\ doomed \subseteq Objects
  /\ fatal \in {"no", "misuse", "wait", "abort"}

TypeOK == GpuType /\ swapchains \subseteq Swapchains /\ SwapchainType /\ FrameType
-----------------------------------------------------------------------------
(* Safety *)

(* Nothing a destroyer or a scratch buffer release gave up is still named   *)
(* by work the GPU has not finished (begin's and destroyContext's waits).   *)
NoUseAfterFree == \A i \in DOMAIN queue : queue[i].uses \subseteq live

(* A command buffer that may be recorded again has left the queue: the      *)
(* slot's pool is reset, and its counters restart, only behind the GPU.     *)
CommandBuffersDone ==
  \A i \in DOMAIN queue : queue[i].cb <= submittedCommandBuffers[queue[i].slot]

(* Each binary semaphore on loan has one holder: one slot, or one image, and *)
(* it is not in the syncObjectManager's free list at the same time.         *)
OneHolder ==
  /\ freeSemaphores \intersect (HeldByFrames \union HeldByImages) = {}
  /\ HeldByFrames \intersect HeldByImages = {}
  /\ \A f, g \in Frames :
       f # g => pendingBinarySemaphores[f] \intersect pendingBinarySemaphores[g] = {}
  /\ \A sc \in Swapchains : IsInjective([i \in DOMAIN images[sc] |-> images[sc][i].semaphore])
  /\ \A a, b \in Swapchains : a # b => ImageSemaphores(a) \intersect ImageSemaphores(b) = {}

(* A semaphore nobody holds, pooled or destroyed, is idle: the next          *)
(* acquisition of it (or its destruction) races with nothing.               *)
UnheldIdle ==
  \A s \in Semaphores \ (HeldByFrames \union HeldByImages) : Idle(s)

(* acquireFence(true) takes a pooled fence as it is, so a pooled fence must   *)
(* be signaled and in no present that would signal it again.                *)
PooledFencesSignaled ==
  \A f \in freeFences : fence[f] = "signaled" /\ \A p \in presents : "fence" \in p.todo => f \notin p.fence

(* The image vkm will present is one the engine handed out.                 *)
PresentsAcquired ==
  \A sc \in Swapchains :
    imageIndex[sc] # NoIndex => Presentable(sc) /\ engine[sc][imageIndex[sc]] = "acquired"

(* vkm.h: the next endCommandBuffer waits on the acquire semaphore.  One      *)
(* still to be waited on is in the list the next submission takes, or in a   *)
(* submission already made.                                                 *)
AcquiresWaited ==
  \A s \in HeldByFrames :
    binary[s] # "unsignaled" =>
      \/ s \in Range(pendingWaitSemaphores[frameID])
      \/ \E i \in DOMAIN queue : s \in Range(queue[i].waits)

(* No wait of the library ever runs into its timeout: nothing it submits     *)
(* waits for a signal that will not come.                                   *)
NeverHangs == fatal # "wait"

(* No array access of the library leaves its array.                         *)
NeverOutOfBounds == fatal # "abort"

(* vkm.h: what queueDestroyer was given is destroyed once its frame is done;  *)
(* until then some slot remembers it.                                       *)
DestroyersRemembered ==
  \A o \in doomed \intersect live : \E f \in Frames : o \in pendingDestroyers[f]

(* After a create, resize or mode change answered VK_SUCCESS the swapchain    *)
(* presents in the mode it reports, and no present declares a mode its       *)
(* VkSwapchainKHR was not created with.                                     *)
ModeInEffect ==
  \A sc \in swapchains : result[sc] = "SUCCESS" =>
    IF settings[sc].pendingPresentChain
    THEN settings[sc].vkPresentMode \in vkSwapchain[sc].modes
    ELSE settings[sc].vkPresentMode = vkSwapchain[sc].mode

(* A submission signals a release semaphore only when its last present has    *)
(* consumed it.                                                             *)
SignalsUnsignaled ==
  [][\A i \in DOMAIN queue' \ DOMAIN queue :
       \A s \in queue'[i].signals : binary[s] = "unsignaled" /\ Idle(s)]_vars
-----------------------------------------------------------------------------
(* Why the slots are safe: the invariant the proofs rest on                *)

(* The timeline counts the submissions: what is unfinished is numbered from  *)
(* the value reached up to the value promised.                              *)
QueueNumbered ==
  /\ pendingValue = timeline + Len(queue)
  /\ \A i \in DOMAIN queue : queue[i].value = timeline + i

(* A slot no frame is using remembers the last value anything it has given   *)
(* up, or recorded, depends on.                                             *)
CurrentSlot(f) == inFrame /\ f = frameID

SlotsRemember ==
  /\ \A f \in Frames : pendingSemaphoreValue[f] <= pendingValue
  /\ \A i \in DOMAIN queue, f \in Frames :
       queue[i].uses \intersect Retired(f) # {} \/ queue[i].slot = f =>
         CurrentSlot(f) \/ queue[i].value <= pendingSemaphoreValue[f]

(* What has been given up still exists, and in one slot only.               *)
RetiredOnce ==
  /\ \A f \in Frames : Retired(f) \subseteq live /\ pendingDestroyers[f] \subseteq doomed
  /\ \A f, g \in Frames : f # g => Retired(f) \intersect Retired(g) = {}

ContextGone ==
  /\ inFrame => alive
  /\ ~ alive => queue = <<>> /\ \A f \in Frames : Retired(f) = {}

(* Together with what it protects, this is preserved by every step: begin    *)
(* waits for the one number that bounds all a slot is about to give up.     *)
FrameInvariant ==
  /\ QueueNumbered
  /\ SlotsRemember
  /\ RetiredOnce
  /\ ContextGone
  /\ NoUseAfterFree
  /\ CommandBuffersDone
-----------------------------------------------------------------------------
(* The promises of the abstract specifications *)

Destruction == INSTANCE DeferredDestruction WITH
  Things  <- Resources,
  exists  <- live,
  retired <- UNION {Retired(f) : f \in Frames},
  work    <- {[id |-> queue[i].value, uses |-> queue[i].uses] : i \in DOMAIN queue}

(* The slots of a context, their destroyers and their scratch buffers        *)
(* implement deferred destruction.                                          *)
DestructionDeferred == Destruction!Spec

SemaphorePool == INSTANCE SyncPool WITH
  Handles <- Semaphores, BorrowersDestroy <- ~ Maint1,
  free <- freeSemaphores, lent <- HeldByFrames \union HeldByImages

(* Slots and images together return every binary semaphore they were lent,   *)
(* and none is created while one is free.                                   *)
SemaphoresRecycled == SemaphorePool!Spec
-----------------------------------------------------------------------------
(* Liveness *)

(* Whatever has been submitted completes, as long as the context lives and   *)
(* the client's own misuse has not aborted the process.                     *)
SubmissionsComplete ==
  \A v \in 1 .. MaxValue :
    alive /\ pendingValue = v ~> timeline >= v \/ ~ alive \/ fatal = "misuse"

(* An object handed to queueDestroyer is destroyed in the end, unless the     *)
(* client's own misuse aborted the process.                                 *)
DestroyersRun ==
  \A o \in Objects : o \in doomed ~> o \notin live \/ fatal = "misuse"

(* The frame slots, typed and with the invariant that makes begin's reuse of  *)
(* a slot safe: what every frame's begin and end may rely on (context.cpp).   *)
FramesSound == TypeOK /\ FrameInvariant

(* A binary semaphore or fence has one holder, and one in the pool could be   *)
(* handed to anyone at once: nothing pending on it, a fence signaled          *)
(* (context.cpp:177, ~image, present).                                        *)
HandlesSafe == OneHolder /\ UnheldIdle /\ PooledFencesSignaled
=============================================================================
