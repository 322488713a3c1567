------------------------------- MODULE Vulkan -------------------------------
(***************************************************************************)
(* The world outside vkm, as the calls in src/ use it: one VkQueue and its *)
(* timeline semaphore, binary semaphores, fences, and the presentation     *)
(* engine of each swapchain.  Everything here runs concurrently with the   *)
(* host; vkm only hands it work and waits for it.                          *)
(*                                                                         *)
(* A batch is what one vkQueueSubmit2 call enqueues, a present what one    *)
(* vkQueuePresentKHR call does.  Batches of a queue complete in order.     *)
(***************************************************************************)
EXTENDS Naturals, Sequences, FiniteSets, Functions

CONSTANTS
  Semaphores,   \* handles the driver may give to a binary VkSemaphore
  Fences,       \* handles the driver may give to a VkFence
  Swapchains,   \* the swapchains of the application, one VkSurfaceKHR each
  NImages       \* how many images the driver puts in a VkSwapchainKHR

ASSUME NImagesAssumption == NImages \in Nat \ {0}

Image == 1 .. NImages

VARIABLES
  queue,      \* the batches submitted and not yet complete, oldest first
  timeline,   \* the value the context's timeline semaphore has reached
  binary,     \* the payload of each binary semaphore
  acquiring,  \* semaphores the engine has promised to signal (vkAcquireNextImageKHR)
  fence,      \* the payload of each fence
  presents,   \* the presents handed to the engine and not yet finished
  engine      \* what the engine is doing with each image of a swapchain

gpuVars == <<queue, timeline, binary, acquiring, fence, presents, engine>>

(* A wait list naming a semaphore twice asks for two signals of one payload. *)
Executable(batch) ==
  /\ IsInjective(batch.waits)
  /\ \A i \in DOMAIN batch.waits : binary[batch.waits[i]] = "signaled"

VulkanInit ==
  /\ queue = <<>>
  /\ timeline = 0
  /\ binary = [s \in Semaphores |-> "unsignaled"]
  /\ acquiring = {}
  /\ fence = [f \in Fences |-> "unsignaled"]
  /\ presents = {}
  /\ engine = [sc \in Swapchains |-> [i \in Image |-> "available"]]

(* The engine has stopped reading an acquired image: its semaphore signals. *)
SignalAcquire(s) ==
  /\ s \in acquiring
  /\ acquiring' = acquiring \ {s}
  /\ binary' = [binary EXCEPT ![s] = "signaled"]
  /\ UNCHANGED <<queue, timeline, fence, presents, engine>>

(* The oldest batch runs: it consumes its waits, then signals. *)
ExecuteBatch ==
  /\ queue # <<>>
  /\ Executable(Head(queue))
  /\ binary' = [s \in Semaphores |->
                  IF s \in Head(queue).signals THEN "signaled"
                  ELSE IF s \in Range(Head(queue).waits) THEN "unsignaled"
                  ELSE binary[s]]
  /\ timeline' = Head(queue).value
  /\ queue' = Tail(queue)
  /\ UNCHANGED <<acquiring, fence, presents, engine>>

Done(p, step) ==
  IF p.todo = {step} THEN presents \ {p}
  ELSE (presents \ {p}) \union {[p EXCEPT !.todo = @ \ {step}]}

(* The present's semaphore wait, which precedes everything else it does. *)
PresentWait(p) ==
  /\ "wait" \in p.todo
  /\ binary[p.semaphore] = "signaled"
  /\ binary' = [binary EXCEPT ![p.semaphore] = "unsignaled"]
  /\ presents' = Done(p, "wait")
  /\ UNCHANGED <<queue, timeline, acquiring, fence, engine>>

(* The image leaves the screen and may be acquired again. *)
PresentRelease(p) ==
  /\ "wait" \notin p.todo
  /\ "image" \in p.todo
  /\ engine' = [engine EXCEPT ![p.swapchain][p.image] = "available"]
  /\ presents' = Done(p, "image")
  /\ UNCHANGED <<queue, timeline, binary, acquiring, fence>>

(* VK_EXT_swapchain_maintenance1: the present fence signals once the        *)
(* present's semaphore and fence may be reused, in no order with the image. *)
PresentFence(p) ==
  /\ "wait" \notin p.todo
  /\ "fence" \in p.todo
  /\ fence' = [f \in Fences |-> IF f \in p.fence THEN "signaled" ELSE fence[f]]
  /\ presents' = Done(p, "fence")
  /\ UNCHANGED <<queue, timeline, binary, acquiring, engine>>

Present(p) == PresentWait(p) \/ PresentRelease(p) \/ PresentFence(p)

Gpu ==
  \/ \E s \in Semaphores : SignalAcquire(s)
  \/ ExecuteBatch
  \/ \E p \in presents : Present(p)

(* Nothing outside the host will ever move again: a host wait that is not   *)
(* satisfied now runs into its timeout.                                     *)
Stuck ==
  /\ acquiring = {}
  /\ queue # <<>> => ~ Executable(Head(queue))
  /\ \A p \in presents : "wait" \in p.todo /\ binary[p.semaphore] # "signaled"

(* What vkDeviceWaitIdle waits for: every queue operation, a present's      *)
(* semaphore wait being one, but not the engine's use of the image.         *)
DeviceIdle == queue = <<>> /\ \A p \in presents : "wait" \notin p.todo

(* Nothing still to run mentions the semaphore and it carries no signal. *)
Idle(s) ==
  /\ binary[s] = "unsignaled"
  /\ s \notin acquiring
  /\ \A i \in DOMAIN queue :
       s \notin queue[i].signals \union Range(queue[i].waits)
  /\ \A p \in presents : "wait" \in p.todo => p.semaphore # s
=============================================================================
