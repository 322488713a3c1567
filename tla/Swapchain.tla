------------------------------ MODULE Swapchain ------------------------------
(***************************************************************************)
(* src/swapchain/swapchain.cpp: the images of a swapchain with the         *)
(* semaphore and fence each present uses, the image acquired at the        *)
(* moment, and how present mode and extent are changed.                    *)
(*                                                                         *)
(* The operators here are steps of the module Context, which owns the next *)
(* state relation; "held" is always the set of binary semaphores that      *)
(* callers outside this module have on loan from the syncObjectManager.    *)
(***************************************************************************)
EXTENDS Vulkan

CONSTANTS
  Maint1,          \* optionalFeatures.hasEXTSwapchainMaint1
  Modes,           \* the VkPresentModeKHR values in play
  SurfaceModes,    \* those the surface supports
  CompatibleWith,  \* the modes VK_EXT_surface_maintenance1 reports for a mode
  Preferences,     \* the preferred present mode lists a caller may pass
  Extents,         \* the extents a caller may ask for
  Faults           \* the calls the driver may answer with an error

ASSUME SwapchainAssumption ==
  /\ Maint1 \in BOOLEAN
  /\ SurfaceModes \subseteq Modes
  /\ "FIFO" \in SurfaceModes
  /\ CompatibleWith \in [Modes -> SUBSET Modes]
  /\ \A m \in Modes : m \in CompatibleWith[m]
  /\ Preferences \subseteq Seq(Modes)
  /\ Faults \subseteq {"acquire", "modes", "capabilities", "format", "create"}

NoIndex  == 0        \* UINT32_MAX; images are numbered from 1 here
NoMode   == "MAX_ENUM"
NoExtent == "0x0"

VARIABLES
  swapchains,      \* the handles given out by vkm_createSwapchain
  images,          \* swapchain->images
  imageIndex,      \* swapchain->imageIndex
  settings,        \* mode, extent, compatible modes, pendingPresentChain
  vkSwapchain,     \* the VkSwapchainKHR: its declared modes, its current mode
  result,          \* what the last create, resize or mode change returned
  freeSemaphores,  \* syncObjectManager.freeSemaphores
  freeFences       \* syncObjectManager.freeFences

swapchainVars ==
  <<swapchains, images, imageIndex, settings, vkSwapchain, result,
    freeSemaphores, freeFences>>

NewSettings ==
  [vkPresentMode |-> NoMode, extent |-> NoExtent,
   compatiblePresentModes |-> {}, pendingPresentChain |-> FALSE]

NoVkSwapchain == [modes |-> {}, mode |-> NoMode]

SwapchainInit ==
  /\ swapchains = {}
  /\ images = [sc \in Swapchains |-> <<>>]
  /\ imageIndex = [sc \in Swapchains |-> NoIndex]
  /\ settings = [sc \in Swapchains |-> NewSettings]
  /\ vkSwapchain = [sc \in Swapchains |-> NoVkSwapchain]
  /\ result = [sc \in Swapchains |-> "NONE"]
  /\ freeSemaphores = {}
  /\ freeFences = {}
-----------------------------------------------------------------------------
(* The syncObjectManager, as a set of free handles (SyncObjects refines it) *)

(* acquireBinarySemaphore and acquireFence take what is free before they   *)
(* create anything; what the driver creates is a handle nobody holds.      *)
Acquirable(out, free, held) ==
  /\ (out \ free) \intersect held = {}
  /\ out \subseteq free \/ free \subseteq out

ImageSemaphores(sc) == {images[sc][i].semaphore : i \in DOMAIN images[sc]}
ImageFences(sc) == UNION {images[sc][i].fence : i \in DOMAIN images[sc]}

-----------------------------------------------------------------------------
(* Destroying the images: swapchain->images.resize(0)                      *)

(* Fault: only the first image is waited for. *)
FirstImageWaited(sc) ==
  IF Maint1 THEN \A f \in ImageFences(sc) :
                   images[sc] # <<>> /\ f \in images[sc][1].fence => fence[f] = "signaled"
            ELSE DeviceIdle

(* Fault: the device is not waited for when images have no fences. *)
FencesWaited(sc) == \A f \in ImageFences(sc) : fence[f] = "signaled"

(* resize and destroySwapchain wait for the device, and ~image for its      *)
(* fence, before anything of an image is given up.                          *)
ImagesWaited(sc) ==
  IF Maint1 THEN \A f \in ImageFences(sc) : fence[f] = "signaled"
            ELSE DeviceIdle

(* Fault: ~image hands its fence back and forgets its semaphore. *)
SemaphoresForgotten(sc) == freeSemaphores

(* ~image hands the semaphore back only when it has a fence to vouch for    *)
(* it, and destroys it otherwise.                                           *)
SemaphoresAfterImages(sc) ==
  IF Maint1 THEN freeSemaphores \union ImageSemaphores(sc) ELSE freeSemaphores

FencesAfterImages(sc) == freeFences \union ImageFences(sc)
-----------------------------------------------------------------------------
(* vkm_swapchain_resize, once the present mode is settled                  *)

Adopted(sc, mode, extent) ==
  [settings[sc] EXCEPT !.vkPresentMode = mode, !.extent = extent,
     !.compatiblePresentModes = IF Maint1 THEN CompatibleWith[mode] ELSE @]

(* A lost surface stays lost: every query of it is refused until the caller *)
(* gives the swapchain up.                                                 *)
SurfaceLost(sc) == result[sc] = "SURFACE_LOST"

(* What findSurfaceFormat fails with: the surface is lost, or none of the   *)
(* preferred formats is there with the usage asked for.                    *)
SurfaceFormatErrors == {"SURFACE_LOST", "FORMAT_NOT_SUPPORTED"}

(* The driver refuses somewhere after the images are gone.                 *)
ResizeFails(sc, mode, extent) ==
  /\ \/ /\ "capabilities" \in Faults \/ SurfaceLost(sc)
        /\ settings' = [settings EXCEPT ![sc].vkPresentMode = mode]
        /\ result' = [result EXCEPT ![sc] = "SURFACE_LOST"]
     \/ /\ "format" \in Faults /\ ~ SurfaceLost(sc)
        /\ settings' = [settings EXCEPT
                          ![sc] = Adopted(sc, mode, settings[sc].extent)]
        /\ \E why \in SurfaceFormatErrors :
             result' = [result EXCEPT ![sc] = why]
     \/ /\ "create" \in Faults /\ ~ SurfaceLost(sc)
        /\ settings' = [settings EXCEPT ![sc] = Adopted(sc, mode, extent)]
        /\ result' = [result EXCEPT ![sc] = "SURFACE_LOST"]
  /\ images' = [images EXCEPT ![sc] = <<>>]
  /\ freeSemaphores' = SemaphoresAfterImages(sc)
  /\ freeFences' = FencesAfterImages(sc)
  /\ UNCHANGED <<presents, engine, fence, vkSwapchain>>

(* A new VkSwapchainKHR replaces the old one and every image of it gets a   *)
(* semaphore and, with maintenance1, a signaled fence.  imageIndex stays.   *)
ResizeSucceeds(sc, mode, extent, held) ==
  /\ ~ SurfaceLost(sc)
  /\ \E sem \in [Image -> Semaphores],
        fen \in [Image -> IF Maint1 THEN {{f} : f \in Fences} ELSE {{}}] :
       LET kept == held \union UNION {ImageSemaphores(o) : o \in Swapchains \ {sc}}
           busy == UNION {ImageFences(o) : o \in Swapchains \ {sc}}
           sems == {sem[i] : i \in Image}
           fens == UNION {fen[i] : i \in Image}
       IN /\ IsInjective(sem)
          /\ Acquirable(sems, SemaphoresAfterImages(sc), kept)
          /\ Maint1 => IsInjective(fen) /\ Acquirable(fens, FencesAfterImages(sc), busy)
          /\ images' = [images EXCEPT ![sc] =
                          [i \in Image |-> [semaphore |-> sem[i], fence |-> fen[i]]]]
          /\ freeSemaphores' = SemaphoresAfterImages(sc) \ sems
          /\ freeFences' = FencesAfterImages(sc) \ fens
          /\ fence' = [f \in Fences |->
                         IF f \in fens \ FencesAfterImages(sc) THEN "signaled" ELSE fence[f]]
          /\ settings' = [settings EXCEPT ![sc] = Adopted(sc, mode, extent)]
          /\ vkSwapchain' = [vkSwapchain EXCEPT ![sc] =
                               [mode |-> mode,
                                modes |-> IF Maint1 THEN CompatibleWith[mode] ELSE {mode}]]
          /\ result' = [result EXCEPT ![sc] = "SUCCESS"]
          /\ engine' = [engine EXCEPT ![sc] = [i \in Image |-> "available"]]
          /\ presents' = {p \in presents : p.swapchain # sc}

Resized(sc, mode, extent, held) ==
  /\ ImagesWaited(sc)
  /\ ResizeFails(sc, mode, extent) \/ ResizeSucceeds(sc, mode, extent, held)
  /\ UNCHANGED <<queue, timeline, binary, acquiring, imageIndex>>
-----------------------------------------------------------------------------
(* findPresentMode: the first preferred mode the surface has, or FIFO.     *)
FindPresentMode(preferred) ==
  LET wanted == IF preferred = <<>> THEN <<"FIFO_RELAXED">> ELSE preferred
      hits   == {i \in DOMAIN wanted : wanted[i] \in SurfaceModes}
  IN IF hits = {} THEN "FIFO"
     ELSE wanted[CHOOSE i \in hits : \A j \in hits : i <= j]

(* Fault: any mode is taken to be compatible with the one in use. *)
AlwaysSwitchable(sc, mode) == TRUE

(* The new mode can be declared with the next present instead of a new      *)
(* VkSwapchainKHR.                                                          *)
Switchable(sc, mode) == Maint1 /\ mode \in settings[sc].compatiblePresentModes

(* vkm_swapchain_changeVkPresentMode *)
PresentModeChanged(sc, preferred, extent, held) ==
  LET mode == FindPresentMode(preferred) IN
  \/ /\ "modes" \in Faults \/ SurfaceLost(sc)
     /\ settings' = [settings EXCEPT ![sc].vkPresentMode = "FIFO"]
     /\ result' = [result EXCEPT ![sc] = "SURFACE_LOST"]
     /\ UNCHANGED <<gpuVars, images, imageIndex, vkSwapchain, freeSemaphores, freeFences>>
  \/ /\ ~ SurfaceLost(sc)
     /\ extent = settings[sc].extent
     /\ mode = settings[sc].vkPresentMode \/ Switchable(sc, mode)
     /\ settings' = [settings EXCEPT
                       ![sc].vkPresentMode = mode,
                       ![sc].pendingPresentChain = @ \/ mode # settings[sc].vkPresentMode]
     /\ result' = [result EXCEPT ![sc] = "SUCCESS"]
     /\ UNCHANGED <<gpuVars, images, imageIndex, vkSwapchain, freeSemaphores, freeFences>>
  \/ /\ ~ SurfaceLost(sc)
     /\ \/ extent # settings[sc].extent
        \/ mode # settings[sc].vkPresentMode /\ ~ Switchable(sc, mode)
     /\ Resized(sc, mode, extent, held)

(* vkm_createSwapchain; when it fails the caller is left without a handle *)
(* and nothing has changed.                                               *)
SwapchainCreated(sc, preferred, extent, held) ==
  /\ PresentModeChanged(sc, preferred, extent, held)
  /\ result'[sc] = "SUCCESS"
  /\ swapchains' = swapchains \union {sc}

(* vkm_destroySwapchain *)
SwapchainDestroyed(sc) ==
  /\ ImagesWaited(sc)
  /\ freeSemaphores' = SemaphoresAfterImages(sc)
  /\ freeFences' = FencesAfterImages(sc)
  /\ swapchains' = swapchains \ {sc}
  /\ images' = [images EXCEPT ![sc] = <<>>]
  /\ imageIndex' = [imageIndex EXCEPT ![sc] = NoIndex]
  /\ settings' = [settings EXCEPT ![sc] = NewSettings]
  /\ vkSwapchain' = [vkSwapchain EXCEPT ![sc] = NoVkSwapchain]
  /\ result' = [result EXCEPT ![sc] = "NONE"]
  /\ presents' = {p \in presents : p.swapchain # sc}
  /\ engine' = [engine EXCEPT ![sc] = [i \in Image |-> "available"]]
  /\ UNCHANGED <<queue, timeline, binary, acquiring, fence>>
-----------------------------------------------------------------------------
(* swapchain::acquire, answered SUCCESS or SUBOPTIMAL with image i *)
ImageAcquired(sc, s, i) ==
  /\ engine[sc][i] = "available"
  /\ imageIndex' = [imageIndex EXCEPT ![sc] = i]
  /\ engine' = [engine EXCEPT ![sc][i] = "acquired"]
  /\ binary' = [binary EXCEPT ![s] = "pending"]
  /\ acquiring' = acquiring \union {s}
  /\ UNCHANGED <<queue, timeline, fence, presents>>

(* swapchain::acquire, answered OUT_OF_DATE or SURFACE_LOST *)
ImageRefused(sc) ==
  /\ "acquire" \in Faults
  /\ UNCHANGED <<gpuVars, imageIndex>>

(* Fault: every present uses the semaphore and fence of the first image. *)
FirstImage(sc) == images[sc][1]

(* images[imageIndex] as swapchain::semaphore and swapchain::present read it *)
AcquiredImage(sc) == images[sc][imageIndex[sc]]

Presentable(sc) == imageIndex[sc] \in DOMAIN images[sc]

(* swapchain::present waits for the fence of the image's previous present *)
PresentWaited(sc) == \A f \in AcquiredImage(sc).fence : fence[f] = "signaled"

(* Fault: the index survives its present. *)
IndexKept(sc) == UNCHANGED imageIndex

(* imageIndex = UINT32_MAX *)
IndexForgotten(sc) == imageIndex' = [imageIndex EXCEPT ![sc] = NoIndex]

(* swapchain::present; whatever it returns, the request has been queued *)
ImagePresented(sc) ==
  /\ PresentWaited(sc)
  /\ LET image == AcquiredImage(sc) IN
     /\ fence' = [f \in Fences |-> IF f \in image.fence THEN "unsignaled" ELSE fence[f]]
     /\ presents' = presents \union
          {[swapchain |-> sc, image |-> imageIndex[sc], semaphore |-> image.semaphore,
            fence |-> image.fence,
            todo |-> {"wait", "image"} \union (IF image.fence = {} THEN {} ELSE {"fence"})]}
  /\ engine' = [engine EXCEPT ![sc][imageIndex[sc]] = "presenting"]
  /\ vkSwapchain' = [vkSwapchain EXCEPT ![sc].mode =
                       IF settings[sc].pendingPresentChain THEN settings[sc].vkPresentMode
                       ELSE @]
  /\ settings' = [settings EXCEPT ![sc].pendingPresentChain = FALSE]
  /\ IndexForgotten(sc)
  /\ UNCHANGED <<queue, timeline, binary, acquiring, swapchains, images, result,
                 freeSemaphores, freeFences>>
=============================================================================
