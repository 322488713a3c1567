---------------------------- MODULE ContextProofs ----------------------------
(***************************************************************************)
(* Proofs about a context and its swapchains: every handle, index and      *)
(* number they store is one of the right kind; no work of the GPU ever     *)
(* uses what its slot has destroyed, or a command buffer its slot has      *)
(* taken back; no destroyer is forgotten; and the present mode in use is   *)
(* one the swapchain was made for or has declared.                         *)
(***************************************************************************)
EXTENDS Context, WellFoundedInduction, TLAPS

(* What types alone cannot say: a swapchain handed out has a real present   *)
(* mode, its images are all or none, and a present still to be made has an  *)
(* image behind its index.                                                  *)
Shape ==
  /\ \A sc \in swapchains : settings[sc].vkPresentMode \in Modes
  /\ \A sc \in Swapchains : images[sc] = <<>> \/ DOMAIN images[sc] = Image
  /\ \A i \in DOMAIN presenting :
       imageIndex[presenting[i]] = NoIndex \/ Presentable(presenting[i])

TypeInvariant == TypeOK /\ Shape
-----------------------------------------------------------------------------
(* The slots of a context are numbered from 0, and end goes round them.     *)
LEMMA FrameNumbers ==
  /\ 0 \in Frames
  /\ \A f \in Frames : NextFrame(f) \in Frames
<1>1. NumFrames \in Nat \ {0}
  BY ContextAssumption DEF NumFrames
<1>2. Frames = {f \in Nat : f < NumFrames}
  BY <1>1 DEF Frames
<1>. QED
  BY <1>1, <1>2 DEF NextFrame

(* The least of a nonempty set of numbers exists.                           *)
LEMMA LeastNumber ==
  ASSUME NEW S \in SUBSET Nat, S # {}
  PROVE  \E i \in S : \A j \in S : i <= j
<1>1. PICK i \in S : \A j \in S : ~ (<<j, i>> \in OpToRel(<, Nat))
  BY NatLessThanWellFounded, WFMin
<1>2. ASSUME NEW j \in S, j < i PROVE FALSE
  <2>1. <<j, i>> \in Nat \X Nat
    OBVIOUS
  <2>2. <<j, i>> \in OpToRel(<, Nat)
    BY <2>1, <1>2 DEF OpToRel
  <2>. QED BY <2>2, <1>1
<1>. QED
  BY <1>2

(* findPresentMode answers with a mode the surface has.                     *)
LEMMA FindPresentModeSupported ==
  ASSUME NEW preferred \in Seq(Modes)
  PROVE  FindPresentMode(preferred) \in SurfaceModes
<1>. DEFINE wanted == IF preferred = <<>> THEN <<"FIFO_RELAXED">> ELSE preferred
            hits == {i \in DOMAIN wanted : wanted[i] \in SurfaceModes}
            first == CHOOSE i \in hits : \A j \in hits : i <= j
<1>1. hits \in SUBSET Nat
  OBVIOUS
<1>. HIDE DEF wanted
<1>2. CASE hits = {}
  BY <1>2, SwapchainAssumption DEF FindPresentMode, wanted
<1>3. CASE hits # {}
  <2>1. \E i \in hits : \A j \in hits : i <= j
    <3>. HIDE DEF hits
    <3>. QED BY <1>1, <1>3, LeastNumber
  <2>2. first \in hits
    BY <2>1
  <2>. QED BY <1>3, <2>2 DEF FindPresentMode, wanted
<1>. QED
  BY <1>2, <1>3
-----------------------------------------------------------------------------
(* What a swapchain call may do to the state, in terms of types.            *)
SwapchainStepTyped(sc) ==
  /\ GpuType'
  /\ SwapchainType'
  /\ settings'[sc].vkPresentMode \in Modes
  /\ \A o \in Swapchains : o # sc => settings'[o] = settings[o]
  /\ \A o \in Swapchains : images'[o] = <<>> \/ DOMAIN images'[o] = Image

LEMMA ImageHandles ==
  ASSUME SwapchainType, NEW sc \in Swapchains
  PROVE  /\ ImageSemaphores(sc) \subseteq Semaphores /\ ImageFences(sc) \subseteq Fences
         /\ SemaphoresAfterImages(sc) \subseteq Semaphores
         /\ FencesAfterImages(sc) \subseteq Fences
<1>1. \A i \in DOMAIN images[sc] : images[sc][i] \in ImageType
  BY DEF SwapchainType
<1>2. ImageSemaphores(sc) \subseteq Semaphores /\ ImageFences(sc) \subseteq Fences
  BY <1>1 DEF ImageType, ImageSemaphores, ImageFences
<1>. QED
  BY <1>2 DEF SemaphoresAfterImages, FencesAfterImages, SwapchainType

LEMMA AdoptedTyped ==
  ASSUME SwapchainType, NEW sc \in Swapchains, NEW mode \in Modes,
         NEW extent \in Extents \union {NoExtent}
  PROVE  Adopted(sc, mode, extent) \in SettingsType /\ Adopted(sc, mode, extent).vkPresentMode = mode
<1>1. settings[sc] \in SettingsType
  BY DEF SwapchainType
<1>2. CompatibleWith[mode] \in SUBSET Modes
  BY SwapchainAssumption
<1>. QED
  BY <1>1, <1>2 DEF Adopted, SettingsType

LEMMA ResizeFailsTyped ==
  ASSUME TypeInvariant, NEW sc \in Swapchains, NEW mode \in Modes, NEW extent \in Extents,
         ResizeFails(sc, mode, extent), UNCHANGED <<queue, timeline, binary, acquiring, imageIndex>>
  PROVE  SwapchainStepTyped(sc)
<1>. USE DEF TypeInvariant, TypeOK
<1>1. /\ images' = [images EXCEPT ![sc] = <<>>]
      /\ freeSemaphores' = SemaphoresAfterImages(sc)
      /\ freeFences' = FencesAfterImages(sc)
      /\ UNCHANGED <<presents, engine, fence, vkSwapchain>>
  BY DEF ResizeFails
<1>2. PICK why \in {"SURFACE_LOST", "FORMAT_NOT_SUPPORTED"} :
        result' = [result EXCEPT ![sc] = why]
  BY DEF ResizeFails, SurfaceFormatErrors
<1>3. PICK s \in SettingsType : settings' = [settings EXCEPT ![sc] = s] /\ s.vkPresentMode = mode
  <2>1. settings[sc] \in SettingsType
    BY DEF SwapchainType
  <2>2. settings[sc].extent \in Extents \union {NoExtent}
    BY <2>1 DEF SettingsType
  <2>3. CASE settings' = [settings EXCEPT ![sc].vkPresentMode = mode]
    <3>. DEFINE s == [settings[sc] EXCEPT !.vkPresentMode = mode]
    <3>1. s \in SettingsType /\ s.vkPresentMode = mode
      BY <2>1 DEF SettingsType
    <3>. QED BY <3>1, <2>3
  <2>4. CASE settings' = [settings EXCEPT ![sc] = Adopted(sc, mode, settings[sc].extent)]
    BY <2>2, <2>4, AdoptedTyped
  <2>5. CASE settings' = [settings EXCEPT ![sc] = Adopted(sc, mode, extent)]
    BY <2>5, AdoptedTyped
  <2>. QED BY <2>3, <2>4, <2>5 DEF ResizeFails
<1>4. GpuType'
  BY <1>1 DEF GpuType
<1>5. SwapchainType'
  BY <1>1, <1>2, <1>3, ImageHandles DEF SwapchainType
<1>6. settings'[sc].vkPresentMode \in Modes /\ \A o \in Swapchains : o # sc => settings'[o] = settings[o]
  BY <1>3 DEF SwapchainType
<1>7. \A o \in Swapchains : images'[o] = <<>> \/ DOMAIN images'[o] = Image
  BY <1>1 DEF Shape, SwapchainType
<1>. QED
  BY <1>4, <1>5, <1>6, <1>7 DEF SwapchainStepTyped

LEMMA ResizeSucceedsTyped ==
  ASSUME TypeInvariant, NEW sc \in Swapchains, NEW mode \in Modes, NEW extent \in Extents, NEW held,
         ResizeSucceeds(sc, mode, extent, held),
         UNCHANGED <<queue, timeline, binary, acquiring, imageIndex>>
  PROVE  SwapchainStepTyped(sc)
<1>. USE DEF TypeInvariant, TypeOK
<1>1. PICK sem \in [Image -> Semaphores],
           fen \in [Image -> IF Maint1 THEN {{f} : f \in Fences} ELSE {{}}] :
        /\ images' = [images EXCEPT ![sc] =
                        [i \in Image |-> [semaphore |-> sem[i], fence |-> fen[i]]]]
        /\ freeSemaphores' \subseteq SemaphoresAfterImages(sc)
        /\ freeFences' \subseteq FencesAfterImages(sc)
        /\ fence' = [f \in Fences |-> IF f \in (UNION {fen[i] : i \in Image}) \ FencesAfterImages(sc)
                                      THEN "signaled" ELSE fence[f]]
        /\ settings' = [settings EXCEPT ![sc] = Adopted(sc, mode, extent)]
        /\ vkSwapchain' = [vkSwapchain EXCEPT ![sc] =
                             [mode |-> mode, modes |-> IF Maint1 THEN CompatibleWith[mode] ELSE {mode}]]
        /\ result' = [result EXCEPT ![sc] = "SUCCESS"]
        /\ engine' = [engine EXCEPT ![sc] = [i \in Image |-> "available"]]
        /\ presents' \subseteq presents
  BY DEF ResizeSucceeds
<1>. DEFINE row == [i \in Image |-> [semaphore |-> sem[i], fence |-> fen[i]]]
<1>2. row \in Seq(ImageType) /\ DOMAIN row = Image
  <2>1. \A i \in Image : fen[i] \in SUBSET Fences
    OBVIOUS
  <2>2. \A i \in Image : row[i] \in ImageType
    BY <2>1 DEF ImageType
  <2>. HIDE DEF row
  <2>3. row \in [1 .. NImages -> ImageType] /\ NImages \in Nat
    BY <2>2, NImagesAssumption DEF Image, row
  <2>. QED BY <2>3 DEF Image
<1>. HIDE DEF row
<1>3. images' = [images EXCEPT ![sc] = row]
  BY <1>1 DEF row
<1>4. [mode |-> mode, modes |-> IF Maint1 THEN CompatibleWith[mode] ELSE {mode}] \in VkSwapchainType
  BY SwapchainAssumption DEF VkSwapchainType
<1>5. Adopted(sc, mode, extent) \in SettingsType /\ Adopted(sc, mode, extent).vkPresentMode = mode
  BY AdoptedTyped
<1>6. GpuType'
  BY <1>1 DEF GpuType
<1>7. SwapchainType'
  BY <1>1, <1>2, <1>3, <1>4, <1>5, ImageHandles DEF SwapchainType
<1>8. settings'[sc].vkPresentMode \in Modes /\ \A o \in Swapchains : o # sc => settings'[o] = settings[o]
  BY <1>1, <1>5 DEF SwapchainType
<1>9. \A o \in Swapchains : images'[o] = <<>> \/ DOMAIN images'[o] = Image
  BY <1>2, <1>3 DEF Shape, SwapchainType
<1>. QED
  BY <1>6, <1>7, <1>8, <1>9 DEF SwapchainStepTyped

LEMMA ResizedTyped ==
  ASSUME TypeInvariant, NEW sc \in Swapchains, NEW mode \in Modes, NEW extent \in Extents, NEW held,
         Resized(sc, mode, extent, held)
  PROVE  SwapchainStepTyped(sc)
BY ResizeFailsTyped, ResizeSucceedsTyped DEF Resized


LEMMA PresentModeChangedTyped ==
  ASSUME TypeInvariant, NEW sc \in Swapchains, NEW preferred \in Seq(Modes),
         NEW extent \in Extents, NEW held,
         PresentModeChanged(sc, preferred, extent, held)
  PROVE  SwapchainStepTyped(sc)
<1>. USE DEF TypeInvariant, TypeOK
<1>. DEFINE mode == FindPresentMode(preferred)
<1>1. mode \in Modes
  BY FindPresentModeSupported, SwapchainAssumption
<1>. HIDE DEF mode
<1>2. CASE /\ settings' = [settings EXCEPT ![sc].vkPresentMode = "FIFO"]
           /\ result' = [result EXCEPT ![sc] = "SURFACE_LOST"]
           /\ UNCHANGED <<gpuVars, images, imageIndex, vkSwapchain, freeSemaphores, freeFences>>
  <2>1. settings[sc] \in SettingsType /\ "FIFO" \in Modes
    BY SwapchainAssumption DEF SwapchainType
  <2>2. [settings[sc] EXCEPT !.vkPresentMode = "FIFO"] \in SettingsType
    BY <2>1 DEF SettingsType
  <2>3. SwapchainType'
    BY <1>2, <2>2 DEF SwapchainType
  <2>4. settings'[sc].vkPresentMode = "FIFO"
    BY <1>2, <2>1 DEF SwapchainType, SettingsType
  <2>5. GpuType'
    BY <1>2 DEF GpuType, gpuVars
  <2>. QED BY <1>2, <2>1, <2>3, <2>4, <2>5 DEF SwapchainStepTyped, Shape, SwapchainType
<1>3. CASE /\ settings' = [settings EXCEPT
                             ![sc].vkPresentMode = mode,
                             ![sc].pendingPresentChain = @ \/ mode # settings[sc].vkPresentMode]
           /\ result' = [result EXCEPT ![sc] = "SUCCESS"]
           /\ UNCHANGED <<gpuVars, images, imageIndex, vkSwapchain, freeSemaphores, freeFences>>
  <2>1. settings[sc] \in SettingsType
    BY DEF SwapchainType
  <2>2. PICK chain \in BOOLEAN :
          settings' = [settings EXCEPT ![sc] =
                         [settings[sc] EXCEPT !.vkPresentMode = mode, !.pendingPresentChain = chain]]
    BY <1>3, <2>1 DEF SettingsType, SwapchainType
  <2>3. [settings[sc] EXCEPT !.vkPresentMode = mode, !.pendingPresentChain = chain] \in SettingsType
    BY <1>1, <2>1 DEF SettingsType
  <2>4. SwapchainType'
    BY <1>3, <2>2, <2>3 DEF SwapchainType
  <2>5. settings'[sc].vkPresentMode = mode
    BY <2>1, <2>2 DEF SwapchainType, SettingsType
  <2>6. GpuType'
    BY <1>3 DEF GpuType, gpuVars
  <2>. QED BY <1>1, <1>3, <2>2, <2>4, <2>5, <2>6 DEF SwapchainStepTyped, Shape, SwapchainType
<1>4. CASE Resized(sc, mode, extent, held)
  BY <1>1, <1>4, ResizedTyped
<1>. QED
  BY <1>2, <1>3, <1>4 DEF PresentModeChanged, mode

(* A swapchain call that changes nothing of the frames keeps the types.     *)
LEMMA SwapchainStepKeepsTypes ==
  ASSUME TypeInvariant, presenting = <<>>, NEW sc \in Swapchains, SwapchainStepTyped(sc),
         swapchains' = swapchains \/ swapchains' = swapchains \union {sc},
         UNCHANGED <<contextVars, fatal>>
  PROVE  TypeInvariant'
<1>1. TypeOK'
  BY DEF TypeInvariant, TypeOK, SwapchainStepTyped, FrameType, contextVars, frameVars
<1>2. \A o \in swapchains' : settings'[o].vkPresentMode \in Modes
  BY DEF TypeInvariant, TypeOK, Shape, SwapchainStepTyped
<1>3. presenting' = <<>>
  BY DEF contextVars
<1>. QED
  BY <1>1, <1>2, <1>3 DEF TypeInvariant, Shape, SwapchainStepTyped

LEMMA PreferenceTyped ==
  ASSUME NEW p \in Preferred
  PROVE  p[1] \in Seq(Modes) /\ p[2] \in Extents
BY SwapchainAssumption DEF Preferred

LEMMA FatalKeepsTypes ==
  ASSUME TypeInvariant, NEW why \in {"misuse", "wait", "abort"}, Fatal(why)
  PROVE  TypeInvariant'
<1>. USE DEF Fatal, gpuVars, swapchainVars, contextVars, frameVars
<1>1. GpuType' /\ SwapchainType' /\ FrameType'
  BY DEF TypeInvariant, TypeOK, GpuType, SwapchainType, FrameType
<1>2. Shape'
  BY DEF TypeInvariant, Shape, Presentable
<1>. QED
  BY <1>1, <1>2 DEF TypeInvariant, TypeOK

LEMMA SwapchainDestroyedKeepsTypes ==
  ASSUME TypeInvariant, NEW sc \in Swapchains, DestroySwapchain(sc)
  PROVE  TypeInvariant'
<1>. USE DEF TypeInvariant, TypeOK
<1>1. /\ freeSemaphores' = SemaphoresAfterImages(sc)
      /\ freeFences' = FencesAfterImages(sc)
      /\ swapchains' = swapchains \ {sc}
      /\ images' = [images EXCEPT ![sc] = <<>>]
      /\ imageIndex' = [imageIndex EXCEPT ![sc] = NoIndex]
      /\ settings' = [settings EXCEPT ![sc] = NewSettings]
      /\ vkSwapchain' = [vkSwapchain EXCEPT ![sc] = NoVkSwapchain]
      /\ result' = [result EXCEPT ![sc] = "NONE"]
      /\ presents' \subseteq presents
      /\ engine' = [engine EXCEPT ![sc] = [i \in Image |-> "available"]]
      /\ UNCHANGED <<queue, timeline, binary, acquiring, fence>>
      /\ UNCHANGED <<contextVars, fatal>>
      /\ presenting = <<>>
  BY DEF DestroySwapchain, SwapchainDestroyed, Running
<1>2. NewSettings \in SettingsType /\ NoVkSwapchain \in VkSwapchainType
  BY DEF NewSettings, SettingsType, NoVkSwapchain, VkSwapchainType
<1>3. GpuType'
  BY <1>1 DEF GpuType
<1>4. SwapchainType'
  BY <1>1, <1>2, ImageHandles DEF SwapchainType
<1>5. FrameType'
  BY <1>1 DEF FrameType, contextVars, frameVars
<1>6. Shape'
  BY <1>1 DEF Shape, SwapchainType, contextVars
<1>. QED
  BY <1>1, <1>3, <1>4, <1>5, <1>6

LEMMA AcquireSwapchainKeepsTypes ==
  ASSUME TypeInvariant, NEW sc \in Swapchains, AcquireSwapchain(sc)
  PROVE  TypeInvariant'
<1>1. CASE \E why \in {"misuse", "abort"} : Fatal(why)
  BY <1>1, FatalKeepsTypes
<1>2. CASE ~ \E why \in {"misuse", "abort"} : Fatal(why)
  <2>. USE DEF TypeInvariant, TypeOK
  <2>1. PICK s \in Semaphores :
          /\ Enlisted(s)
          /\ (\E i \in DOMAIN images[sc] : ImageAcquired(sc, s, i)) \/ ImageRefused(sc)
    BY <1>2 DEF AcquireSwapchain
  <2>2. /\ UNCHANGED <<swapchains, images, settings, vkSwapchain, result, freeFences,
                       alive, inFrame, frameID, pendingValue, pendingSemaphoreValue,
                       acquiredCommandBuffers, submittedCommandBuffers,
                       pendingScratchBuffers, pendingDestroyers, presenting, live,
                       doomed, fatal>>
        /\ presenting = <<>>
    BY <1>2 DEF AcquireSwapchain, Running
  <2>3. DOMAIN images[sc] \subseteq Image
    BY DEF Shape
  <2>4. GpuType' /\ imageIndex' \in [Swapchains -> Image \union {NoIndex}]
    <3>1. CASE ImageRefused(sc)
      BY <3>1 DEF ImageRefused, gpuVars, GpuType, SwapchainType
    <3>2. CASE \E i \in DOMAIN images[sc] : ImageAcquired(sc, s, i)
      <4>1. PICK i \in Image : ImageAcquired(sc, s, i)
        BY <3>2, <2>3
      <4>2. [engine[sc] EXCEPT ![i] = "acquired"] \in [Image -> {"available", "acquired", "presenting"}]
        BY DEF GpuType
      <4>. QED BY <4>1, <4>2 DEF ImageAcquired, GpuType, SwapchainType
    <3>. QED BY <2>1, <3>1, <3>2
  <2>5. SwapchainType'
    BY <2>1, <2>2, <2>4 DEF SwapchainType, Enlisted
  <2>6. FrameType'
    <3>1. Append(pendingWaitSemaphores[frameID], s) \in Seq(Semaphores)
      BY DEF FrameType
    <3>2. pendingBinarySemaphores' \in [Frames -> SUBSET Semaphores]
      BY <2>1 DEF Enlisted, FrameType
    <3>3. pendingWaitSemaphores' \in [Frames -> Seq(Semaphores)]
      BY <2>1, <3>1 DEF Enlisted, FrameType
    <3>. QED BY <2>2, <3>2, <3>3 DEF FrameType
  <2>7. Shape'
    BY <2>2 DEF Shape
  <2>. QED BY <2>2, <2>4, <2>5, <2>6, <2>7
<1>. QED
  BY <1>1, <1>2

LEMMA SwapchainCallKeepsTypes ==
  ASSUME TypeInvariant, NEW sc \in Swapchains, SwapchainCall(sc)
  PROVE  TypeInvariant'
<1>1. CASE CreateSwapchain(sc)
  <2>1. PICK p \in Preferred : SwapchainCreated(sc, p[1], p[2], HeldByFrames)
    BY <1>1 DEF CreateSwapchain
  <2>2. SwapchainStepTyped(sc)
    BY <2>1, PreferenceTyped, PresentModeChangedTyped DEF SwapchainCreated
  <2>. QED BY <1>1, <2>1, <2>2, SwapchainStepKeepsTypes DEF CreateSwapchain, SwapchainCreated, Running
<1>2. CASE ChangeVkPresentMode(sc)
  <2>1. PICK p \in Preferred : PresentModeChanged(sc, p[1], p[2], HeldByFrames)
    BY <1>2 DEF ChangeVkPresentMode
  <2>2. SwapchainStepTyped(sc)
    BY <2>1, PreferenceTyped, PresentModeChangedTyped
  <2>. QED BY <1>2, <2>2, SwapchainStepKeepsTypes DEF ChangeVkPresentMode, Running
<1>3. CASE Resize(sc)
  <2>1. settings[sc].vkPresentMode \in Modes
    BY <1>3 DEF Resize, MayResize, TypeInvariant, Shape
  <2>2. SwapchainStepTyped(sc)
    BY <1>3, <2>1, ResizedTyped DEF Resize
  <2>. QED BY <1>3, <2>2, SwapchainStepKeepsTypes DEF Resize, Running
<1>4. CASE DestroySwapchain(sc)
  BY <1>4, SwapchainDestroyedKeepsTypes
<1>5. CASE AcquireSwapchain(sc)
  BY <1>5, AcquireSwapchainKeepsTypes
<1>6. CASE ImageWaitTimesOut(sc) \/ AcquireTimesOut(sc)
  BY <1>6, FatalKeepsTypes DEF ImageWaitTimesOut, AcquireTimesOut
<1>. QED
  BY <1>1, <1>2, <1>3, <1>4, <1>5, <1>6 DEF SwapchainCall
-----------------------------------------------------------------------------
LEMMA TypesInit == Init => TypeInvariant
<1>. SUFFICES ASSUME Init PROVE TypeInvariant
  OBVIOUS
<1>. USE DEF Init, VulkanInit, SwapchainInit
<1>1. GpuType
  BY DEF GpuType
<1>2. NewSettings \in SettingsType /\ NoVkSwapchain \in VkSwapchainType
  BY DEF NewSettings, SettingsType, NoVkSwapchain, VkSwapchainType
<1>3. swapchains \subseteq Swapchains /\ SwapchainType
  BY <1>2 DEF SwapchainType
<1>4. FrameType
  <2>1. /\ pendingSemaphoreValue \in [Frames -> Nat]
        /\ acquiredCommandBuffers \in [Frames -> Nat]
        /\ submittedCommandBuffers \in [Frames -> Nat]
        /\ pendingBinarySemaphores \in [Frames -> SUBSET Semaphores]
        /\ pendingWaitSemaphores \in [Frames -> Seq(Semaphores)]
        /\ pendingScratchBuffers \in [Frames -> SUBSET Buffers]
        /\ pendingDestroyers \in [Frames -> SUBSET Objects]
    OBVIOUS
  <2>2. alive \in BOOLEAN /\ inFrame \in BOOLEAN /\ frameID \in Frames /\ pendingValue \in Nat
    BY FrameNumbers
  <2>3. presenting \in Seq(Swapchains) /\ live \subseteq Resources /\ doomed \subseteq Objects
    BY DEF Resources
  <2>4. fatal \in {"no", "misuse", "wait", "abort"}
    OBVIOUS
  <2>. QED BY <2>1, <2>2, <2>3, <2>4 DEF FrameType
<1>5. Shape
  BY DEF Shape
<1>. QED
  BY <1>1, <1>3, <1>4, <1>5 DEF TypeInvariant, TypeOK

LEMMA DoneTyped ==
  ASSUME presents \subseteq PresentType, NEW p \in presents, NEW step
  PROVE  Done(p, step) \subseteq PresentType
<1>1. [p EXCEPT !.todo = p.todo \ {step}] \in PresentType
  BY DEF PresentType
<1>. QED
  BY <1>1 DEF Done

LEMMA GpuKeepsTypes ==
  ASSUME TypeInvariant, GpuStep
  PROVE  TypeInvariant'
<1>. USE DEF TypeInvariant, TypeOK
<1>1. UNCHANGED <<swapchainVars, contextVars, fatal>>
  BY DEF GpuStep
<1>2. swapchains' \subseteq Swapchains /\ SwapchainType' /\ FrameType' /\ Shape'
  BY <1>1 DEF SwapchainType, FrameType, Shape, Presentable, swapchainVars, contextVars, frameVars
<1>3. ASSUME NEW s \in Semaphores, SignalAcquire(s) PROVE GpuType'
  BY <1>3 DEF SignalAcquire, GpuType
<1>4. ASSUME ExecuteBatch PROVE GpuType'
  <2>1. Head(queue) \in BatchType /\ Tail(queue) \in Seq(BatchType)
    BY <1>4 DEF ExecuteBatch, GpuType
  <2>2. Head(queue).value \in Nat
    BY <2>1 DEF BatchType
  <2>. QED BY <1>4, <2>1, <2>2 DEF ExecuteBatch, GpuType
<1>5. ASSUME NEW p \in presents, Present(p) PROVE GpuType'
  <2>1. p \in PresentType
    BY DEF GpuType
  <2>2. presents' \subseteq PresentType
    BY <1>5, DoneTyped DEF Present, PresentWait, PresentRelease, PresentFence, GpuType
  <2>3. CASE PresentWait(p)
    BY <2>2, <2>3 DEF PresentWait, GpuType
  <2>4. CASE PresentRelease(p)
    <3>1. p.swapchain \in Swapchains
      BY <2>1 DEF PresentType
    <3>2. [engine[p.swapchain] EXCEPT ![p.image] = "available"]
            \in [Image -> {"available", "acquired", "presenting"}]
      BY <3>1 DEF GpuType
    <3>3. engine' \in [Swapchains -> [Image -> {"available", "acquired", "presenting"}]]
      BY <2>4, <3>1, <3>2 DEF PresentRelease, GpuType
    <3>. QED BY <2>2, <2>4, <3>3 DEF PresentRelease, GpuType
  <2>5. CASE PresentFence(p)
    BY <2>2, <2>5 DEF PresentFence, GpuType
  <2>. QED BY <1>5, <2>3, <2>4, <2>5 DEF Present
<1>. QED
  BY <1>2, <1>3, <1>4, <1>5 DEF GpuStep, Gpu

LEMMA FreshFramesTyped ==
  ASSUME FreshFrames
  PROVE  /\ frameID' \in Frames /\ pendingValue' \in Nat /\ timeline' \in Nat
         /\ pendingSemaphoreValue' \in [Frames -> Nat]
         /\ acquiredCommandBuffers' \in [Frames -> Nat]
         /\ submittedCommandBuffers' \in [Frames -> Nat]
         /\ pendingBinarySemaphores' \in [Frames -> SUBSET Semaphores]
         /\ pendingWaitSemaphores' \in [Frames -> Seq(Semaphores)]
         /\ pendingScratchBuffers' \in [Frames -> SUBSET Buffers]
         /\ pendingDestroyers' \in [Frames -> SUBSET Objects]
BY FrameNumbers DEF FreshFrames

(* The frame calls other than endCommandBuffer leave the swapchains alone,   *)
(* the free lists apart.                                                    *)
LEMMA LifeCallKeepsTypes ==
  ASSUME TypeInvariant, CreateContext \/ DestroyContext \/ Begin
  PROVE  TypeInvariant'
<1>. USE DEF TypeInvariant, TypeOK
<1>1. CASE Fatal("wait")
  BY <1>1, FatalKeepsTypes
<1>2. CASE CreateContext
  <2>1. GpuType' /\ FrameType'
    BY <1>2, FreshFramesTyped DEF CreateContext, GpuType, FrameType
  <2>2. swapchains' \subseteq Swapchains /\ SwapchainType' /\ Shape'
    BY <1>2 DEF CreateContext, Running, SwapchainType, Shape, swapchainVars
  <2>. QED BY <2>1, <2>2
<1>3. CASE DestroyContext /\ ~ Fatal("wait")
  <2>1. /\ live' \subseteq live
        /\ doomed' \subseteq doomed \union Objects
        /\ freeSemaphores' = freeSemaphores \union HeldByFrames
        /\ alive' = FALSE /\ inFrame' = FALSE /\ FreshFrames
        /\ UNCHANGED <<queue, binary, acquiring, fence, presents, engine, swapchains,
                       images, imageIndex, settings, vkSwapchain, result, freeFences,
                       presenting, fatal>>
        /\ presenting = <<>>
    BY <1>3 DEF DestroyContext, TimesOut, Running, QueuedByDestroyers
  <2>2. doomed' \subseteq Objects
    BY <2>1 DEF FrameType
  <2>3. HeldByFrames \subseteq Semaphores
    BY DEF HeldByFrames, FrameType
  <2>4. GpuType' /\ FrameType'
    BY <2>1, <2>2, FreshFramesTyped DEF GpuType, FrameType
  <2>5. swapchains' \subseteq Swapchains /\ SwapchainType' /\ Shape'
    BY <2>1, <2>3 DEF SwapchainType, Shape
  <2>. QED BY <2>4, <2>5
<1>4. CASE Begin /\ ~ Fatal("wait")
  <2>1. /\ \E Q \in QueuedByDestroyers(pendingDestroyers[frameID]) : doomed' = doomed \union Q
        /\ live' = live \ Retired(frameID)
        /\ pendingDestroyers' = [pendingDestroyers EXCEPT ![frameID] = {}]
        /\ pendingScratchBuffers' = [pendingScratchBuffers EXCEPT ![frameID] = {}]
        /\ freeSemaphores' = freeSemaphores \union pendingBinarySemaphores[frameID]
        /\ pendingBinarySemaphores' = [pendingBinarySemaphores EXCEPT ![frameID] = {}]
        /\ acquiredCommandBuffers' = [acquiredCommandBuffers EXCEPT ![frameID] = 0]
        /\ submittedCommandBuffers' = [submittedCommandBuffers EXCEPT ![frameID] = 0]
        /\ inFrame' = TRUE
        /\ UNCHANGED <<gpuVars, swapchains, images, imageIndex, settings, vkSwapchain,
                       result, freeFences, alive, frameID, pendingValue,
                       pendingSemaphoreValue, pendingWaitSemaphores, presenting, fatal>>
        /\ presenting = <<>>
    BY <1>4 DEF Begin, TimesOut, Running
  <2>2. doomed' \subseteq Objects
    BY <2>1 DEF QueuedByDestroyers, FrameType
  <2>3. FrameType'
    BY <2>1, <2>2 DEF FrameType
  <2>4. GpuType' /\ swapchains' \subseteq Swapchains /\ SwapchainType' /\ Shape'
    BY <2>1 DEF GpuType, gpuVars, SwapchainType, FrameType, Shape
  <2>. QED BY <2>3, <2>4
<1>. QED
  BY <1>1, <1>2, <1>3, <1>4

LEMMA FrameCallKeepsTypes ==
  ASSUME TypeInvariant,
         \/ End \/ Wait \/ BeginCommandBuffer
         \/ \E o \in Objects : QueueDestroyer(o)
         \/ \E b \in Buffers : CreateScratchHostBuffer(b)
  PROVE  TypeInvariant'
<1>. USE DEF TypeInvariant, TypeOK
<1>1. CASE \E why \in {"misuse", "wait"} : Fatal(why)
  BY <1>1, FatalKeepsTypes
<1>2. CASE ~ \E why \in {"misuse", "wait"} : Fatal(why)
  <2>1. UNCHANGED <<gpuVars, swapchainVars>> /\ presenting = <<>> /\ presenting' = <<>>
    BY <1>2 DEF End, Wait, BeginCommandBuffer, QueueDestroyer, CreateScratchHostBuffer,
       TimesOut, Running, vars, contextVars
  <2>2. GpuType' /\ swapchains' \subseteq Swapchains /\ SwapchainType' /\ Shape'
    BY <2>1 DEF GpuType, gpuVars, SwapchainType, Shape, swapchainVars
  <2>3. ASSUME End PROVE FrameType'
    <3>1. /\ pendingSemaphoreValue' = [pendingSemaphoreValue EXCEPT ![frameID] = pendingValue]
          /\ frameID' = NextFrame(frameID) /\ inFrame' = FALSE
          /\ UNCHANGED <<alive, pendingValue, acquiredCommandBuffers, submittedCommandBuffers,
                         pendingBinarySemaphores, pendingWaitSemaphores,
                         pendingScratchBuffers, pendingDestroyers, presenting, live,
                         doomed, fatal>>
      BY <1>2, <2>3 DEF End
    <3>2. pendingSemaphoreValue' \in [Frames -> Nat] /\ frameID' \in Frames
      BY <3>1, FrameNumbers DEF FrameType
    <3>. QED BY <3>1, <3>2 DEF FrameType
  <2>4. ASSUME Wait PROVE FrameType'
    <3>1. UNCHANGED <<contextVars, fatal>>
      BY <1>2, <2>4 DEF Wait, TimesOut, vars
    <3>. QED BY <3>1 DEF FrameType, contextVars, frameVars
  <2>5. ASSUME BeginCommandBuffer PROVE FrameType'
    <3>1. /\ acquiredCommandBuffers' =
               [acquiredCommandBuffers EXCEPT ![frameID] = acquiredCommandBuffers[frameID] + 1]
          /\ UNCHANGED <<alive, inFrame, frameID, pendingValue, pendingSemaphoreValue,
                         submittedCommandBuffers, pendingBinarySemaphores,
                         pendingWaitSemaphores, pendingScratchBuffers,
                         pendingDestroyers, presenting, live, doomed, fatal>>
      BY <1>2, <2>5 DEF BeginCommandBuffer
    <3>2. acquiredCommandBuffers' \in [Frames -> Nat]
      BY <3>1 DEF FrameType
    <3>. QED BY <3>1, <3>2 DEF FrameType
  <2>6. ASSUME NEW o \in Objects, QueueDestroyer(o) PROVE FrameType'
    <3>1. pendingDestroyers' \in [Frames -> SUBSET Objects]
      BY <2>6 DEF QueueDestroyer, FrameType
    <3>. QED BY <2>6, <3>1 DEF QueueDestroyer, FrameType
  <2>7. ASSUME NEW b \in Buffers, CreateScratchHostBuffer(b) PROVE FrameType'
    <3>1. pendingScratchBuffers' \in [Frames -> SUBSET Buffers]
      BY <2>7 DEF CreateScratchHostBuffer, FrameType
    <3>2. live' \subseteq Resources
      BY <2>7 DEF CreateScratchHostBuffer, FrameType, Resources
    <3>. QED BY <2>7, <3>1, <3>2 DEF CreateScratchHostBuffer, FrameType
  <2>8. FrameType'
    BY <1>2, <2>3, <2>4, <2>5, <2>6, <2>7
  <2>. QED BY <2>2, <2>8
<1>. QED
  BY <1>1, <1>2


LEMMA PresentListTyped ==
  ASSUME TypeInvariant, NEW scs \in PresentLists
  PROVE  scs \in Seq(Swapchains) /\ \A i \in DOMAIN scs : scs[i] \in Swapchains
<1>1. PICK n \in 0 .. MaxPresents : scs \in [1 .. n -> swapchains]
  BY DEF PresentLists
<1>2. scs \in Seq(swapchains) /\ swapchains \subseteq Swapchains
  BY <1>1, ContextAssumption DEF TypeInvariant, TypeOK
<1>. QED
  BY <1>2

LEMMA AcquiredImageTyped ==
  ASSUME SwapchainType, NEW sc \in Swapchains, Presentable(sc)
  PROVE  AcquiredImage(sc).semaphore \in Semaphores /\ AcquiredImage(sc).fence \subseteq Fences
<1>1. AcquiredImage(sc) \in ImageType
  BY DEF AcquiredImage, Presentable, SwapchainType
<1>. QED
  BY <1>1 DEF ImageType

LEMMA EndCommandBufferKeepsTypes ==
  ASSUME TypeInvariant, NEW uses \in SUBSET Usable, NEW scs \in PresentLists,
         EndCommandBuffer(uses, scs)
  PROVE  TypeInvariant'
<1>1. CASE \E why \in {"misuse", "abort"} : Fatal(why)
  BY <1>1, FatalKeepsTypes
<1>2. CASE ~ \E why \in {"misuse", "abort"} : Fatal(why)
  <2>. USE DEF TypeInvariant, TypeOK
  <2>. DEFINE b == Batch(uses, scs)
  <2>1. /\ \A i \in DOMAIN scs : Presentable(scs[i])
        /\ queue' = Append(queue, b)
        /\ binary' = [s \in Semaphores |-> IF s \in b.signals THEN "pending" ELSE binary[s]]
        /\ pendingValue' = pendingValue + 1
        /\ WaitsForgotten
        /\ submittedCommandBuffers' =
             [submittedCommandBuffers EXCEPT ![frameID] = submittedCommandBuffers[frameID] + 1]
        /\ presenting' = scs
        /\ UNCHANGED <<timeline, acquiring, fence, presents, engine, swapchainVars,
                       alive, inFrame, frameID, pendingSemaphoreValue,
                       acquiredCommandBuffers, pendingBinarySemaphores,
                       pendingScratchBuffers, pendingDestroyers, live, doomed, fatal>>
    BY <1>2 DEF EndCommandBuffer, Submit
  <2>2. b \in BatchType
    <3>1. {AcquiredImage(scs[i]).semaphore : i \in DOMAIN scs} \subseteq Semaphores
      BY <2>1, PresentListTyped, AcquiredImageTyped
    <3>2. uses \subseteq Resources
      BY DEF Usable, FrameType
    <3>. QED BY <3>1, <3>2 DEF Batch, BatchType, FrameType
  <2>. HIDE DEF b
  <2>3. GpuType'
    BY <2>1, <2>2 DEF GpuType
  <2>4. swapchains' \subseteq Swapchains /\ SwapchainType'
    BY <2>1 DEF SwapchainType, swapchainVars
  <2>5. FrameType'
    <3>1. pendingWaitSemaphores' \in [Frames -> Seq(Semaphores)]
      BY <2>1 DEF WaitsForgotten, FrameType
    <3>2. presenting' \in Seq(Swapchains)
      BY <2>1, PresentListTyped
    <3>3. submittedCommandBuffers' \in [Frames -> Nat] /\ pendingValue' \in Nat
      BY <2>1 DEF FrameType
    <3>. QED BY <2>1, <3>1, <3>2, <3>3 DEF FrameType
  <2>6. Shape'
    BY <2>1 DEF Shape, Presentable, swapchainVars
  <2>. QED BY <2>3, <2>4, <2>5, <2>6
<1>. QED
  BY <1>1, <1>2

LEMMA PresentNextKeepsTypes ==
  ASSUME TypeInvariant, PresentNext
  PROVE  TypeInvariant'
<1>1. CASE \E why \in {"misuse", "wait"} : Fatal(why)
  BY <1>1, FatalKeepsTypes
<1>2. CASE ~ \E why \in {"misuse", "wait"} : Fatal(why)
  <2>. USE DEF TypeInvariant, TypeOK
  <2>. DEFINE sc == Head(presenting)
  <2>1. /\ presenting # <<>> /\ imageIndex[sc] # NoIndex
        /\ ImagePresented(sc)
        /\ presenting' = Tail(presenting)
        /\ UNCHANGED <<alive, inFrame, frameID, pendingValue, frameVars, live, doomed, fatal>>
    BY <1>2 DEF PresentNext
  <2>2. /\ sc \in Swapchains /\ Tail(presenting) \in Seq(Swapchains)
        /\ \A i \in DOMAIN Tail(presenting) :
             i + 1 \in DOMAIN presenting /\ Tail(presenting)[i] = presenting[i + 1]
        /\ 1 \in DOMAIN presenting /\ sc = presenting[1]
    BY <2>1 DEF FrameType
  <2>. HIDE DEF sc
  <2>3. Presentable(sc)
    BY <2>1, <2>2 DEF Shape
  <2>4. imageIndex[sc] \in Image
    BY <2>1, <2>2 DEF SwapchainType
  <2>5. /\ AcquiredImage(sc).semaphore \in Semaphores
        /\ AcquiredImage(sc).fence \in SUBSET Fences
    BY <2>2, <2>3, AcquiredImageTyped
  <2>6. GpuType'
    <3>. DEFINE image == AcquiredImage(sc)
                p == [swapchain |-> sc, image |-> imageIndex[sc], semaphore |-> image.semaphore,
                      fence |-> image.fence,
                      todo |-> {"wait", "image"} \union (IF image.fence = {} THEN {} ELSE {"fence"})]
    <3>1. p \in PresentType
      BY <2>2, <2>4, <2>5 DEF PresentType
    <3>2. presents' = presents \union {p}
      BY <2>1 DEF ImagePresented
    <3>3. fence' \in [Fences -> {"unsignaled", "signaled"}]
      BY <2>1 DEF ImagePresented, GpuType
    <3>4. [engine[sc] EXCEPT ![imageIndex[sc]] = "presenting"]
            \in [Image -> {"available", "acquired", "presenting"}]
      BY <2>2 DEF GpuType
    <3>5. engine' \in [Swapchains -> [Image -> {"available", "acquired", "presenting"}]]
      BY <2>1, <3>4 DEF ImagePresented, GpuType
    <3>. HIDE DEF p
    <3>6. presents' \subseteq PresentType
      BY <3>1, <3>2 DEF GpuType
    <3>. QED BY <2>1, <3>3, <3>5, <3>6 DEF ImagePresented, GpuType
  <2>7. SwapchainType' /\ swapchains' \subseteq Swapchains
    <3>1. settings[sc] \in SettingsType /\ vkSwapchain[sc] \in VkSwapchainType
      BY <2>2 DEF SwapchainType
    <3>2. [settings[sc] EXCEPT !.pendingPresentChain = FALSE] \in SettingsType
      BY <3>1 DEF SettingsType
    <3>3. settings' \in [Swapchains -> SettingsType]
      BY <2>1, <2>2, <3>2 DEF ImagePresented, SwapchainType
    <3>4. settings[sc].vkPresentMode \in Modes \union {NoMode}
      BY <3>1 DEF SettingsType
    <3>5. PICK m \in Modes \union {NoMode} :
            vkSwapchain' = [vkSwapchain EXCEPT ![sc] = [vkSwapchain[sc] EXCEPT !.mode = m]]
      BY <2>1, <3>1, <3>4 DEF ImagePresented, VkSwapchainType
    <3>6. [vkSwapchain[sc] EXCEPT !.mode = m] \in VkSwapchainType
      BY <3>1 DEF VkSwapchainType
    <3>7. vkSwapchain' \in [Swapchains -> VkSwapchainType]
      BY <3>5, <3>6 DEF SwapchainType
    <3>8. imageIndex' \in [Swapchains -> Image \union {NoIndex}]
      BY <2>1 DEF ImagePresented, IndexForgotten, SwapchainType
    <3>. QED BY <2>1, <3>3, <3>7, <3>8 DEF ImagePresented, SwapchainType
  <2>8. FrameType'
    BY <2>1, <2>2 DEF FrameType, frameVars
  <2>9. Shape'
    <3>1. \A o \in Swapchains : settings'[o].vkPresentMode = settings[o].vkPresentMode
      BY <2>1, <2>2 DEF ImagePresented, SwapchainType, SettingsType
    <3>2. \A o \in Swapchains : imageIndex'[o] = IF o = sc THEN NoIndex ELSE imageIndex[o]
      BY <2>1 DEF ImagePresented, IndexForgotten, SwapchainType
    <3>3. UNCHANGED <<swapchains, images>>
      BY <2>1 DEF ImagePresented
    <3>4. \A i \in DOMAIN presenting : presenting[i] \in Swapchains
      BY DEF FrameType
    <3>. QED BY <2>1, <2>2, <3>1, <3>2, <3>3, <3>4 DEF Shape, Presentable
  <2>. QED BY <2>6, <2>7, <2>8, <2>9
<1>. QED
  BY <1>1, <1>2

LEMMA NextKeepsTypes ==
  ASSUME TypeInvariant, [Next]_vars
  PROVE  TypeInvariant'
<1>1. CASE \E sc \in Swapchains : SwapchainCall(sc)
  BY <1>1, SwapchainCallKeepsTypes
<1>2. CASE GpuStep
  BY <1>2, GpuKeepsTypes
<1>3. CASE Aborted \/ UNCHANGED vars
  <2>1. UNCHANGED vars
    BY <1>3 DEF Aborted
  <2>2. GpuType' /\ SwapchainType' /\ FrameType' /\ swapchains' \subseteq Swapchains
    BY <2>1 DEF TypeInvariant, TypeOK, GpuType, SwapchainType, FrameType, vars, gpuVars,
       swapchainVars, contextVars, frameVars
  <2>3. Shape'
    BY <2>1 DEF TypeInvariant, Shape, Presentable, vars, swapchainVars, contextVars
  <2>. QED BY <2>2, <2>3 DEF TypeInvariant, TypeOK
<1>4. CASE ContextCall
  BY <1>4, LifeCallKeepsTypes, FrameCallKeepsTypes, EndCommandBufferKeepsTypes,
     PresentNextKeepsTypes DEF ContextCall
<1>. QED
  BY <1>1, <1>2, <1>3, <1>4 DEF Next

(* Every variable keeps its type, with the shape the types rest on.         *)
THEOREM TypesAlways == Spec => []TypeInvariant
<1>1. TypeInvariant /\ [Next]_vars => TypeInvariant'
  BY NextKeepsTypes
<1>. QED
  BY TypesInit, <1>1, PTL DEF Spec

(* context.cpp, swapchain.cpp: the handles, counters and indices the frames  *)
(* and swapchains store are always of the right kind; in particular frameID  *)
(* names a slot, and no index but that of an image or none is ever stored.  *)
THEOREM TypeCorrect == Spec => []TypeOK
<1>1. TypeInvariant => TypeOK
  BY DEF TypeInvariant
<1>. QED
  BY TypesAlways, <1>1, PTL
-----------------------------------------------------------------------------

(* What FrameInvariant speaks of. *)
frameCore ==
  <<queue, timeline, alive, inFrame, frameID, pendingValue, pendingSemaphoreValue,
    submittedCommandBuffers, pendingScratchBuffers, pendingDestroyers, live, doomed>>


(* The part of TypeOK it rests on. *)
CoreType ==
  /\ queue \in Seq(BatchType)
  /\ timeline \in Nat
  /\ inFrame \in BOOLEAN
  /\ frameID \in Frames
  /\ pendingValue \in Nat
  /\ pendingSemaphoreValue \in [Frames -> Nat]
  /\ submittedCommandBuffers \in [Frames -> Nat]
  /\ pendingScratchBuffers \in [Frames -> SUBSET Buffers]
  /\ pendingDestroyers \in [Frames -> SUBSET Objects]
-----------------------------------------------------------------------------
(* Calls on swapchains leave alone what FrameInvariant speaks of.           *)
LEMMA SwapchainCallsLeaveFrames ==
  ASSUME NEW sc \in Swapchains, SwapchainCall(sc)
  PROVE  UNCHANGED frameCore
<1>. USE DEF frameCore, contextVars, frameVars, vars, gpuVars, swapchainVars
<1>1. CASE CreateSwapchain(sc)
  <2>1. PICK p \in Preferred : SwapchainCreated(sc, p[1], p[2], HeldByFrames)
    BY <1>1 DEF CreateSwapchain
  <2>2. UNCHANGED <<queue, timeline>>
    BY <2>1 DEF SwapchainCreated, PresentModeChanged, Resized
  <2>. QED BY <1>1, <2>2 DEF CreateSwapchain
<1>2. CASE ChangeVkPresentMode(sc)
  <2>1. PICK p \in Preferred : PresentModeChanged(sc, p[1], p[2], HeldByFrames)
    BY <1>2 DEF ChangeVkPresentMode
  <2>2. UNCHANGED <<queue, timeline>>
    BY <2>1 DEF PresentModeChanged, Resized
  <2>. QED BY <1>2, <2>2 DEF ChangeVkPresentMode
<1>3. CASE Resize(sc)
  BY <1>3 DEF Resize, Resized
<1>4. CASE DestroySwapchain(sc)
  BY <1>4 DEF DestroySwapchain, SwapchainDestroyed
<1>5. CASE ImageWaitTimesOut(sc)
  BY <1>5 DEF ImageWaitTimesOut, Fatal
<1>6. CASE AcquireSwapchain(sc)
  BY <1>6 DEF AcquireSwapchain, ImageAcquired, ImageRefused, Fatal
<1>7. CASE AcquireTimesOut(sc)
  BY <1>7 DEF AcquireTimesOut, Fatal
<1>. QED
  BY <1>1, <1>2, <1>3, <1>4, <1>5, <1>6, <1>7 DEF SwapchainCall

-----------------------------------------------------------------------------
(* The initial state has no work, and nothing given up.                     *)
LEMMA FrameInvariantInit == Init => FrameInvariant
<1>. SUFFICES ASSUME Init PROVE FrameInvariant
  OBVIOUS
<1>. USE DEF Init, VulkanInit, Retired
<1>1. QueueNumbered
  BY DEF QueueNumbered
<1>2. SlotsRemember
  BY DEF SlotsRemember
<1>3. RetiredOnce
  BY DEF RetiredOnce
<1>4. ContextGone
  BY DEF ContextGone
<1>. QED
  BY <1>1, <1>2, <1>3, <1>4 DEF FrameInvariant, NoUseAfterFree, CommandBuffersDone

(* A call that leaves the frames alone preserves their invariant.           *)
LEMMA FrameInvariantStutter ==
  ASSUME FrameInvariant, UNCHANGED frameCore
  PROVE  FrameInvariant'
BY DEF FrameInvariant, frameCore, QueueNumbered, SlotsRemember, CurrentSlot, Retired,
       RetiredOnce, ContextGone, NoUseAfterFree, CommandBuffersDone

LEMMA BatchFields ==
  ASSUME CoreType, NEW i \in DOMAIN queue
  PROVE  /\ queue[i].value \in Nat /\ queue[i].slot \in Frames /\ queue[i].cb \in Nat
         /\ queue[i].uses \subseteq Resources
<1>1. queue[i] \in BatchType
  BY DEF CoreType
<1>. QED
  BY <1>1 DEF BatchType

(* begin waits for all the work that uses what it destroys: a batch still    *)
(* queued when the slot's value has been reached is none of the slot's.     *)
LEMMA SlotDoneFreesSlot ==
  ASSUME CoreType, QueueNumbered, SlotsRemember, ~ inFrame, SlotDone(frameID),
         NEW i \in DOMAIN queue
  PROVE  queue[i].uses \intersect Retired(frameID) = {} /\ queue[i].slot # frameID
<1>1. queue[i].value = timeline + i /\ i \in Nat \ {0}
  BY DEF QueueNumbered, CoreType
<1>2. timeline >= pendingSemaphoreValue[frameID]
  BY DEF SlotDone, Reached
<1>3. pendingSemaphoreValue[frameID] \in Nat /\ timeline \in Nat
  BY DEF CoreType
<1>4. ~ (queue[i].value <= pendingSemaphoreValue[frameID])
  BY <1>1, <1>2, <1>3
<1>. QED
  BY <1>4 DEF SlotsRemember, CurrentSlot, CoreType

LEMMA BeginKeepsInvariant ==
  ASSUME CoreType, FrameInvariant, Begin
  PROVE  FrameInvariant'
<1>1. CASE UNCHANGED frameCore
  BY <1>1, FrameInvariantStutter
<1>2. CASE SlotDone(frameID) /\ ~ UNCHANGED frameCore
  <2>. USE <1>2 DEF FrameInvariant
  <2>1. /\ UNCHANGED <<queue, timeline, alive, frameID, pendingValue, pendingSemaphoreValue>>
        /\ alive /\ ~ inFrame /\ inFrame' = TRUE
        /\ live' = live \ Retired(frameID)
        /\ pendingDestroyers' = [pendingDestroyers EXCEPT ![frameID] = {}]
        /\ pendingScratchBuffers' = [pendingScratchBuffers EXCEPT ![frameID] = {}]
        /\ submittedCommandBuffers' = [submittedCommandBuffers EXCEPT ![frameID] = 0]
        /\ doomed \subseteq doomed'
    BY DEF Begin, TimesOut, Fatal, frameCore, gpuVars, contextVars, frameVars
  <2>2. \A i \in DOMAIN queue :
           queue[i].uses \intersect Retired(frameID) = {} /\ queue[i].slot # frameID
    BY <2>1, SlotDoneFreesSlot
  <2>3. \A f \in Frames : Retired(f)' = IF f = frameID THEN {} ELSE Retired(f)
    BY <2>1 DEF Retired, CoreType
  <2>4. QueueNumbered'
    BY <2>1 DEF QueueNumbered
  <2>5. SlotsRemember'
    BY <2>1, <2>2, <2>3 DEF SlotsRemember, CurrentSlot
  <2>6. RetiredOnce'
    <3>1. \A f \in Frames : Retired(f)' \subseteq live'
      BY <2>1, <2>3 DEF RetiredOnce, CoreType
    <3>2. \A f \in Frames : pendingDestroyers'[f] \subseteq doomed'
      BY <2>1 DEF RetiredOnce, CoreType
    <3>. QED BY <3>1, <3>2, <2>3 DEF RetiredOnce
  <2>7. ContextGone'
    BY <2>1 DEF ContextGone
  <2>8. NoUseAfterFree'
    BY <2>1, <2>2 DEF NoUseAfterFree
  <2>9. CommandBuffersDone'
    <3>1. \A i \in DOMAIN queue : queue[i].slot \in Frames
      BY BatchFields
    <3>. QED BY <3>1, <2>1, <2>2 DEF CommandBuffersDone, CoreType
  <2>. QED BY <2>4, <2>5, <2>6, <2>7, <2>8, <2>9
<1>. QED
  BY <1>1, <1>2 DEF Begin, TimesOut, Fatal, frameCore, vars, gpuVars, contextVars, frameVars

LEMMA CreateContextKeepsInvariant ==
  ASSUME CoreType, FrameInvariant, CreateContext
  PROVE  FrameInvariant'
<1>. USE DEF FrameInvariant
<1>1. /\ queue = <<>> /\ ~ alive /\ ~ inFrame
  BY DEF CreateContext, ContextGone, CoreType
<1>2. /\ UNCHANGED <<queue, inFrame, live, doomed>>
      /\ FreshFrames /\ alive'
  BY DEF CreateContext, swapchainVars
<1>. QED
  BY <1>1, <1>2 DEF FreshFrames, QueueNumbered, SlotsRemember, RetiredOnce, Retired,
     ContextGone, NoUseAfterFree, CommandBuffersDone

(* destroyContext waits for everything, so nothing is queued behind it.     *)
LEMMA DestroyContextKeepsInvariant ==
  ASSUME CoreType, FrameInvariant, DestroyContext
  PROVE  FrameInvariant'
<1>1. CASE UNCHANGED frameCore
  BY <1>1, FrameInvariantStutter
<1>2. CASE ~ UNCHANGED frameCore
  <2>1. /\ Reached(pendingValue) /\ FreshFrames
        /\ ~ alive' /\ ~ inFrame' /\ UNCHANGED queue
    BY <1>2 DEF DestroyContext, TimesOut, Fatal, frameCore, gpuVars, contextVars, frameVars
  <2>2. queue = <<>>
    BY <2>1 DEF FrameInvariant, QueueNumbered, Reached, CoreType
  <2>. QED
    BY <2>1, <2>2 DEF FrameInvariant, FreshFrames, QueueNumbered, SlotsRemember,
       RetiredOnce, Retired, ContextGone, NoUseAfterFree, CommandBuffersDone
<1>. QED
  BY <1>1, <1>2

LEMMA QueueDestroyerKeepsInvariant ==
  ASSUME CoreType, FrameInvariant, NEW o \in Objects, QueueDestroyer(o)
  PROVE  FrameInvariant'
<1>. USE DEF FrameInvariant
<1>1. /\ UNCHANGED <<queue, timeline, alive, inFrame, frameID, pendingValue,
                     pendingSemaphoreValue, submittedCommandBuffers,
                     pendingScratchBuffers, live>>
      /\ inFrame /\ o \in live \ doomed
      /\ pendingDestroyers' =
           [pendingDestroyers EXCEPT ![frameID] = pendingDestroyers[frameID] \union {o}]
      /\ doomed' = doomed \union {o}
  BY DEF QueueDestroyer, gpuVars
<1>2. \A f \in Frames :
         Retired(f)' = IF f = frameID THEN Retired(f) \union {o} ELSE Retired(f)
  BY <1>1 DEF Retired, CoreType
<1>3. \A f \in Frames : o \notin Retired(f)
  BY <1>1, ContextAssumption DEF Retired, RetiredOnce, CoreType
<1>4. SlotsRemember'
  BY <1>1, <1>2 DEF SlotsRemember, CurrentSlot
<1>5. RetiredOnce'
  <2>1. \A f \in Frames : Retired(f)' \subseteq live'
    BY <1>1, <1>2 DEF RetiredOnce
  <2>2. \A f \in Frames : pendingDestroyers'[f] \subseteq doomed'
    BY <1>1 DEF RetiredOnce, CoreType
  <2>. QED BY <2>1, <2>2, <1>2, <1>3 DEF RetiredOnce
<1>6. QueueNumbered' /\ ContextGone' /\ NoUseAfterFree' /\ CommandBuffersDone'
  BY <1>1 DEF QueueNumbered, ContextGone, NoUseAfterFree, CommandBuffersDone
<1>. QED
  BY <1>4, <1>5, <1>6

LEMMA CreateScratchHostBufferKeepsInvariant ==
  ASSUME CoreType, FrameInvariant, NEW b \in Buffers, CreateScratchHostBuffer(b)
  PROVE  FrameInvariant'
<1>. USE DEF FrameInvariant
<1>1. /\ UNCHANGED <<queue, timeline, alive, inFrame, frameID, pendingValue,
                     pendingSemaphoreValue, submittedCommandBuffers,
                     pendingDestroyers, doomed>>
      /\ inFrame /\ b \notin live
      /\ pendingScratchBuffers' =
           [pendingScratchBuffers EXCEPT ![frameID] = pendingScratchBuffers[frameID] \union {b}]
      /\ live' = live \union {b}
  BY DEF CreateScratchHostBuffer, gpuVars
<1>2. \A f \in Frames :
         Retired(f)' = IF f = frameID THEN Retired(f) \union {b} ELSE Retired(f)
  BY <1>1 DEF Retired, CoreType
<1>3. \A f \in Frames : b \notin Retired(f)
  BY <1>1 DEF RetiredOnce
<1>4. SlotsRemember'
  BY <1>1, <1>2 DEF SlotsRemember, CurrentSlot
<1>5. RetiredOnce'
  BY <1>1, <1>2, <1>3 DEF RetiredOnce
<1>6. QueueNumbered' /\ ContextGone' /\ NoUseAfterFree' /\ CommandBuffersDone'
  BY <1>1 DEF QueueNumbered, ContextGone, NoUseAfterFree, CommandBuffersDone
<1>. QED
  BY <1>4, <1>5, <1>6

(* A submission is numbered one past the last, and uses nothing another slot *)
(* has given up.                                                            *)
LEMMA EndCommandBufferKeepsInvariant ==
  ASSUME CoreType, FrameInvariant, NEW uses \in SUBSET Usable, NEW scs,
         EndCommandBuffer(uses, scs)
  PROVE  FrameInvariant'
<1>1. CASE UNCHANGED frameCore
  BY <1>1, FrameInvariantStutter
<1>2. CASE ~ UNCHANGED frameCore
  <2>. USE DEF FrameInvariant
  <2>. DEFINE b == Batch(uses, scs)
  <2>1. /\ UNCHANGED <<timeline, alive, inFrame, frameID, pendingSemaphoreValue,
                       pendingScratchBuffers, pendingDestroyers, live, doomed>>
        /\ inFrame
        /\ queue' = Append(queue, b)
        /\ pendingValue' = pendingValue + 1
        /\ submittedCommandBuffers' =
             [submittedCommandBuffers EXCEPT ![frameID] = submittedCommandBuffers[frameID] + 1]
    BY <1>2 DEF EndCommandBuffer, Submit, Fatal, frameCore, gpuVars, contextVars, frameVars
  <2>2. /\ b.value = pendingValue + 1 /\ b.uses = uses /\ b.slot = frameID
        /\ b.cb = submittedCommandBuffers[frameID] + 1
    BY DEF Batch
  <2>. HIDE DEF b
  <2>3. /\ DOMAIN queue' = DOMAIN queue \union {Len(queue) + 1}
        /\ Len(queue') = Len(queue) + 1
        /\ \A i \in DOMAIN queue : queue'[i] = queue[i]
        /\ queue'[Len(queue) + 1] = b
        /\ DOMAIN queue = 1 .. Len(queue) /\ Len(queue) \in Nat
    BY <2>1 DEF CoreType
  <2>4. \A f \in Frames : Retired(f)' = Retired(f)
    BY <2>1 DEF Retired
  <2>5. QueueNumbered'
    BY <2>1, <2>2, <2>3 DEF QueueNumbered, CoreType
  <2>6. SlotsRemember'
    <3>1. \A f \in Frames : pendingSemaphoreValue'[f] <= pendingValue'
      BY <2>1 DEF SlotsRemember, CoreType
    <3>2. \A f \in Frames : b.uses \intersect Retired(f) # {} => f = frameID
      BY <2>2 DEF Usable
    <3>. QED BY <3>1, <3>2, <2>1, <2>2, <2>3, <2>4 DEF SlotsRemember, CurrentSlot
  <2>7. RetiredOnce' /\ ContextGone'
    BY <2>1, <2>4 DEF RetiredOnce, ContextGone
  <2>8. NoUseAfterFree'
    BY <2>1, <2>2, <2>3 DEF NoUseAfterFree, Usable
  <2>9. CommandBuffersDone'
    BY <2>1, <2>2, <2>3, BatchFields DEF CommandBuffersDone, CoreType
  <2>. QED BY <2>5, <2>6, <2>7, <2>8, <2>9
<1>. QED
  BY <1>1, <1>2

(* end notes the last number handed out, which bounds every batch queued.   *)
LEMMA EndKeepsInvariant ==
  ASSUME CoreType, FrameInvariant, End
  PROVE  FrameInvariant'
<1>1. CASE UNCHANGED frameCore
  BY <1>1, FrameInvariantStutter
<1>2. CASE ~ UNCHANGED frameCore
  <2>. USE DEF FrameInvariant
  <2>1. /\ UNCHANGED <<queue, timeline, alive, pendingValue, submittedCommandBuffers,
                       pendingScratchBuffers, pendingDestroyers, live, doomed>>
        /\ ~ inFrame'
        /\ pendingSemaphoreValue' = [pendingSemaphoreValue EXCEPT ![frameID] = pendingValue]
    BY <1>2 DEF End, Fatal, frameCore, gpuVars, contextVars, frameVars
  <2>2. \A i \in DOMAIN queue : queue[i].value <= pendingValue
    BY DEF QueueNumbered, CoreType
  <2>3. SlotsRemember'
    BY <2>1, <2>2 DEF SlotsRemember, CurrentSlot, Retired, CoreType
  <2>4. QueueNumbered' /\ RetiredOnce' /\ ContextGone' /\ NoUseAfterFree' /\ CommandBuffersDone'
    BY <2>1 DEF QueueNumbered, RetiredOnce, Retired, ContextGone, NoUseAfterFree,
       CommandBuffersDone
  <2>. QED BY <2>3, <2>4
<1>. QED
  BY <1>1, <1>2

(* The oldest batch finishes: the timeline takes its number.                *)
LEMMA GpuKeepsInvariant ==
  ASSUME CoreType, FrameInvariant, GpuStep
  PROVE  FrameInvariant'
<1>1. CASE UNCHANGED frameCore
  BY <1>1, FrameInvariantStutter
<1>2. CASE ~ UNCHANGED frameCore
  <2>. USE DEF FrameInvariant
  <2>1. /\ UNCHANGED <<alive, inFrame, frameID, pendingValue, pendingSemaphoreValue,
                       submittedCommandBuffers, pendingScratchBuffers,
                       pendingDestroyers, live, doomed>>
        /\ queue # <<>> /\ queue' = Tail(queue) /\ timeline' = Head(queue).value
    BY <1>2 DEF GpuStep, Gpu, SignalAcquire, ExecuteBatch, Present, PresentWait,
       PresentRelease, PresentFence, frameCore, contextVars, frameVars
  <2>2. /\ Len(queue) \in Nat \ {0} /\ DOMAIN queue = 1 .. Len(queue)
        /\ Len(queue') = Len(queue) - 1
        /\ DOMAIN queue' = 1 .. Len(queue) - 1
        /\ \A i \in DOMAIN queue' : i + 1 \in DOMAIN queue /\ queue'[i] = queue[i + 1]
        /\ Head(queue) = queue[1]
    BY <2>1 DEF CoreType
  <2>3. timeline' = timeline + 1
    BY <2>1, <2>2 DEF QueueNumbered
  <2>4. QueueNumbered'
    BY <2>1, <2>2, <2>3 DEF QueueNumbered, CoreType
  <2>5. SlotsRemember'
    BY <2>1, <2>2 DEF SlotsRemember, CurrentSlot, Retired
  <2>6. RetiredOnce' /\ ContextGone'
    BY <2>1 DEF RetiredOnce, Retired, ContextGone
  <2>7. NoUseAfterFree' /\ CommandBuffersDone'
    BY <2>1, <2>2 DEF NoUseAfterFree, CommandBuffersDone
  <2>. QED BY <2>4, <2>5, <2>6, <2>7
<1>. QED
  BY <1>1, <1>2

LEMMA NextKeepsFrameInvariant ==
  ASSUME CoreType, FrameInvariant, [Next]_vars
  PROVE  FrameInvariant'
<1>1. CASE CreateContext
  BY <1>1, CreateContextKeepsInvariant
<1>2. CASE DestroyContext
  BY <1>2, DestroyContextKeepsInvariant
<1>3. CASE Begin
  BY <1>3, BeginKeepsInvariant
<1>4. CASE End
  BY <1>4, EndKeepsInvariant
<1>5. CASE \E o \in Objects : QueueDestroyer(o)
  BY <1>5, QueueDestroyerKeepsInvariant
<1>6. CASE \E b \in Buffers : CreateScratchHostBuffer(b)
  BY <1>6, CreateScratchHostBufferKeepsInvariant
<1>7. CASE \E uses \in SUBSET Usable, scs \in PresentLists : EndCommandBuffer(uses, scs)
  BY <1>7, EndCommandBufferKeepsInvariant
<1>8. CASE GpuStep
  BY <1>8, GpuKeepsInvariant
<1>9. CASE \E sc \in Swapchains : SwapchainCall(sc)
  BY <1>9, SwapchainCallsLeaveFrames, FrameInvariantStutter
<1>10. CASE Wait \/ BeginCommandBuffer \/ PresentNext \/ Aborted \/ UNCHANGED vars
  <2>1. UNCHANGED frameCore
    BY <1>10 DEF Wait, TimesOut, BeginCommandBuffer, PresentNext, ImagePresented, Aborted,
       Fatal, frameCore, vars, gpuVars, contextVars, frameVars
  <2>. QED BY <2>1, FrameInvariantStutter
<1>. QED
  BY <1>1, <1>2, <1>3, <1>4, <1>5, <1>6, <1>7, <1>8, <1>9, <1>10
     DEF Next, ContextCall
-----------------------------------------------------------------------------
(* The frames keep their invariant: begin waits for the one number that      *)
(* bounds everything its slot is about to give up.                          *)
THEOREM FrameInvariantAlways == Spec => []FrameInvariant
<1>1. TypeInvariant => CoreType
  BY DEF TypeInvariant, TypeOK, GpuType, FrameType, CoreType
<1>2. FrameInvariant /\ CoreType /\ [Next]_vars => FrameInvariant'
  BY NextKeepsFrameInvariant
<1>. QED
  BY TypesAlways, FrameInvariantInit, <1>1, <1>2, PTL DEF Spec

(* Slots, timeline values and lists stay typed and bounded by what the slot  *)
(* remembers: what vkm_context_begin relies on when it gives a slot up.     *)
THEOREM FramesAlwaysSound == Spec => []FramesSound
<1>1. TypeOK /\ FrameInvariant => FramesSound
  BY DEF FramesSound
<1>. QED BY <1>1, TypeCorrect, FrameInvariantAlways, PTL

(* vkm_context_begin, vkm_destroyContext: whatever runs a destroyer or frees *)
(* a scratch buffer, no unfinished submission uses what it destroys - for   *)
(* any number of slots, submissions, objects and swapchains, any refusals   *)
(* of the driver, and any of the client's liberties.                        *)
THEOREM NothingFreedInUse == Spec => []NoUseAfterFree
<1>1. FrameInvariant => NoUseAfterFree
  BY DEF FrameInvariant
<1>. QED
  BY FrameInvariantAlways, <1>1, PTL

(* vkm_context_beginCommandBuffer: the command buffers a slot hands out      *)
(* again, after begin has reset its pool, are in no unfinished submission.  *)
THEOREM CommandBuffersReusable == Spec => []CommandBuffersDone
<1>1. FrameInvariant => CommandBuffersDone
  BY DEF FrameInvariant
<1>. QED
  BY FrameInvariantAlways, <1>1, PTL
-----------------------------------------------------------------------------
(* The frames implement the abstract DeferredDestruction.                   *)

AllRetired == UNION {Retired(f) : f \in Frames}
Work == {[id |-> queue[i].value, uses |-> queue[i].uses] : i \in DOMAIN queue}

(* A call that leaves the frames alone is a stutter.                        *)
LEMMA UnchangedIsStutter ==
  ASSUME UNCHANGED frameCore
  PROVE  UNCHANGED Destruction!destructionVars
<1>1. UNCHANGED <<live, queue>> /\ \A f \in Frames : Retired(f)' = Retired(f)
  BY DEF frameCore, Retired
<1>. QED
  BY <1>1 DEF Destruction!destructionVars

(* A frame that begins destroys what its slot had given up.                 *)
LEMMA BeginDestroys ==
  ASSUME CoreType, FrameInvariant, Begin, ~ UNCHANGED frameCore
  PROVE  Destruction!Destroy(Retired(frameID))
<1>. USE DEF FrameInvariant
<1>1. /\ UNCHANGED <<queue, frameID>> /\ ~ inFrame /\ SlotDone(frameID)
      /\ live' = live \ Retired(frameID)
      /\ pendingDestroyers' = [pendingDestroyers EXCEPT ![frameID] = {}]
      /\ pendingScratchBuffers' = [pendingScratchBuffers EXCEPT ![frameID] = {}]
  BY DEF Begin, TimesOut, Fatal, frameCore, gpuVars, contextVars, frameVars
<1>2. \A i \in DOMAIN queue : queue[i].uses \intersect Retired(frameID) = {}
  BY <1>1, SlotDoneFreesSlot
<1>3. \A f \in Frames : Retired(f)' = IF f = frameID THEN {} ELSE Retired(f)
  BY <1>1 DEF Retired, CoreType
<1>4. frameID \in Frames
  BY DEF CoreType
<1>5. AllRetired' = AllRetired \ Retired(frameID)
  BY <1>3, <1>4 DEF AllRetired, RetiredOnce
<1>6. Retired(frameID) \subseteq AllRetired
  BY <1>4 DEF AllRetired
<1>7. Work' = Work /\ \A w \in Work : w.uses \intersect Retired(frameID) = {}
  BY <1>1, <1>2 DEF Work
<1>. QED
  BY <1>1, <1>5, <1>6, <1>7 DEF Destruction!Destroy, AllRetired, Work

(* destroyContext destroys what every slot had given up.                    *)
LEMMA DestroyContextDestroys ==
  ASSUME CoreType, FrameInvariant, DestroyContext, ~ UNCHANGED frameCore,
         "reentrant" \notin Liberties
  PROVE  Destruction!Destroy(AllRetired)
<1>1. /\ Reached(pendingValue) /\ FreshFrames /\ UNCHANGED queue
      /\ live' = live \ AllRetired
  BY DEF DestroyContext, TimesOut, Fatal, frameCore, gpuVars, contextVars, frameVars, AllRetired,
     QueuedByDestroyers
<1>2. queue = <<>>
  BY <1>1 DEF FrameInvariant, QueueNumbered, Reached, CoreType
<1>3. Work = {} /\ Work' = {}
  BY <1>1, <1>2 DEF Work
<1>4. AllRetired' = {}
  BY <1>1 DEF AllRetired, Retired, FreshFrames
<1>. QED
  BY <1>1, <1>3, <1>4 DEF Destruction!Destroy, AllRetired, Work

LEMMA EndCommandBufferSubmits ==
  ASSUME CoreType, FrameInvariant, NEW uses \in SUBSET Usable, NEW scs,
         EndCommandBuffer(uses, scs), ~ UNCHANGED frameCore
  PROVE  \E w \in Work' \ Work : Destruction!Submit(w)
<1>. DEFINE w == [id |-> pendingValue + 1, uses |-> uses]
<1>1. /\ UNCHANGED <<pendingScratchBuffers, pendingDestroyers, live>>
      /\ queue' = Append(queue, Batch(uses, scs))
  BY DEF EndCommandBuffer, Submit, Fatal, frameCore, gpuVars, contextVars, frameVars
<1>2. Batch(uses, scs).value = pendingValue + 1 /\ Batch(uses, scs).uses = uses
  BY DEF Batch
<1>3. /\ DOMAIN queue' = DOMAIN queue \union {Len(queue) + 1}
      /\ \A i \in DOMAIN queue : queue'[i] = queue[i]
      /\ queue'[Len(queue) + 1] = Batch(uses, scs)
  BY <1>1 DEF CoreType
<1>4. Work' = Work \union {w}
  BY <1>2, <1>3 DEF Work
<1>5. w \notin Work
  <2>1. \A i \in DOMAIN queue : queue[i].value # pendingValue + 1
    BY DEF FrameInvariant, QueueNumbered, CoreType
  <2>. QED BY <2>1 DEF Work
<1>6. AllRetired' = AllRetired
  BY <1>1 DEF AllRetired, Retired
<1>7. Destruction!Submit(w)
  BY <1>1, <1>4, <1>5, <1>6 DEF Destruction!Submit, Usable, Work, AllRetired
<1>8. w \in Work' \ Work
  BY <1>4, <1>5
<1>. QED
  BY <1>7, <1>8 DEF Destruction!Submit

LEMMA GpuFinishes ==
  ASSUME CoreType, FrameInvariant, GpuStep, ~ UNCHANGED frameCore
  PROVE  \E w \in Work : Destruction!Finish(w)
<1>. DEFINE w == [id |-> queue[1].value, uses |-> queue[1].uses]
<1>1. /\ UNCHANGED <<pendingScratchBuffers, pendingDestroyers, live>>
      /\ queue # <<>> /\ queue' = Tail(queue)
  BY DEF GpuStep, Gpu, SignalAcquire, ExecuteBatch, Present, PresentWait,
     PresentRelease, PresentFence, frameCore, contextVars, frameVars
<1>2. /\ DOMAIN queue = 1 .. Len(queue) /\ Len(queue) \in Nat \ {0}
      /\ DOMAIN queue' = 1 .. Len(queue) - 1
      /\ \A i \in DOMAIN queue' : queue'[i] = queue[i + 1]
  BY <1>1 DEF CoreType
<1>3. w \in Work
  <2>1. 1 \in DOMAIN queue
    BY <1>2
  <2>. QED BY <2>1 DEF Work
<1>4. \A i \in DOMAIN queue \ {1} : queue[i].value # queue[1].value
  <2>1. \A i \in DOMAIN queue : queue[i].value = timeline + i /\ i \in Nat /\ timeline \in Nat
    BY <1>2 DEF FrameInvariant, QueueNumbered, CoreType
  <2>2. 1 \in DOMAIN queue
    BY <1>2
  <2>. QED BY <2>1, <2>2
<1>5. Work' = Work \ {w}
  <2>1. ASSUME NEW v \in Work \ {w} PROVE v \in Work'
    <3>1. PICK i \in DOMAIN queue \ {1} : v = [id |-> queue[i].value, uses |-> queue[i].uses]
      BY <2>1 DEF Work
    <3>2. i - 1 \in DOMAIN queue' /\ queue'[i - 1] = queue[i]
      BY <1>2
    <3>. QED BY <3>1, <3>2 DEF Work
  <2>2. ASSUME NEW v \in Work' PROVE v \in Work \ {w}
    <3>1. PICK i \in DOMAIN queue' : v = [id |-> queue'[i].value, uses |-> queue'[i].uses]
      BY <2>2 DEF Work
    <3>2. i + 1 \in DOMAIN queue \ {1} /\ queue'[i] = queue[i + 1]
      BY <1>2
    <3>. QED BY <3>1, <3>2, <1>4 DEF Work
  <2>. QED BY <2>1, <2>2
<1>6. AllRetired' = AllRetired
  BY <1>1 DEF AllRetired, Retired
<1>. QED
  BY <1>1, <1>3, <1>5, <1>6 DEF Destruction!Finish, Work, AllRetired

LEMMA QueueDestroyerRetires ==
  ASSUME CoreType, FrameInvariant, NEW o \in Objects, QueueDestroyer(o)
  PROVE  Destruction!Retire(o)
<1>1. /\ UNCHANGED <<queue, live, pendingScratchBuffers>> /\ o \in live \ doomed
      /\ pendingDestroyers' =
           [pendingDestroyers EXCEPT ![frameID] = pendingDestroyers[frameID] \union {o}]
      /\ frameID \in Frames
  BY DEF QueueDestroyer, gpuVars, CoreType
<1>2. AllRetired' = AllRetired \union {o}
  BY <1>1 DEF AllRetired, Retired, CoreType
<1>3. o \notin AllRetired
  BY <1>1, ContextAssumption DEF AllRetired, Retired, FrameInvariant, RetiredOnce, CoreType
<1>. QED
  BY <1>1, <1>2, <1>3 DEF Destruction!Retire, AllRetired

LEMMA CreateScratchHostBufferLeases ==
  ASSUME CoreType, NEW b \in Buffers, CreateScratchHostBuffer(b)
  PROVE  Destruction!Lease(b)
<1>1. /\ UNCHANGED <<queue, pendingDestroyers>> /\ b \notin live
      /\ live' = live \union {b}
      /\ pendingScratchBuffers' =
           [pendingScratchBuffers EXCEPT ![frameID] = pendingScratchBuffers[frameID] \union {b}]
      /\ frameID \in Frames
  BY DEF CreateScratchHostBuffer, gpuVars, CoreType
<1>2. AllRetired' = AllRetired \union {b}
  BY <1>1 DEF AllRetired, Retired, CoreType
<1>. QED
  BY <1>1, <1>2 DEF Destruction!Lease, AllRetired, Resources

LEMMA CreateContextIsStutter ==
  ASSUME FrameInvariant, CreateContext
  PROVE  UNCHANGED Destruction!destructionVars
<1>1. UNCHANGED <<queue, live>> /\ ~ alive /\ FreshFrames
  BY DEF CreateContext
<1>2. \A f \in Frames : Retired(f) = {} /\ Retired(f)' = {}
  BY <1>1 DEF FrameInvariant, ContextGone, FreshFrames, Retired
<1>. QED
  BY <1>1, <1>2 DEF Destruction!destructionVars

LEMMA NextDestroysDeferred ==
  ASSUME CoreType, FrameInvariant, [Next]_vars, "reentrant" \notin Liberties
  PROVE  [Destruction!Next]_(Destruction!destructionVars)
<1>1. CASE UNCHANGED frameCore
  BY <1>1, UnchangedIsStutter
<1>2. CASE ~ UNCHANGED frameCore
  <2>. USE <1>2
  <2>1. CASE CreateContext
    BY <2>1, CreateContextIsStutter
  <2>2. CASE DestroyContext
    BY <2>2, DestroyContextDestroys DEF Destruction!Next, AllRetired
  <2>3. CASE Begin
    <3>1. Retired(frameID) \in SUBSET UNION {Retired(f) : f \in Frames}
      BY DEF CoreType
    <3>. QED BY <2>3, <3>1, BeginDestroys DEF Destruction!Next
  <2>4. ASSUME NEW o \in Objects, QueueDestroyer(o) PROVE Destruction!Next
    BY <2>4, QueueDestroyerRetires DEF Destruction!Next, Resources
  <2>5. ASSUME NEW b \in Buffers, CreateScratchHostBuffer(b) PROVE Destruction!Next
    BY <2>5, CreateScratchHostBufferLeases DEF Destruction!Next, Resources
  <2>6. ASSUME NEW uses \in SUBSET Usable, NEW scs, EndCommandBuffer(uses, scs)
        PROVE  Destruction!Next
    BY <2>6, EndCommandBufferSubmits DEF Destruction!Next, Work
  <2>7. CASE GpuStep
    BY <2>7, GpuFinishes DEF Destruction!Next, Work
  <2>8. CASE End \/ Wait \/ BeginCommandBuffer \/ PresentNext \/ Aborted \/ UNCHANGED vars
    <3>1. UNCHANGED <<queue, live, pendingDestroyers, pendingScratchBuffers>>
      BY <2>8 DEF End, Wait, TimesOut, BeginCommandBuffer, PresentNext, ImagePresented,
         Aborted, Fatal, vars, gpuVars, contextVars, frameVars
    <3>2. \A f \in Frames : Retired(f)' = Retired(f)
      BY <3>1 DEF Retired
    <3>. QED BY <3>1, <3>2 DEF Destruction!destructionVars
  <2>9. CASE \E sc \in Swapchains : SwapchainCall(sc)
    BY <2>9, SwapchainCallsLeaveFrames
  <2>. QED
    BY <2>1, <2>2, <2>3, <2>4, <2>5, <2>6, <2>7, <2>8, <2>9 DEF Next, ContextCall
<1>. QED
  BY <1>1, <1>2

(* vkm.h promises that what a frame is given is destroyed when the frame is  *)
(* done: the slots, their timeline values and their lists implement that    *)
(* promise as DeferredDestruction states it, with none of them in sight -    *)
(* for clients whose destroyers queue nothing, which destroyContext might   *)
(* destroy in the very call that was given it.                              *)
THEOREM FramesDeferDestruction ==
  ASSUME "reentrant" \notin Liberties
  PROVE  Spec => DestructionDeferred
<1>1. Init => Destruction!Init
  BY DEF Init, VulkanInit, Destruction!Init, Retired, Resources
<1>2. TypeInvariant => CoreType
  BY DEF TypeInvariant, TypeOK, GpuType, FrameType, CoreType
<1>3. CoreType /\ FrameInvariant /\ [Next]_vars =>
        [Destruction!Next]_(Destruction!destructionVars)
  BY NextDestroysDeferred
<1>. QED
  BY <1>1, <1>2, <1>3, TypesAlways, FrameInvariantAlways, PTL
     DEF Spec, DestructionDeferred, Destruction!Spec
-----------------------------------------------------------------------------
(* What queueDestroyer was given stays in a slot until it is destroyed.     *)

LEMMA DestroyersKept ==
  ASSUME CoreType, doomed \subseteq Objects, FrameInvariant, DestroyersRemembered, [Next]_vars,
         "reentrant" \notin Liberties
  PROVE  DestroyersRemembered'
<1>1. CASE UNCHANGED <<doomed, live, pendingDestroyers>>
  BY <1>1 DEF DestroyersRemembered
<1>2. CASE CreateContext
  <2>1. UNCHANGED <<doomed, live>> /\ \A f \in Frames : pendingDestroyers[f] = {}
    BY <1>2 DEF CreateContext, FrameInvariant, ContextGone, Retired
  <2>. QED BY <2>1 DEF DestroyersRemembered
<1>3. CASE DestroyContext /\ ~ UNCHANGED <<doomed, live, pendingDestroyers>>
  <2>1. doomed' = doomed /\ live' = live \ UNION {Retired(f) : f \in Frames}
    BY <1>3 DEF DestroyContext, TimesOut, Fatal, contextVars, frameVars, QueuedByDestroyers
  <2>. QED BY <2>1 DEF DestroyersRemembered, Retired
<1>4. CASE Begin /\ ~ UNCHANGED <<doomed, live, pendingDestroyers>>
  <2>1. /\ doomed' = doomed
        /\ live' = live \ Retired(frameID)
        /\ pendingDestroyers' = [pendingDestroyers EXCEPT ![frameID] = {}]
    BY <1>4 DEF Begin, TimesOut, Fatal, contextVars, frameVars, QueuedByDestroyers
  <2>2. SUFFICES ASSUME NEW o \in doomed, o \in live, o \notin Retired(frameID)
                 PROVE  \E f \in Frames : o \in pendingDestroyers'[f]
    BY <2>1 DEF DestroyersRemembered
  <2>3. PICK f \in Frames : o \in pendingDestroyers[f]
    BY <2>2 DEF DestroyersRemembered
  <2>4. f # frameID
    BY <2>2, <2>3 DEF Retired
  <2>. QED BY <2>1, <2>3, <2>4 DEF CoreType
<1>5. ASSUME NEW o \in Objects, QueueDestroyer(o) PROVE DestroyersRemembered'
  <2>1. /\ live' = live /\ doomed' = doomed \union {o} /\ frameID \in Frames
        /\ pendingDestroyers' =
             [pendingDestroyers EXCEPT ![frameID] = pendingDestroyers[frameID] \union {o}]
    BY <1>5 DEF QueueDestroyer, CoreType
  <2>2. \A f \in Frames : pendingDestroyers[f] \subseteq pendingDestroyers'[f]
    BY <2>1 DEF CoreType
  <2>3. o \in pendingDestroyers'[frameID]
    BY <2>1 DEF CoreType
  <2>. QED BY <2>1, <2>2, <2>3 DEF DestroyersRemembered
<1>6. ASSUME NEW b \in Buffers, CreateScratchHostBuffer(b) PROVE DestroyersRemembered'
  <2>1. UNCHANGED <<doomed, pendingDestroyers>> /\ live' = live \union {b}
    BY <1>6 DEF CreateScratchHostBuffer
  <2>2. b \notin doomed
    BY ContextAssumption
  <2>. QED BY <2>1, <2>2 DEF DestroyersRemembered
<1>7. CASE \/ End \/ Wait \/ BeginCommandBuffer \/ PresentNext \/ Aborted \/ UNCHANGED vars
           \/ \E uses \in SUBSET Usable, scs \in PresentLists : EndCommandBuffer(uses, scs)
  <2>1. UNCHANGED <<doomed, live, pendingDestroyers>>
    BY <1>7 DEF End, Wait, TimesOut, BeginCommandBuffer, PresentNext, Aborted, EndCommandBuffer,
       Submit, Fatal, vars, contextVars, frameVars
  <2>. QED BY <2>1, <1>1
<1>8. CASE GpuStep
  BY <1>1, <1>8 DEF GpuStep, contextVars, frameVars
<1>9. CASE \E sc \in Swapchains : SwapchainCall(sc)
  BY <1>1, <1>9, SwapchainCallsLeaveFrames DEF frameCore
<1>. QED
  BY <1>1, <1>2, <1>3, <1>4, <1>5, <1>6, <1>7, <1>8, <1>9 DEF Next, ContextCall

(* vkm_context_queueDestroyer: what the client hands over exists or is still  *)
(* in a slot's list, whatever frames, resizes and context destructions come - *)
(* for clients whose destroyers do not queue destroyers themselves, which     *)
(* begin would forget (context.cpp:174).                                     *)
THEOREM DestroyersAlwaysRemembered ==
  ASSUME "reentrant" \notin Liberties
  PROVE  Spec => []DestroyersRemembered
<1>1. Init => DestroyersRemembered
  BY DEF Init, DestroyersRemembered
<1>2. TypeInvariant => CoreType /\ doomed \subseteq Objects
  BY DEF TypeInvariant, TypeOK, GpuType, FrameType, CoreType
<1>3. CoreType /\ doomed \subseteq Objects /\ FrameInvariant /\ DestroyersRemembered /\ [Next]_vars
        => DestroyersRemembered'
  BY DestroyersKept
<1>. QED
  BY <1>1, <1>2, <1>3, TypesAlways, FrameInvariantAlways, PTL DEF Spec
-----------------------------------------------------------------------------
(* The present mode in effect is the one that was asked for.                *)

(* As long as no call was refused, what a switch in place takes for          *)
(* compatible was declared when the VkSwapchainKHR was created, and the      *)
(* mode in effect is the one set, or will be with the next present.          *)
ModeDeclared(sc) ==
  /\ result[sc] # "FORMAT_NOT_SUPPORTED"
  /\ ~ Maint1 => settings[sc].compatiblePresentModes = {}
  /\ result[sc] # "SURFACE_LOST" =>
       /\ settings[sc].compatiblePresentModes \subseteq vkSwapchain[sc].modes
       /\ settings[sc].pendingPresentChain => settings[sc].vkPresentMode \in vkSwapchain[sc].modes
       /\ ~ settings[sc].pendingPresentChain => settings[sc].vkPresentMode = vkSwapchain[sc].mode

ModesDeclared == \A sc \in Swapchains : ModeDeclared(sc)

(* What a call on one swapchain does to the modes of all                     *)
ModesStep(sc) ==
  \A o \in Swapchains \ {sc} :
    /\ settings'[o] = settings[o] /\ vkSwapchain'[o] = vkSwapchain[o]
    /\ result'[o] = result[o]

ModesTyped ==
  /\ settings \in [Swapchains -> SettingsType]
  /\ vkSwapchain \in [Swapchains -> VkSwapchainType]
  /\ result \in [Swapchains -> {"NONE", "SUCCESS", "SURFACE_LOST", "FORMAT_NOT_SUPPORTED"}]

LEMMA OneModeStep ==
  ASSUME ModesDeclared, NEW sc \in Swapchains, ModesStep(sc), ModeDeclared(sc)'
  PROVE  ModesDeclared'
BY DEF ModesDeclared, ModeDeclared, ModesStep

LEMMA ResizedDeclares ==
  ASSUME ModesDeclared, ModesTyped, NEW sc \in Swapchains, NEW mode \in Modes, NEW extent,
         Resized(sc, mode, extent, HeldByFrames), "format" \notin Faults
  PROVE  ModesDeclared'
<1>1. CASE ResizeFails(sc, mode, extent)
  <2>1. PICK new : /\ settings' = [settings EXCEPT ![sc] = new]
                   /\ result' = [result EXCEPT ![sc] = "SURFACE_LOST"]
                   /\ vkSwapchain' = vkSwapchain
                   /\ ~ Maint1 => new.compatiblePresentModes = settings[sc].compatiblePresentModes
    <3>. DEFINE switched == [settings[sc] EXCEPT !.vkPresentMode = mode]
                adopted == Adopted(sc, mode, extent)
    <3>1. /\ result' = [result EXCEPT ![sc] = "SURFACE_LOST"] /\ vkSwapchain' = vkSwapchain
          /\ \/ settings' = [settings EXCEPT ![sc] = switched]
             \/ settings' = [settings EXCEPT ![sc] = adopted]
      BY <1>1 DEF ResizeFails, ModesTyped
    <3>2. /\ switched.compatiblePresentModes = settings[sc].compatiblePresentModes
          /\ ~ Maint1 => adopted.compatiblePresentModes = settings[sc].compatiblePresentModes
      BY DEF ModesTyped, SettingsType, Adopted
    <3>. HIDE DEF switched, adopted
    <3>. QED BY <3>1, <3>2
  <2>2. ModesStep(sc) /\ ModeDeclared(sc)'
    BY <2>1 DEF ModesStep, ModesDeclared, ModeDeclared, ModesTyped
  <2>. QED BY <2>2, OneModeStep
<1>2. CASE ResizeSucceeds(sc, mode, extent, HeldByFrames)
  <2>1. /\ ~ SurfaceLost(sc)
        /\ settings' = [settings EXCEPT ![sc] = Adopted(sc, mode, extent)]
        /\ vkSwapchain' = [vkSwapchain EXCEPT ![sc] =
                             [mode |-> mode,
                              modes |-> IF Maint1 THEN CompatibleWith[mode] ELSE {mode}]]
        /\ result' = [result EXCEPT ![sc] = "SUCCESS"]
    BY <1>2 DEF ResizeSucceeds
  <2>2. ModesStep(sc)
    BY <2>1 DEF ModesStep, ModesTyped
  <2>3. ModeDeclared(sc)'
    BY <2>1, SwapchainAssumption DEF ModeDeclared, ModesDeclared, ModesTyped, SettingsType,
       VkSwapchainType, Adopted
  <2>. QED BY <2>2, <2>3, OneModeStep
<1>. QED
  BY <1>1, <1>2 DEF Resized

LEMMA ModeChangeDeclares ==
  ASSUME ModesDeclared, ModesTyped, NEW sc \in Swapchains, NEW preferred \in Seq(Modes), NEW extent,
         PresentModeChanged(sc, preferred, extent, HeldByFrames), "format" \notin Faults
  PROVE  ModesDeclared'
<1>. DEFINE mode == FindPresentMode(preferred)
<1>1. mode \in Modes
  BY FindPresentModeSupported, SwapchainAssumption
<1>. HIDE DEF mode
<1>2. CASE /\ settings' = [settings EXCEPT ![sc].vkPresentMode = "FIFO"]
           /\ result' = [result EXCEPT ![sc] = "SURFACE_LOST"]
           /\ UNCHANGED vkSwapchain
  <2>1. ModesStep(sc) /\ ModeDeclared(sc)'
    BY <1>2 DEF ModesStep, ModesDeclared, ModeDeclared, ModesTyped, SettingsType
  <2>. QED BY <2>1, OneModeStep
<1>3. CASE /\ ~ SurfaceLost(sc)
           /\ mode = settings[sc].vkPresentMode \/ Switchable(sc, mode)
           /\ settings' = [settings EXCEPT
                             ![sc].vkPresentMode = mode,
                             ![sc].pendingPresentChain = @ \/ mode # settings[sc].vkPresentMode]
           /\ result' = [result EXCEPT ![sc] = "SUCCESS"]
           /\ UNCHANGED vkSwapchain
  <2>1. PICK chain \in BOOLEAN :
          /\ chain <=> settings[sc].pendingPresentChain \/ mode # settings[sc].vkPresentMode
          /\ settings' = [settings EXCEPT ![sc] =
                            [settings[sc] EXCEPT !.vkPresentMode = mode, !.pendingPresentChain = chain]]
    BY <1>3 DEF SettingsType, ModesTyped
  <2>2. ModesStep(sc)
    BY <1>3, <2>1 DEF ModesStep, ModesTyped
  <2>3. ModeDeclared(sc)
    BY DEF ModesDeclared
  <2>4. /\ settings'[sc].vkPresentMode = mode
        /\ settings'[sc].compatiblePresentModes = settings[sc].compatiblePresentModes
        /\ settings'[sc].pendingPresentChain <=> chain
        /\ vkSwapchain' = vkSwapchain /\ result'[sc] = "SUCCESS" /\ result[sc] # "SURFACE_LOST"
    BY <1>3, <2>1 DEF SettingsType, ModesTyped, SurfaceLost
  <2>5. ModeDeclared(sc)'
    BY <1>3, <2>1, <2>3, <2>4 DEF ModeDeclared, Switchable
  <2>. QED BY <2>2, <2>5, OneModeStep
<1>4. CASE Resized(sc, mode, extent, HeldByFrames)
  BY <1>1, <1>4, ResizedDeclares
<1>. QED
  BY <1>2, <1>3, <1>4 DEF PresentModeChanged, mode

LEMMA SwapchainCallDeclares ==
  ASSUME TypeInvariant, ModesDeclared, NEW sc \in Swapchains, SwapchainCall(sc),
         "format" \notin Faults
  PROVE  ModesDeclared'
<1>1. ModesTyped
  BY DEF TypeInvariant, TypeOK, SwapchainType, ModesTyped
<1>2. CASE CreateSwapchain(sc) \/ ChangeVkPresentMode(sc)
  <2>1. PICK p \in Preferred : PresentModeChanged(sc, p[1], p[2], HeldByFrames)
    BY <1>2 DEF CreateSwapchain, ChangeVkPresentMode, SwapchainCreated
  <2>. QED BY <1>1, <2>1, PreferenceTyped, ModeChangeDeclares
<1>3. CASE Resize(sc)
  <2>1. PICK extent \in Extents : Resized(sc, settings[sc].vkPresentMode, extent, HeldByFrames)
    BY <1>3 DEF Resize
  <2>2. settings[sc].vkPresentMode \in Modes
    BY <1>3 DEF Resize, MayResize, TypeInvariant, Shape
  <2>. QED BY <1>1, <2>1, <2>2, ResizedDeclares
<1>4. CASE DestroySwapchain(sc)
  <2>1. /\ settings' = [settings EXCEPT ![sc] = NewSettings]
        /\ vkSwapchain' = [vkSwapchain EXCEPT ![sc] = NoVkSwapchain]
        /\ result' = [result EXCEPT ![sc] = "NONE"]
    BY <1>4 DEF DestroySwapchain, SwapchainDestroyed
  <2>2. ModesStep(sc) /\ ModeDeclared(sc)'
    BY <1>1, <2>1 DEF ModesStep, ModeDeclared, ModesTyped, NewSettings, NoVkSwapchain
  <2>. QED BY <2>2, OneModeStep
<1>5. CASE ImageWaitTimesOut(sc) \/ AcquireSwapchain(sc) \/ AcquireTimesOut(sc)
  <2>1. UNCHANGED <<settings, vkSwapchain, result>>
    BY <1>5 DEF ImageWaitTimesOut, AcquireSwapchain, AcquireTimesOut, Fatal, swapchainVars
  <2>. QED BY <2>1 DEF ModesDeclared, ModeDeclared
<1>. QED
  BY <1>2, <1>3, <1>4, <1>5 DEF SwapchainCall

(* A present declares the mode that was set since the last one.             *)
LEMMA PresentDeclares ==
  ASSUME ModesTyped, ModesDeclared, NEW sc \in Swapchains, ImagePresented(sc)
  PROVE  ModesDeclared'
<1>1. /\ vkSwapchain' = [vkSwapchain EXCEPT ![sc].mode =
                            IF settings[sc].pendingPresentChain THEN settings[sc].vkPresentMode
                            ELSE vkSwapchain[sc].mode]
      /\ settings' = [settings EXCEPT ![sc].pendingPresentChain = FALSE]
      /\ result' = result
  BY DEF ImagePresented
<1>2. ModesStep(sc)
  BY <1>1 DEF ModesStep, ModesTyped
<1>3. /\ ~ settings'[sc].pendingPresentChain
      /\ settings'[sc].vkPresentMode = settings[sc].vkPresentMode
      /\ settings'[sc].compatiblePresentModes = settings[sc].compatiblePresentModes
      /\ vkSwapchain'[sc].modes = vkSwapchain[sc].modes
      /\ vkSwapchain'[sc].mode = IF settings[sc].pendingPresentChain THEN settings[sc].vkPresentMode
                                 ELSE vkSwapchain[sc].mode
  BY <1>1 DEF ModesTyped, SettingsType, VkSwapchainType
<1>4. ModeDeclared(sc)'
  BY <1>1, <1>3 DEF ModesDeclared, ModeDeclared
<1>. QED
  BY <1>2, <1>4, OneModeStep

LEMMA NextDeclares ==
  ASSUME TypeInvariant, ModesDeclared, [Next]_vars, "format" \notin Faults
  PROVE  ModesDeclared'
<1>1. CASE \E sc \in Swapchains : SwapchainCall(sc)
  BY <1>1, SwapchainCallDeclares
<1>2. CASE PresentNext /\ ~ UNCHANGED swapchainVars
  <2>1. ImagePresented(Head(presenting)) /\ presenting # <<>>
    BY <1>2 DEF PresentNext, Fatal
  <2>2. Head(presenting) \in Swapchains
    BY <2>1 DEF TypeInvariant, TypeOK, FrameType
  <2>3. ModesTyped
    BY DEF TypeInvariant, TypeOK, SwapchainType, ModesTyped
  <2>. QED BY <2>1, <2>2, <2>3, PresentDeclares
<1>3. CASE UNCHANGED <<settings, vkSwapchain, result>>
  BY <1>3 DEF ModesDeclared, ModeDeclared
<1>4. CASE \/ ContextCall /\ ~ PresentNext
           \/ GpuStep \/ Aborted \/ UNCHANGED vars
  <2>1. UNCHANGED <<settings, vkSwapchain, result>>
    BY <1>4 DEF ContextCall, CreateContext, DestroyContext, Begin, End, Wait, QueueDestroyer,
       CreateScratchHostBuffer, BeginCommandBuffer, EndCommandBuffer, Fatal, TimesOut, GpuStep,
       Aborted, vars, swapchainVars
  <2>. QED BY <2>1, <1>3
<1>. QED
  BY <1>1, <1>2, <1>3, <1>4 DEF Next, ContextCall, swapchainVars

(* vkm_swapchain_changeVkPresentMode, vkm_swapchain_resize and present: a    *)
(* swapchain that answered VK_SUCCESS presents in the mode it reports, and    *)
(* declares no mode its VkSwapchainKHR was not created with, for any          *)
(* surface, list of preferences and order of calls.  A resize that found no   *)
(* surface format (swapchain.cpp:366) leaves a mode behind that was never     *)
(* put into effect; it is what Faults must not have.                         *)
THEOREM ModeAlwaysInEffect ==
  ASSUME "format" \notin Faults
  PROVE  Spec => []ModeInEffect
<1>1. Init => ModesDeclared
  BY DEF Init, SwapchainInit, ModesDeclared, ModeDeclared, NewSettings, NoVkSwapchain
<1>2. TypeInvariant /\ ModesDeclared /\ [Next]_vars => ModesDeclared'
  BY NextDeclares
<1>3. TypeInvariant /\ ModesDeclared => ModeInEffect
  BY DEF ModesDeclared, ModeDeclared, ModeInEffect, TypeInvariant, TypeOK
<1>. QED
  BY <1>1, <1>2, <1>3, TypesAlways, PTL DEF Spec
=============================================================================
