----------------------------- MODULE HandleProofs -----------------------------
(***************************************************************************)
(* Proof that semaphores and fences go round safely, for a client that     *)
(* submits what it acquires in the frame it acquires it in and does not    *)
(* resize a swapchain with an acquired image, whatever the driver refuses: *)
(* whatever is lent has one holder, and whatever is not lent is idle. From *)
(* it, proof that no wait of the library runs into its timeout when the    *)
(* driver refuses no acquire either: whenever the GPU and the engine       *)
(* cannot move, they have nothing left to do.                              *)
(***************************************************************************)
EXTENDS ContextProofs

(* Who holds a semaphore                                                     *)
LentToFrame(s) == \E f \in Frames : s \in pendingBinarySemaphores[f]
LentToImage(s) ==
  \E sc \in Swapchains : \E i \in DOMAIN images[sc] : images[sc][i].semaphore = s

(* OneHolder, holder by holder                                               *)
Exclusive ==
  /\ \A f \in Frames : \A s \in pendingBinarySemaphores[f] :
       s \notin freeSemaphores /\ ~ LentToImage(s)
  /\ \A f, g \in Frames : \A s \in pendingBinarySemaphores[f] :
       s \in pendingBinarySemaphores[g] => f = g
  /\ \A sc \in Swapchains : \A i \in DOMAIN images[sc] :
       images[sc][i].semaphore \notin freeSemaphores
  /\ \A a, b \in Swapchains : \A i \in DOMAIN images[a], j \in DOMAIN images[b] :
       images[a][i].semaphore = images[b][j].semaphore => a = b /\ i = j

UnlentIdle == \A s \in Semaphores : ~ LentToFrame(s) /\ ~ LentToImage(s) => Idle(s)

NoneLentWithoutContext == ~ alive => \A s \in Semaphores : ~ LentToFrame(s)

(* Only a slot's own semaphores are waited for, by the slot's submissions, and *)
(* none is left over from a frame that ended.                                *)
WaitsLent ==
  /\ \A f \in Frames : Range(pendingWaitSemaphores[f]) \subseteq pendingBinarySemaphores[f]
  /\ \A f \in Frames : ~ CurrentSlot(f) => pendingWaitSemaphores[f] = <<>>
  /\ \A i \in DOMAIN queue : Range(queue[i].waits) \subseteq pendingBinarySemaphores[queue[i].slot]

(* What the engine has promised to signal is on loan to a slot, and what is    *)
(* or will be signaled for a slot is yet to be waited for.                   *)
PromisesWaited ==
  /\ \A s \in acquiring : LentToFrame(s) /\ binary[s] = "pending"
  /\ \A s \in Semaphores : LentToFrame(s) /\ binary[s] # "unsignaled" =>
       \/ s \in Range(pendingWaitSemaphores[frameID])
       \/ \E i \in DOMAIN queue : s \in Range(queue[i].waits)

(* What the queue will signal belongs to an image, and is signaled once.      *)
SignalsLent ==
  /\ \A i \in DOMAIN queue : \A s \in queue[i].signals : LentToImage(s) /\ binary[s] = "pending"
  /\ \A i, j \in DOMAIN queue : i # j => queue[i].signals \intersect queue[j].signals = {}

(* A present still waiting, or with a fence to signal, is of an image there is, *)
(* which is not available before the present has waited.                      *)
PresentMatches(p) ==
  /\ "wait" \in p.todo => "image" \in p.todo /\ (p.fence # {} => "fence" \in p.todo)
  /\ "image" \in p.todo => engine[p.swapchain][p.image] = "presenting"
  /\ "fence" \in p.todo => p.fence # {} /\ \A f \in p.fence : fence[f] = "unsignaled"
  /\ "wait" \in p.todo \/ "fence" \in p.todo =>
       /\ p.image \in DOMAIN images[p.swapchain]
       /\ images[p.swapchain][p.image].semaphore = p.semaphore
       /\ images[p.swapchain][p.image].fence = p.fence

PresentsMatch == \A p \in presents : PresentMatches(p)

(* An image leaves the screen and has its fence signaled by one present.      *)
PresentsOnce ==
  \A p, q \in presents :
    /\ p.swapchain = q.swapchain /\ p.image = q.image
    /\ \/ "image" \in p.todo /\ "image" \in q.todo
       \/ "fence" \in p.todo /\ "fence" \in q.todo
    => p = q

(* An image's semaphore is idle unless the image is about to be presented, or  *)
(* its present has not waited for it yet.                                     *)
ImagesIdle ==
  \A sc \in Swapchains : \A i \in DOMAIN images[sc] :
    \/ Idle(images[sc][i].semaphore)
    \/ imageIndex[sc] = i /\ sc \in Range(presenting)
    \/ \E p \in presents : p.swapchain = sc /\ p.image = i /\ "wait" \in p.todo

(* A fence has one holder, and those of the pool are signaled.                *)
FencesLent ==
  /\ \A a, b \in Swapchains : \A i \in DOMAIN images[a], j \in DOMAIN images[b] :
       images[a][i].fence \intersect images[b][j].fence # {} => a = b /\ i = j
  /\ \A sc \in Swapchains : \A i \in DOMAIN images[sc] :
       /\ images[sc][i].fence \intersect freeFences = {}
       /\ images[sc][i].fence # {} <=> Maint1
  /\ \A f \in freeFences : fence[f] = "signaled"

NoIndexWithoutHandle == \A sc \in Swapchains \ swapchains : imageIndex[sc] = NoIndex

HandleInvariant ==
  /\ Exclusive /\ UnlentIdle /\ NoneLentWithoutContext
  /\ WaitsLent /\ PromisesWaited
  /\ SignalsLent /\ PresentsMatch /\ PresentsOnce /\ ImagesIdle
  /\ FencesLent
  /\ PresentsAcquired /\ NoIndexWithoutHandle

(* The part of the state the invariant is about, but for swapchains          *)
handleCore ==
  <<queue, binary, acquiring, fence, presents, engine, images, imageIndex,
    freeSemaphores, freeFences, alive, inFrame, frameID, pendingBinarySemaphores,
    pendingWaitSemaphores, presenting>>

(* The types it needs                                                        *)
HandleTypes ==
  /\ \A i \in DOMAIN queue : /\ queue[i].waits \in Seq(Semaphores)
                             /\ queue[i].signals \subseteq Semaphores
                             /\ queue[i].slot \in Frames
  /\ queue \in Seq(BatchType)
  /\ binary \in [Semaphores -> {"unsignaled", "pending", "signaled"}]
  /\ acquiring \subseteq Semaphores
  /\ fence \in [Fences -> {"unsignaled", "signaled"}]
  /\ \A p \in presents : /\ p.swapchain \in Swapchains /\ p.image \in Image
                         /\ p.semaphore \in Semaphores /\ p.fence \subseteq Fences
  /\ presents \subseteq PresentType
  /\ engine \in [Swapchains -> [Image -> {"available", "acquired", "presenting"}]]
  /\ images \in [Swapchains -> Seq(ImageType)]
  /\ \A sc \in Swapchains : /\ DOMAIN images[sc] \subseteq Image
                            /\ \A i \in DOMAIN images[sc] : images[sc][i].semaphore \in Semaphores
                                                            /\ images[sc][i].fence \subseteq Fences
  /\ imageIndex \in [Swapchains -> Image \union {NoIndex}]
  /\ freeSemaphores \subseteq Semaphores
  /\ freeFences \subseteq Fences
  /\ swapchains \subseteq Swapchains
  /\ frameID \in Frames
  /\ pendingBinarySemaphores \in [Frames -> SUBSET Semaphores]
  /\ pendingWaitSemaphores \in [Frames -> Seq(Semaphores)]
  /\ presenting \in Seq(Swapchains)

LEMMA HandlesTyped == TypeInvariant => HandleTypes
<1>. SUFFICES ASSUME TypeInvariant PROVE HandleTypes
  OBVIOUS
<1>. USE DEF TypeInvariant, TypeOK, GpuType, SwapchainType, FrameType
<1>1. \A i \in DOMAIN queue : queue[i] \in BatchType
  OBVIOUS
<1>2. \A p \in presents : p \in PresentType
  OBVIOUS
<1>3. \A sc \in Swapchains : DOMAIN images[sc] \subseteq Image
  BY DEF Shape
<1>4. \A sc \in Swapchains : \A i \in DOMAIN images[sc] : images[sc][i] \in ImageType
  OBVIOUS
<1>. QED
  BY <1>1, <1>2, <1>3, <1>4 DEF HandleTypes, BatchType, PresentType, ImageType

LEMMA HandlesStutter ==
  ASSUME HandleInvariant, UNCHANGED handleCore, swapchains \subseteq swapchains'
  PROVE  HandleInvariant'
<1>. USE DEF handleCore, LentToFrame, LentToImage, Idle
<1>1. Exclusive'
  BY DEF HandleInvariant, Exclusive
<1>2. UnlentIdle' /\ NoneLentWithoutContext'
  BY DEF HandleInvariant, UnlentIdle, NoneLentWithoutContext
<1>3. WaitsLent' /\ PromisesWaited'
  BY DEF HandleInvariant, WaitsLent, PromisesWaited, CurrentSlot
<1>4. SignalsLent'
  BY DEF HandleInvariant, SignalsLent
<1>5. PresentsMatch' /\ PresentsOnce'
  BY DEF HandleInvariant, PresentsMatch, PresentMatches, PresentsOnce
<1>6. ImagesIdle'
  BY DEF HandleInvariant, ImagesIdle
<1>7. FencesLent' /\ PresentsAcquired' /\ NoIndexWithoutHandle'
  BY DEF HandleInvariant, FencesLent, PresentsAcquired, Presentable, NoIndexWithoutHandle
<1>. QED
  BY <1>1, <1>2, <1>3, <1>4, <1>5, <1>6, <1>7 DEF HandleInvariant

-----------------------------------------------------------------------------
(* ~image, and resize or destroySwapchain before it: once the wait is over, what *)
(* the images hold is idle, and no present needs it any more.                *)
LEMMA WaitedImagesIdle ==
  ASSUME HandleInvariant, HandleTypes, presenting = <<>>, NEW sc \in Swapchains, ImagesWaited(sc)
  PROVE  /\ \A p \in presents : p.swapchain = sc => "wait" \notin p.todo /\ "fence" \notin p.todo
         /\ \A i \in DOMAIN images[sc] :
              /\ Idle(images[sc][i].semaphore)
              /\ \A f \in images[sc][i].fence : fence[f] = "signaled"
<1>. USE DEF HandleInvariant, FencesLent, PresentsMatch, PresentMatches
<1>1. \A i \in DOMAIN images[sc] : \A f \in images[sc][i].fence : fence[f] = "signaled"
  BY SwapchainAssumption DEF ImagesWaited, ImageFences
<1>2. ASSUME NEW p \in presents, p.swapchain = sc
      PROVE  "wait" \notin p.todo /\ "fence" \notin p.todo
  <2>1. "fence" \notin p.todo
    <3>. SUFFICES ASSUME "fence" \in p.todo PROVE FALSE
      OBVIOUS
    <3>1. PICK f \in p.fence : fence[f] = "unsignaled"
      BY <1>2
    <3>2. p.image \in DOMAIN images[sc] /\ f \in images[sc][p.image].fence
      BY <1>2, <3>1
    <3>. QED BY <1>1, <3>1, <3>2
  <2>2. "wait" \notin p.todo
    <3>. SUFFICES ASSUME "wait" \in p.todo PROVE FALSE
      OBVIOUS
    <3>1. p.fence = {} /\ p.image \in DOMAIN images[sc] /\ images[sc][p.image].fence = {}
      BY <1>2, <2>1
    <3>2. ~ Maint1
      BY <3>1
    <3>. QED BY <3>2 DEF ImagesWaited, DeviceIdle
  <2>. QED BY <2>1, <2>2
<1>3. \A i \in DOMAIN images[sc] : Idle(images[sc][i].semaphore)
  BY <1>2 DEF ImagesIdle, Range
<1>. QED
  BY <1>1, <1>2, <1>3

(* What a resize, a change of mode or the destruction does to the handles: the *)
(* images of sc give up theirs, and what they have then is theirs alone.     *)
KeptSemaphore(sc, s) ==
  \/ LentToFrame(s)
  \/ \E o \in Swapchains \ {sc} : \E i \in DOMAIN images[o] : images[o][i].semaphore = s

ImagesReplaced(sc) ==
  /\ UNCHANGED <<queue, binary, acquiring, imageIndex, alive, inFrame, frameID,
                 pendingBinarySemaphores, pendingWaitSemaphores, presenting>>
  /\ \A o \in Swapchains \ {sc} : images'[o] = images[o] /\ engine'[o] = engine[o]
  /\ presents' \subseteq presents
  /\ \A p \in presents : p.swapchain # sc => p \in presents'
  /\ engine'[sc] = engine[sc] \/ \A p \in presents' : p.swapchain # sc
  /\ \A i \in DOMAIN images'[sc] :
       LET s == images'[sc][i].semaphore IN
       /\ s \in Semaphores
       /\ \A j \in DOMAIN images'[sc] : images'[sc][j].semaphore = s => i = j
       /\ s \in SemaphoresAfterImages(sc) \/ ~ KeptSemaphore(sc, s)
       /\ s \notin freeSemaphores'
  /\ \A i \in DOMAIN images'[sc] :
       LET fs == images'[sc][i].fence IN
       /\ fs # {} <=> Maint1
       /\ \A j \in DOMAIN images'[sc] : images'[sc][j].fence \intersect fs # {} => i = j
       /\ \A f \in fs : f \in FencesAfterImages(sc) \/
            \A o \in Swapchains \ {sc} : \A j \in DOMAIN images[o] : f \notin images[o][j].fence
       /\ fs \intersect freeFences' = {}
  /\ freeSemaphores' \subseteq SemaphoresAfterImages(sc)
  /\ freeFences' \subseteq FencesAfterImages(sc)
  /\ \A f \in Fences : fence'[f] = fence[f] \/
       /\ fence'[f] = "signaled"
       /\ \A o \in Swapchains \ {sc} : \A j \in DOMAIN images[o] : f \notin images[o][j].fence
  /\ swapchains' = swapchains \ {sc} \/ swapchains \subseteq swapchains'

(* The part of it that is about who holds a semaphore                          *)
HoldersReplaced(sc) ==
  /\ UNCHANGED pendingBinarySemaphores
  /\ \A o \in Swapchains \ {sc} : images'[o] = images[o]
  /\ \A i \in DOMAIN images'[sc] :
       LET s == images'[sc][i].semaphore IN
       /\ s \in Semaphores
       /\ \A j \in DOMAIN images'[sc] : images'[sc][j].semaphore = s => i = j
       /\ s \in SemaphoresAfterImages(sc) \/ ~ KeptSemaphore(sc, s)
       /\ s \notin freeSemaphores'
  /\ freeSemaphores' \subseteq SemaphoresAfterImages(sc)

LEMMA ReplacedExclusive ==
  ASSUME Exclusive, HandleTypes, NEW sc \in Swapchains, HoldersReplaced(sc)
  PROVE  Exclusive'
<1>1. UNCHANGED pendingBinarySemaphores
  BY DEF HoldersReplaced
<1>2. \A s \in SemaphoresAfterImages(sc) :
         /\ ~ KeptSemaphore(sc, s)
         /\ s \in Semaphores
  BY DEF SemaphoresAfterImages, ImageSemaphores, KeptSemaphore, Exclusive, LentToImage,
         LentToFrame, HandleTypes
<1>3. \A i \in DOMAIN images'[sc] :
         /\ images'[sc][i].semaphore \in Semaphores
         /\ ~ KeptSemaphore(sc, images'[sc][i].semaphore)
  BY <1>2 DEF HoldersReplaced
<1>4. \A o \in Swapchains \ {sc} : images'[o] = images[o]
  BY DEF HoldersReplaced
<1>5. \A s \in Semaphores : LentToImage(s)' <=>
         \/ \E i \in DOMAIN images'[sc] : images'[sc][i].semaphore = s
         \/ \E o \in Swapchains \ {sc} : \E i \in DOMAIN images[o] : images[o][i].semaphore = s
  BY <1>4 DEF LentToImage
<1>6. \A f \in Frames : \A s \in pendingBinarySemaphores'[f] :
        s \notin freeSemaphores' /\ ~ LentToImage(s)'
  <2>1. SUFFICES ASSUME NEW f \in Frames, NEW s \in pendingBinarySemaphores[f]
                 PROVE  s \notin freeSemaphores' /\ ~ LentToImage(s)'
    BY <1>1
  <2>2. KeptSemaphore(sc, s) /\ s \in Semaphores /\ ~ LentToImage(s)
    BY DEF KeptSemaphore, LentToFrame, HandleTypes, Exclusive
  <2>3. s \notin freeSemaphores'
    BY <2>2, <1>2 DEF HoldersReplaced
  <2>4. ~ LentToImage(s)'
    BY <2>2, <1>3, <1>5 DEF LentToImage
  <2>. QED BY <2>3, <2>4
<1>7. \A f, g \in Frames : \A s \in pendingBinarySemaphores'[f] :
        s \in pendingBinarySemaphores'[g] => f = g
  BY <1>1 DEF Exclusive
<1>8. \A o \in Swapchains : \A i \in DOMAIN images'[o] : images'[o][i].semaphore \notin freeSemaphores'
  <2>1. SUFFICES ASSUME NEW o \in Swapchains \ {sc}, NEW i \in DOMAIN images[o]
                 PROVE  images[o][i].semaphore \notin freeSemaphores'
    BY <1>4 DEF HoldersReplaced
  <2>2. KeptSemaphore(sc, images[o][i].semaphore)
    BY DEF KeptSemaphore
  <2>. QED BY <2>2, <1>2 DEF HoldersReplaced
<1>9. \A a, b \in Swapchains : \A i \in DOMAIN images'[a], j \in DOMAIN images'[b] :
        images'[a][i].semaphore = images'[b][j].semaphore => a = b /\ i = j
  <2>1. SUFFICES ASSUME NEW a \in Swapchains, NEW b \in Swapchains,
                        NEW i \in DOMAIN images'[a], NEW j \in DOMAIN images'[b],
                        images'[a][i].semaphore = images'[b][j].semaphore
                 PROVE  a = b /\ i = j
    OBVIOUS
  <2>2. CASE a = sc /\ b = sc
    BY <2>1, <2>2 DEF HoldersReplaced
  <2>3. CASE a # sc /\ b # sc
    BY <2>1, <2>3, <1>4 DEF Exclusive
  <2>4. CASE a = sc /\ b # sc
    BY <2>1, <2>4, <1>3, <1>4 DEF KeptSemaphore
  <2>5. CASE a # sc /\ b = sc
    BY <2>1, <2>5, <1>3, <1>4 DEF KeptSemaphore
  <2>. QED BY <2>2, <2>3, <2>4, <2>5
<1>. QED BY <1>6, <1>7, <1>8, <1>9 DEF Exclusive

LEMMA ImagesReplacedKeeps ==
  ASSUME HandleInvariant, HandleTypes, HandleTypes', presenting = <<>>, NEW sc \in Swapchains,
         imageIndex[sc] = NoIndex, ImagesWaited(sc), ImagesReplaced(sc)
  PROVE  HandleInvariant'
<1>. USE DEF HandleInvariant
<1>1. /\ \A p \in presents : p.swapchain = sc => "wait" \notin p.todo /\ "fence" \notin p.todo
      /\ \A i \in DOMAIN images[sc] :
           /\ Idle(images[sc][i].semaphore)
           /\ \A f \in images[sc][i].fence : fence[f] = "signaled"
  BY WaitedImagesIdle
<1>2. /\ UNCHANGED <<queue, binary, acquiring, imageIndex, alive, inFrame, frameID,
                     pendingBinarySemaphores, pendingWaitSemaphores, presenting>>
      /\ presents' \subseteq presents
  BY DEF ImagesReplaced
<1>3. \A s \in Semaphores : Idle(s) => Idle(s)'
  BY <1>2 DEF Idle
<1>4. \A s \in Semaphores : LentToFrame(s)' <=> LentToFrame(s)
  BY <1>2 DEF LentToFrame
<1>5. \A s \in SemaphoresAfterImages(sc) :
        /\ ~ KeptSemaphore(sc, s)
        /\ s \in Semaphores
  BY DEF SemaphoresAfterImages, ImageSemaphores, KeptSemaphore, Exclusive, LentToImage,
         LentToFrame, HandleTypes
<1>6. \A s \in Semaphores : ~ KeptSemaphore(sc, s) => Idle(s)
  BY <1>1 DEF KeptSemaphore, UnlentIdle, LentToImage
<1>7. \A i \in DOMAIN images'[sc] :
        /\ images'[sc][i].semaphore \in Semaphores
        /\ ~ KeptSemaphore(sc, images'[sc][i].semaphore)
  BY <1>5 DEF ImagesReplaced
<1>8. \A o \in Swapchains \ {sc} : images'[o] = images[o] /\ engine'[o] = engine[o]
  BY DEF ImagesReplaced
<1>9. \A s \in Semaphores : LentToImage(s)' <=>
        \/ \E i \in DOMAIN images'[sc] : images'[sc][i].semaphore = s
        \/ \E o \in Swapchains \ {sc} : \E i \in DOMAIN images[o] : images[o][i].semaphore = s
  BY <1>8 DEF LentToImage
<1>10. Exclusive'
  BY ReplacedExclusive DEF ImagesReplaced, HoldersReplaced
<1>11. UnlentIdle' /\ NoneLentWithoutContext'
  <2>1. UnlentIdle'
    BY <1>3, <1>4, <1>6, <1>9 DEF UnlentIdle, KeptSemaphore
  <2>2. NoneLentWithoutContext'
    BY <1>2, <1>4 DEF NoneLentWithoutContext
  <2>. QED BY <2>1, <2>2
<1>12. WaitsLent'
  BY <1>2 DEF WaitsLent, CurrentSlot
<1>13. PromisesWaited'
  BY <1>2, <1>4 DEF PromisesWaited, HandleTypes
<1>14. SignalsLent'
  <2>1. ASSUME NEW i \in DOMAIN queue, NEW s \in queue[i].signals
        PROVE  LentToImage(s)'
    <3>1. s \in Semaphores /\ ~ Idle(s)
      BY DEF HandleTypes, Idle
    <3>2. KeptSemaphore(sc, s) /\ LentToImage(s)
      BY <3>1, <1>6 DEF SignalsLent
    <3>3. ~ LentToFrame(s)
      BY <3>2 DEF Exclusive, LentToFrame
    <3>. QED BY <3>1, <3>2, <3>3, <1>9 DEF KeptSemaphore
  <2>. QED BY <2>1, <1>2 DEF SignalsLent
<1>15. PresentsMatch'
  <2>1. SUFFICES ASSUME NEW p \in presents'
        PROVE  /\ "wait" \in p.todo => "image" \in p.todo /\ (p.fence # {} => "fence" \in p.todo)
               /\ "image" \in p.todo => engine'[p.swapchain][p.image] = "presenting"
               /\ "fence" \in p.todo => p.fence # {} /\ \A f \in p.fence : fence'[f] = "unsignaled"
               /\ "wait" \in p.todo \/ "fence" \in p.todo =>
                    /\ p.image \in DOMAIN images'[p.swapchain]
                    /\ images'[p.swapchain][p.image].semaphore = p.semaphore
                    /\ images'[p.swapchain][p.image].fence = p.fence
    BY DEF PresentsMatch, PresentMatches
  <2>2. p \in presents /\ p.swapchain \in Swapchains /\ p.fence \subseteq Fences
    BY <1>2 DEF HandleTypes
  <2>3. CASE p.swapchain = sc
    BY <1>1, <2>2, <2>3 DEF PresentsMatch, PresentMatches, ImagesReplaced
  <2>4. CASE p.swapchain # sc
    <3>1. "fence" \in p.todo => \A f \in p.fence : fence'[f] = "unsignaled"
      BY <2>2, <2>4 DEF PresentsMatch, PresentMatches, ImagesReplaced
    <3>. QED BY <2>2, <2>4, <3>1, <1>8 DEF PresentsMatch, PresentMatches
  <2>. QED BY <2>3, <2>4
<1>16. PresentsOnce'
  BY <1>2 DEF PresentsOnce
<1>17. ImagesIdle'
  <2>1. ASSUME NEW o \in Swapchains, NEW i \in DOMAIN images'[o],
               images'[o][i].semaphore \in Semaphores, Idle(images'[o][i].semaphore)
        PROVE  Idle(images[o][i].semaphore)'
    BY <2>1, <1>2 DEF Idle
  <2>2. ASSUME NEW i \in DOMAIN images'[sc]
        PROVE  Idle(images[sc][i].semaphore)'
    <3>1. images'[sc][i].semaphore \in Semaphores /\ Idle(images'[sc][i].semaphore)
      BY <1>6, <1>7, <2>2
    <3>. QED BY <3>1, <2>1, <2>2
  <2>3. ASSUME NEW o \in Swapchains, o # sc, NEW i \in DOMAIN images'[o]
        PROVE  \/ Idle(images[o][i].semaphore)'
               \/ imageIndex'[o] = i /\ o \in Range(presenting')
               \/ \E p \in presents' : p.swapchain = o /\ p.image = i /\ "wait" \in p.todo
    <3>1. images'[o] = images[o] /\ images[o][i].semaphore \in Semaphores
      BY <2>3, <1>8 DEF HandleTypes
    <3>2. CASE Idle(images[o][i].semaphore)
      BY <3>1, <3>2, <2>1, <2>3
    <3>3. CASE imageIndex[o] = i /\ o \in Range(presenting)
      BY <3>3, <1>2 DEF Range
    <3>4. CASE \E p \in presents : p.swapchain = o /\ p.image = i /\ "wait" \in p.todo
      BY <3>4, <2>3 DEF ImagesReplaced
    <3>5. i \in DOMAIN images[o]
      BY <2>3, <3>1
    <3>. QED BY <3>2, <3>3, <3>4, <3>5 DEF ImagesIdle
  <2>. QED BY <2>2, <2>3 DEF ImagesIdle
<1>18. FencesLent'
  <2>1. ASSUME NEW a \in Swapchains, NEW b \in Swapchains, NEW i \in DOMAIN images'[a],
               NEW j \in DOMAIN images'[b], images'[a][i].fence \intersect images'[b][j].fence # {}
        PROVE  a = b /\ i = j
    <3>1. \A f \in FencesAfterImages(sc) : \A o \in Swapchains \ {sc} : \A k \in DOMAIN images[o] :
            f \notin images[o][k].fence
      BY DEF FencesAfterImages, ImageFences, FencesLent
    <3>2. CASE a = sc /\ b = sc
      BY <2>1, <3>2 DEF ImagesReplaced
    <3>3. CASE a # sc /\ b # sc
      BY <2>1, <3>3, <1>8 DEF FencesLent
    <3>4. CASE a = sc /\ b # sc
      BY <2>1, <3>1, <3>4, <1>8 DEF ImagesReplaced
    <3>5. CASE a # sc /\ b = sc
      BY <2>1, <3>1, <3>5, <1>8 DEF ImagesReplaced
    <3>. QED BY <3>2, <3>3, <3>4, <3>5
  <2>2. ASSUME NEW o \in Swapchains, NEW i \in DOMAIN images'[o]
        PROVE  /\ images'[o][i].fence \intersect freeFences' = {}
               /\ images'[o][i].fence # {} <=> Maint1
    <3>1. CASE o = sc
      BY <3>1, <2>2 DEF ImagesReplaced
    <3>2. CASE o # sc
      BY <3>2, <2>2, <1>8 DEF ImagesReplaced, FencesAfterImages, ImageFences, FencesLent
    <3>. QED BY <3>1, <3>2
  <2>3. ASSUME NEW f \in freeFences' PROVE fence'[f] = "signaled"
    <3>1. f \in FencesAfterImages(sc) /\ f \in Fences
      BY DEF ImagesReplaced, HandleTypes
    <3>2. fence[f] = "signaled"
      BY <3>1, <1>1 DEF FencesAfterImages, ImageFences, FencesLent
    <3>. QED BY <3>1, <3>2 DEF ImagesReplaced
  <2>. QED BY <2>1, <2>2, <2>3 DEF FencesLent
<1>19. PresentsAcquired' /\ NoIndexWithoutHandle'
  BY <1>2, <1>8 DEF PresentsAcquired, Presentable, NoIndexWithoutHandle, ImagesReplaced, HandleTypes
<1>. QED
  BY <1>10, <1>11, <1>12, <1>13, <1>14, <1>15, <1>16, <1>17, <1>18, <1>19

LEMMA ResizeFailsReplaces ==
  ASSUME HandleTypes, NEW sc \in Swapchains, NEW mode, NEW extent, ResizeFails(sc, mode, extent),
         swapchains \subseteq swapchains',
         UNCHANGED <<queue, binary, acquiring, imageIndex, alive, inFrame, frameID,
                     pendingBinarySemaphores, pendingWaitSemaphores, presenting>>
  PROVE  ImagesReplaced(sc)
<1>1. /\ images' = [images EXCEPT ![sc] = <<>>]
      /\ freeSemaphores' = SemaphoresAfterImages(sc)
      /\ freeFences' = FencesAfterImages(sc)
      /\ UNCHANGED <<presents, engine, fence>>
  BY DEF ResizeFails
<1>2. images'[sc] = <<>> /\ \A o \in Swapchains \ {sc} : images'[o] = images[o]
  BY <1>1 DEF HandleTypes
<1>3. DOMAIN images'[sc] = {}
  BY <1>2
<1>. QED
  BY <1>1, <1>2, <1>3 DEF ImagesReplaced

LEMMA DestroyReplaces ==
  ASSUME HandleTypes, NEW sc \in Swapchains, imageIndex[sc] = NoIndex, SwapchainDestroyed(sc),
         UNCHANGED <<alive, inFrame, frameID, pendingBinarySemaphores, pendingWaitSemaphores,
                     presenting>>
  PROVE  ImagesReplaced(sc)
<1>1. /\ images' = [images EXCEPT ![sc] = <<>>]
      /\ freeSemaphores' = SemaphoresAfterImages(sc)
      /\ freeFences' = FencesAfterImages(sc)
      /\ imageIndex' = [imageIndex EXCEPT ![sc] = NoIndex]
      /\ presents' = {p \in presents : p.swapchain # sc}
      /\ engine' = [engine EXCEPT ![sc] = [i \in Image |-> "available"]]
      /\ swapchains' = swapchains \ {sc}
      /\ UNCHANGED <<queue, binary, acquiring, fence>>
  BY DEF SwapchainDestroyed
<1>2. images'[sc] = <<>> /\ \A o \in Swapchains \ {sc} : images'[o] = images[o] /\ engine'[o] = engine[o]
  BY <1>1 DEF HandleTypes
<1>3. imageIndex' = imageIndex
  BY <1>1 DEF HandleTypes
<1>4. DOMAIN images'[sc] = {}
  BY <1>2
<1>. QED
  BY <1>1, <1>2, <1>3, <1>4 DEF ImagesReplaced

LEMMA ResizeSucceedsReplaces ==
  ASSUME HandleTypes, NEW sc \in Swapchains, NEW mode, NEW extent,
         ResizeSucceeds(sc, mode, extent, HeldByFrames),
         swapchains \subseteq swapchains',
         UNCHANGED <<queue, binary, acquiring, imageIndex, alive, inFrame, frameID,
                     pendingBinarySemaphores, pendingWaitSemaphores, presenting>>
  PROVE  ImagesReplaced(sc)
<1>. DEFINE kept == HeldByFrames \union UNION {ImageSemaphores(o) : o \in Swapchains \ {sc}}
            busy == UNION {ImageFences(o) : o \in Swapchains \ {sc}}
<1>1. PICK sem \in [Image -> Semaphores], fen \in [Image -> IF Maint1 THEN {{f} : f \in Fences} ELSE {{}}] :
        LET sems == {sem[i] : i \in Image}
            fens == UNION {fen[i] : i \in Image}
        IN /\ IsInjective(sem)
           /\ Acquirable(sems, SemaphoresAfterImages(sc), kept)
           /\ Maint1 => IsInjective(fen) /\ Acquirable(fens, FencesAfterImages(sc), busy)
           /\ images' = [images EXCEPT ![sc] =
                           [i \in Image |-> [semaphore |-> sem[i], fence |-> fen[i]]]]
           /\ freeSemaphores' = SemaphoresAfterImages(sc) \ sems
           /\ freeFences' = FencesAfterImages(sc) \ fens
           /\ fence' = [f \in Fences |->
                          IF f \in fens \ FencesAfterImages(sc) THEN "signaled" ELSE fence[f]]
           /\ engine' = [engine EXCEPT ![sc] = [i \in Image |-> "available"]]
           /\ presents' = {p \in presents : p.swapchain # sc}
  BY DEF ResizeSucceeds
<1>. DEFINE sems == {sem[i] : i \in Image}
            fens == UNION {fen[i] : i \in Image}
<1>2. /\ images'[sc] = [i \in Image |-> [semaphore |-> sem[i], fence |-> fen[i]]]
      /\ \A o \in Swapchains \ {sc} : images'[o] = images[o] /\ engine'[o] = engine[o]
  BY <1>1 DEF HandleTypes
<1>3. /\ DOMAIN images'[sc] = Image
      /\ \A i \in Image : images'[sc][i].semaphore = sem[i] /\ images'[sc][i].fence = fen[i]
  BY <1>2
<1>4. \A i \in Image : sem[i] \in sems /\ fen[i] \subseteq fens
  OBVIOUS
<1>5. \A s \in sems : s \in SemaphoresAfterImages(sc) \/ ~ KeptSemaphore(sc, s)
  <2>1. \A s \in sems : s \in SemaphoresAfterImages(sc) \/ s \notin kept
    BY <1>1 DEF Acquirable
  <2>2. ASSUME NEW s, KeptSemaphore(sc, s) PROVE s \in kept
    BY <2>2 DEF KeptSemaphore, LentToFrame, HeldByFrames, ImageSemaphores
  <2>. HIDE DEF kept, sems
  <2>. QED BY <2>1, <2>2
<1>6. \A f \in fens : f \in FencesAfterImages(sc) \/
        \A o \in Swapchains \ {sc} : \A j \in DOMAIN images[o] : f \notin images[o][j].fence
  <2>1. CASE Maint1
    <3>1. \A f \in fens : f \in FencesAfterImages(sc) \/ f \notin busy
      BY <1>1, <2>1 DEF Acquirable
    <3>2. ASSUME NEW f, f \notin busy
          PROVE  \A o \in Swapchains \ {sc} : \A j \in DOMAIN images[o] : f \notin images[o][j].fence
      BY <3>2 DEF ImageFences
    <3>. HIDE DEF busy, fens
    <3>. QED BY <3>1, <3>2
  <2>2. CASE ~ Maint1
    BY <2>2
  <2>. QED BY <2>1, <2>2
<1>7. /\ \A i \in Image : fen[i] # {} <=> Maint1
      /\ \A i, j \in Image : fen[i] \intersect fen[j] # {} => i = j
  <2>1. CASE Maint1
    <3>1. \A i \in Image : \E f \in Fences : fen[i] = {f}
      BY <2>1
    <3>2. \A i, j \in Image : fen[i] = fen[j] => i = j
      BY <1>1, <2>1 DEF IsInjective
    <3>. QED BY <2>1, <3>1, <3>2
  <2>2. CASE ~ Maint1
    BY <2>2
  <2>. QED BY <2>1, <2>2
<1>8. \A i, j \in Image : sem[i] = sem[j] => i = j
  BY <1>1 DEF IsInjective
<1>9. /\ freeSemaphores' = SemaphoresAfterImages(sc) \ sems
      /\ freeFences' = FencesAfterImages(sc) \ fens
      /\ \A f \in Fences :
           fence'[f] = fence[f] \/ (fence'[f] = "signaled" /\ f \in fens \ FencesAfterImages(sc))
      /\ presents' = {p \in presents : p.swapchain # sc}
  BY <1>1
<1>. HIDE DEF sems, fens
<1>10. \A i \in DOMAIN images'[sc] :
         LET s == images'[sc][i].semaphore IN
         /\ s \in Semaphores
         /\ \A j \in DOMAIN images'[sc] : images'[sc][j].semaphore = s => i = j
         /\ s \in SemaphoresAfterImages(sc) \/ ~ KeptSemaphore(sc, s)
         /\ s \notin freeSemaphores'
  BY <1>3, <1>4, <1>5, <1>8, <1>9
<1>11. \A i \in DOMAIN images'[sc] :
         LET fs == images'[sc][i].fence IN
         /\ fs # {} <=> Maint1
         /\ \A j \in DOMAIN images'[sc] : images'[sc][j].fence \intersect fs # {} => i = j
         /\ \A f \in fs : f \in FencesAfterImages(sc) \/
              \A o \in Swapchains \ {sc} : \A j \in DOMAIN images[o] : f \notin images[o][j].fence
         /\ fs \intersect freeFences' = {}
  BY <1>3, <1>4, <1>6, <1>7, <1>9
<1>12. \A f \in Fences : fence'[f] = fence[f] \/
         /\ fence'[f] = "signaled"
         /\ \A o \in Swapchains \ {sc} : \A j \in DOMAIN images[o] : f \notin images[o][j].fence
  BY <1>6, <1>9
<1>. QED
  BY <1>2, <1>9, <1>10, <1>11, <1>12 DEF ImagesReplaced

(* Create, resize, mode change and destruction of a swapchain without an       *)
(* acquired image.                                                           *)
LEMMA ResizedKeepsHandles ==
  ASSUME HandleInvariant, HandleTypes, HandleTypes', presenting = <<>>, NEW sc \in Swapchains,
         imageIndex[sc] = NoIndex, NEW mode, NEW extent, Resized(sc, mode, extent, HeldByFrames),
         swapchains \subseteq swapchains', UNCHANGED contextVars
  PROVE  HandleInvariant'
<1>1. /\ ImagesWaited(sc)
      /\ ResizeFails(sc, mode, extent) \/ ResizeSucceeds(sc, mode, extent, HeldByFrames)
      /\ UNCHANGED <<queue, binary, acquiring, imageIndex, alive, inFrame, frameID,
                     pendingBinarySemaphores, pendingWaitSemaphores, presenting>>
  BY DEF Resized, contextVars, frameVars
<1>2. ImagesReplaced(sc)
  BY <1>1, ResizeFailsReplaces, ResizeSucceedsReplaces
<1>. QED
  BY <1>1, <1>2, ImagesReplacedKeeps

LEMMA PresentModeChangedKeepsHandles ==
  ASSUME HandleInvariant, HandleTypes, HandleTypes', presenting = <<>>, NEW sc \in Swapchains,
         imageIndex[sc] = NoIndex, NEW preferred, NEW extent,
         PresentModeChanged(sc, preferred, extent, HeldByFrames),
         swapchains \subseteq swapchains', UNCHANGED contextVars
  PROVE  HandleInvariant'
<1>1. CASE UNCHANGED <<gpuVars, images, imageIndex, vkSwapchain, freeSemaphores, freeFences>>
  BY <1>1, HandlesStutter DEF gpuVars, contextVars, frameVars, handleCore
<1>2. CASE Resized(sc, FindPresentMode(preferred), extent, HeldByFrames)
  BY <1>2, ResizedKeepsHandles
<1>. QED
  BY <1>1, <1>2 DEF PresentModeChanged

LEMMA SwapchainDestroyedKeepsHandles ==
  ASSUME HandleInvariant, HandleTypes, HandleTypes', presenting = <<>>, NEW sc \in Swapchains,
         imageIndex[sc] = NoIndex, SwapchainDestroyed(sc), UNCHANGED contextVars
  PROVE  HandleInvariant'
<1>1. ImagesReplaced(sc)
  BY DestroyReplaces DEF contextVars, frameVars
<1>. QED
  BY <1>1, ImagesReplacedKeeps DEF SwapchainDestroyed
-----------------------------------------------------------------------------
(* vkm_context_acquireSwapchain: the semaphore it takes is idle, because it is *)
(* free or nobody's.                                                         *)
LEMMA AcquiredSemaphoreUnlent ==
  ASSUME HandleInvariant, HandleTypes, NEW s \in Semaphores,
         Acquirable({s}, freeSemaphores, HeldByFrames \union HeldByImages)
  PROVE  ~ LentToFrame(s) /\ ~ LentToImage(s) /\ Idle(s)
<1>1. LentToFrame(s) => s \in HeldByFrames
  BY DEF LentToFrame, HeldByFrames
<1>2. LentToImage(s) => s \in HeldByImages
  BY DEF LentToImage, HeldByImages, ImageSemaphores
<1>3. s \in freeSemaphores \/ (~ LentToFrame(s) /\ ~ LentToImage(s))
  BY <1>1, <1>2 DEF Acquirable
<1>4. s \in freeSemaphores => ~ LentToFrame(s) /\ ~ LentToImage(s)
  BY DEF HandleInvariant, Exclusive, LentToFrame, LentToImage
<1>. QED
  BY <1>3, <1>4 DEF HandleInvariant, UnlentIdle

LEMMA AcquireKeepsHandles ==
  ASSUME HandleInvariant, HandleTypes, HandleTypes', presenting = <<>>, inFrame, alive,
         NEW sc \in Swapchains, sc \in swapchains, imageIndex[sc] = NoIndex,
         NEW s \in Semaphores,
         Acquirable({s}, freeSemaphores, HeldByFrames \union HeldByImages),
         Enlisted(s),
         (\E i \in DOMAIN images[sc] : ImageAcquired(sc, s, i)) \/ ImageRefused(sc),
         UNCHANGED <<swapchains, images, freeFences, alive, inFrame, frameID, presenting>>
  PROVE  HandleInvariant'
<1>. USE DEF HandleInvariant
<1>1. ~ LentToFrame(s) /\ ~ LentToImage(s) /\ Idle(s)
  BY AcquiredSemaphoreUnlent
<1>2. /\ frameID \in Frames
      /\ pendingBinarySemaphores' = [pendingBinarySemaphores EXCEPT ![frameID] = @ \union {s}]
      /\ pendingWaitSemaphores' = [pendingWaitSemaphores EXCEPT ![frameID] = Append(@, s)]
      /\ freeSemaphores' = freeSemaphores \ {s}
  BY DEF Enlisted, HandleTypes
<1>3. /\ pendingBinarySemaphores'[frameID] = pendingBinarySemaphores[frameID] \union {s}
      /\ \A f \in Frames : f # frameID => pendingBinarySemaphores'[f] = pendingBinarySemaphores[f]
  BY <1>2 DEF HandleTypes
<1>4. /\ pendingWaitSemaphores'[frameID] = Append(pendingWaitSemaphores[frameID], s)
      /\ \A f \in Frames : f # frameID => pendingWaitSemaphores'[f] = pendingWaitSemaphores[f]
  BY <1>2 DEF HandleTypes
<1>5. Range(pendingWaitSemaphores'[frameID]) = Range(pendingWaitSemaphores[frameID]) \union {s}
  <2>1. pendingWaitSemaphores[frameID] \in Seq(Semaphores)
    BY <1>2 DEF HandleTypes
  <2>. QED BY <2>1, <1>4 DEF Range
<1>6. \A t \in Semaphores : LentToFrame(t)' <=> LentToFrame(t) \/ t = s
  BY <1>2, <1>3 DEF LentToFrame
<1>7. \A t \in Semaphores : LentToImage(t)' <=> LentToImage(t)
  BY DEF LentToImage
<1>8. /\ UNCHANGED <<queue, fence, presents>>
      /\ \A t \in Semaphores : t # s => binary'[t] = binary[t]
      /\ acquiring' \subseteq acquiring \union {s}
      /\ s \in acquiring' => binary'[s] = "pending"
  <2>1. CASE ImageRefused(sc)
    BY <1>1, <2>1 DEF ImageRefused, gpuVars, Idle
  <2>2. ASSUME NEW i \in DOMAIN images[sc], ImageAcquired(sc, s, i)
        PROVE  /\ UNCHANGED <<queue, fence, presents>>
               /\ \A t \in Semaphores : t # s => binary'[t] = binary[t]
               /\ acquiring' \subseteq acquiring \union {s}
               /\ s \in acquiring' => binary'[s] = "pending"
    BY <2>2 DEF ImageAcquired, HandleTypes
  <2>. QED BY <2>1, <2>2
<1>9. \A t \in Semaphores : t # s => (Idle(t) => Idle(t)')
  BY <1>8 DEF Idle
<1>10. /\ \A p \in presents : "image" \in p.todo =>
             engine'[p.swapchain][p.image] = "presenting"
       /\ PresentsAcquired' /\ NoIndexWithoutHandle'
       /\ \A o \in Swapchains : imageIndex[o] # NoIndex => imageIndex'[o] = imageIndex[o]
  <2>1. CASE ImageRefused(sc)
    BY <2>1 DEF ImageRefused, gpuVars, PresentsMatch, PresentMatches, PresentsAcquired, Presentable, NoIndexWithoutHandle
  <2>2. ASSUME NEW i \in DOMAIN images[sc], ImageAcquired(sc, s, i)
        PROVE  /\ \A p \in presents : "image" \in p.todo =>
                    engine'[p.swapchain][p.image] = "presenting"
               /\ PresentsAcquired' /\ NoIndexWithoutHandle'
               /\ \A o \in Swapchains : imageIndex[o] # NoIndex => imageIndex'[o] = imageIndex[o]
    <3>1. i \in Image
      BY DEF HandleTypes
    <3>2. /\ engine[sc][i] = "available"
          /\ imageIndex' = [imageIndex EXCEPT ![sc] = i]
          /\ engine' = [engine EXCEPT ![sc][i] = "acquired"]
      BY <2>2 DEF ImageAcquired
    <3>3. /\ imageIndex'[sc] = i /\ engine'[sc][i] = "acquired"
          /\ \A o \in Swapchains : o # sc => imageIndex'[o] = imageIndex[o] /\ engine'[o] = engine[o]
          /\ \A j \in Image : j # i => engine'[sc][j] = engine[sc][j]
      BY <3>1, <3>2 DEF HandleTypes
    <3>4. \A p \in presents : "image" \in p.todo =>
             engine'[p.swapchain][p.image] = "presenting"
      <4>. SUFFICES ASSUME NEW p \in presents, "image" \in p.todo
                    PROVE  engine'[p.swapchain][p.image] = "presenting"
        OBVIOUS
      <4>2. /\ engine[p.swapchain][p.image] = "presenting"
            /\ p.swapchain \in Swapchains /\ p.image \in Image
        BY DEF PresentsMatch, PresentMatches, HandleTypes
      <4>. QED BY <3>2, <3>3, <4>2
    <3>5. PresentsAcquired' /\ NoIndexWithoutHandle'
      BY <3>3 DEF PresentsAcquired, Presentable, NoIndexWithoutHandle
    <3>. QED BY <3>3, <3>4, <3>5
  <2>. QED BY <2>1, <2>2
<1>11. Exclusive'
  BY <1>1, <1>2, <1>3, <1>6, <1>7 DEF Exclusive, LentToFrame, LentToImage, HandleTypes
<1>12. UnlentIdle' /\ NoneLentWithoutContext'
  BY <1>6, <1>7, <1>9 DEF UnlentIdle, NoneLentWithoutContext
<1>13. WaitsLent'
  BY <1>2, <1>3, <1>4, <1>5, <1>8 DEF WaitsLent, CurrentSlot, HandleTypes
<1>14. PromisesWaited'
  <2>1. \A t \in acquiring' : LentToFrame(t)' /\ binary'[t] = "pending"
    BY <1>6, <1>8 DEF PromisesWaited, HandleTypes
  <2>2. \A t \in Semaphores : LentToFrame(t)' /\ binary'[t] # "unsignaled" =>
         \/ t \in Range(pendingWaitSemaphores'[frameID])
         \/ \E i \in DOMAIN queue : t \in Range(queue[i].waits)
    BY <1>5, <1>6, <1>8 DEF PromisesWaited
  <2>. QED BY <2>1, <2>2, <1>8 DEF PromisesWaited
<1>15. SignalsLent'
  BY <1>1, <1>7, <1>8 DEF SignalsLent, HandleTypes
<1>16. PresentsMatch' /\ PresentsOnce'
  BY <1>8, <1>10 DEF PresentsMatch, PresentMatches, PresentsOnce
<1>17. ImagesIdle'
  <2>1. SUFFICES ASSUME NEW o \in Swapchains, NEW i \in DOMAIN images[o]
                 PROVE  \/ Idle(images[o][i].semaphore)'
                        \/ imageIndex'[o] = i /\ o \in Range(presenting')
                        \/ \E p \in presents : p.swapchain = o /\ p.image = i /\ "wait" \in p.todo
    BY <1>8 DEF ImagesIdle
  <2>2. images[o][i].semaphore \in Semaphores \ {s}
    BY <1>1 DEF LentToImage, HandleTypes
  <2>3. Idle(images[o][i].semaphore) => Idle(images[o][i].semaphore)'
    BY <2>2, <1>8 DEF Idle
  <2>4. ~ (o \in Range(presenting))
    BY DEF Range
  <2>. QED BY <2>3, <2>4 DEF ImagesIdle
<1>18. FencesLent'
  BY <1>8 DEF FencesLent
<1>. QED
  BY <1>10, <1>11, <1>12, <1>13, <1>14, <1>15, <1>16, <1>17, <1>18

-----------------------------------------------------------------------------
(* vkm_context_endCommandBuffer: what it will signal is idle, because the image *)
(* was acquired and its last present has waited.                             *)
LEMMA SignalsIdle ==
  ASSUME HandleInvariant, HandleTypes, presenting = <<>>, NEW sc \in Swapchains, Presentable(sc)
  PROVE  /\ AcquiredImage(sc).semaphore \in Semaphores
         /\ Idle(AcquiredImage(sc).semaphore)
         /\ LentToImage(AcquiredImage(sc).semaphore)
<1>. DEFINE i == imageIndex[sc]
<1>1. i \in DOMAIN images[sc] /\ i \in Image
  BY DEF Presentable, HandleTypes
<1>2. engine[sc][i] = "acquired"
  BY <1>1, NImagesAssumption DEF HandleInvariant, PresentsAcquired, NoIndex, Image
<1>3. \A p \in presents : p.swapchain = sc /\ p.image = i => "wait" \notin p.todo
  BY <1>2 DEF HandleInvariant, PresentsMatch, PresentMatches
<1>4. Idle(images[sc][i].semaphore)
  BY <1>1, <1>3 DEF HandleInvariant, ImagesIdle, Range
<1>. QED
  BY <1>1, <1>4 DEF AcquiredImage, LentToImage, HandleTypes

LEMMA SubmitKeepsHandles ==
  ASSUME HandleInvariant, HandleTypes, HandleTypes', presenting = <<>>, NEW uses, inFrame,
         NEW scs \in Seq(Swapchains), \A i \in DOMAIN scs : Presentable(scs[i]),
         Submit(uses, scs),
         UNCHANGED <<acquiring, fence, presents, engine, swapchainVars, alive, inFrame, frameID,
                     pendingBinarySemaphores>>
  PROVE  HandleInvariant'
<1>. USE DEF HandleInvariant
<1>. DEFINE batch == Batch(uses, scs)
            signals == {AcquiredImage(scs[i]).semaphore : i \in DOMAIN scs}
<1>1. /\ batch.signals = signals /\ batch.slot = frameID
      /\ batch.waits = pendingWaitSemaphores[frameID]
  BY DEF Batch
<1>2. /\ queue' = Append(queue, batch)
      /\ \A s \in Semaphores : binary'[s] = IF s \in signals THEN "pending" ELSE binary[s]
      /\ pendingWaitSemaphores' = [pendingWaitSemaphores EXCEPT ![frameID] = <<>>]
      /\ presenting' = scs
  BY <1>1 DEF Submit, WaitsForgotten
<1>3. \A s \in signals : s \in Semaphores /\ Idle(s) /\ LentToImage(s)
  BY SignalsIdle
<1>4. \A s \in signals : ~ LentToFrame(s)
  BY <1>3 DEF Exclusive, LentToFrame
<1>. HIDE DEF batch, signals
<1>5. UNCHANGED <<freeSemaphores, freeFences, images, imageIndex, swapchains>>
  BY DEF swapchainVars
<1>6. frameID \in Frames /\ queue \in Seq(BatchType)
  BY DEF HandleTypes
<1>7. /\ pendingWaitSemaphores'[frameID] = <<>>
      /\ \A f \in Frames : f # frameID => pendingWaitSemaphores'[f] = pendingWaitSemaphores[f]
  BY <1>2, <1>6 DEF HandleTypes
<1>8. /\ DOMAIN queue' = DOMAIN queue \union {Len(queue) + 1}
      /\ \A i \in DOMAIN queue : queue'[i] = queue[i]
      /\ queue'[Len(queue) + 1] = batch
      /\ Len(queue) + 1 \notin DOMAIN queue
  BY <1>2, <1>6
<1>9. \A s \in Semaphores : /\ LentToFrame(s)' <=> LentToFrame(s)
                            /\ LentToImage(s)' <=> LentToImage(s)
  BY <1>5 DEF LentToFrame, LentToImage
<1>10. \A s \in Range(batch.waits) : LentToFrame(s)
  BY <1>1, <1>6 DEF WaitsLent, LentToFrame
<1>11. \A s \in Semaphores : s \notin signals /\ ~ LentToFrame(s) => (Idle(s) => Idle(s)')
  <2>1. ASSUME NEW s \in Semaphores, s \notin signals, ~ LentToFrame(s), Idle(s)
        PROVE  Idle(s)'
    <3>1. s \notin batch.signals \union Range(batch.waits)
      BY <2>1, <1>1, <1>10
    <3>. QED BY <2>1, <3>1, <1>2, <1>8 DEF Idle
  <2>. QED BY <2>1
<1>12. Exclusive' /\ NoneLentWithoutContext'
  BY <1>5 DEF Exclusive, NoneLentWithoutContext, LentToFrame, LentToImage
<1>13. UnlentIdle'
  BY <1>3, <1>9, <1>11 DEF UnlentIdle
<1>14. WaitsLent'
  <2>1. \A f \in Frames : Range(pendingWaitSemaphores'[f]) \subseteq pendingBinarySemaphores[f]
    BY <1>7 DEF WaitsLent, Range
  <2>2. \A f \in Frames : ~ CurrentSlot(f)' => pendingWaitSemaphores'[f] = <<>>
    BY <1>7 DEF WaitsLent, CurrentSlot
  <2>3. \A i \in DOMAIN queue' :
          Range(queue'[i].waits) \subseteq pendingBinarySemaphores[queue'[i].slot]
    BY <1>1, <1>6, <1>8 DEF WaitsLent
  <2>. QED BY <2>1, <2>2, <2>3 DEF WaitsLent
<1>15. PromisesWaited'
  <2>1. \A s \in acquiring : LentToFrame(s)' /\ binary'[s] = "pending"
    BY <1>2, <1>4, <1>9 DEF PromisesWaited, HandleTypes
  <2>2. ASSUME NEW s \in Semaphores, LentToFrame(s), binary'[s] # "unsignaled"
        PROVE  \E i \in DOMAIN queue' : s \in Range(queue'[i].waits)
    <3>1. binary[s] # "unsignaled"
      BY <2>2, <1>2, <1>4
    <3>2. CASE s \in Range(pendingWaitSemaphores[frameID])
      BY <3>2, <1>1, <1>8
    <3>3. CASE \E i \in DOMAIN queue : s \in Range(queue[i].waits)
      BY <3>3, <1>8
    <3>. QED BY <2>2, <3>1, <3>2, <3>3 DEF PromisesWaited
  <2>. QED BY <2>1, <2>2, <1>9 DEF PromisesWaited
<1>16. SignalsLent'
  <2>1. \A i \in DOMAIN queue' : \A s \in queue'[i].signals : LentToImage(s)' /\ binary'[s] = "pending"
    BY <1>1, <1>2, <1>3, <1>8, <1>9 DEF SignalsLent, HandleTypes
  <2>2. \A i \in DOMAIN queue : queue[i].signals \intersect signals = {}
    BY <1>3 DEF Idle
  <2>3. \A i, j \in DOMAIN queue' : i # j => queue'[i].signals \intersect queue'[j].signals = {}
    BY <2>2, <1>1, <1>8 DEF SignalsLent
  <2>. QED BY <2>1, <2>3 DEF SignalsLent
<1>17. PresentsMatch' /\ PresentsOnce' /\ FencesLent' /\ PresentsAcquired' /\ NoIndexWithoutHandle'
  BY <1>5 DEF PresentsMatch, PresentMatches, PresentsOnce, FencesLent, PresentsAcquired, Presentable,
     NoIndexWithoutHandle
<1>18. ImagesIdle'
  <2>1. SUFFICES ASSUME NEW o \in Swapchains, NEW i \in DOMAIN images[o]
                 PROVE  \/ Idle(images[o][i].semaphore)'
                        \/ imageIndex[o] = i /\ o \in Range(scs)
                        \/ \E p \in presents : p.swapchain = o /\ p.image = i /\ "wait" \in p.todo
    BY <1>2, <1>5 DEF ImagesIdle
  <2>2. /\ images[o][i].semaphore \in Semaphores
        /\ ~ LentToFrame(images[o][i].semaphore)
    BY DEF HandleTypes, Exclusive, LentToFrame, LentToImage
  <2>3. CASE images[o][i].semaphore \in signals
    <3>1. PICK k \in DOMAIN scs : images[o][i].semaphore = AcquiredImage(scs[k]).semaphore
      BY <2>3 DEF signals
    <3>2. scs[k] \in Swapchains /\ Presentable(scs[k])
      OBVIOUS
    <3>3. o = scs[k] /\ i = imageIndex[o]
      BY <3>1, <3>2 DEF Exclusive, AcquiredImage, Presentable
    <3>. QED BY <3>3 DEF Range
  <2>4. CASE images[o][i].semaphore \notin signals
    <3>1. Idle(images[o][i].semaphore) => Idle(images[o][i].semaphore)'
      BY <1>5, <1>11, <2>2, <2>4
    <3>2. o \notin Range(presenting)
      BY DEF Range
    <3>. QED BY <3>1, <3>2 DEF ImagesIdle
  <2>. QED BY <2>3, <2>4
<1>. QED
  BY <1>12, <1>13, <1>14, <1>15, <1>16, <1>17, <1>18

-----------------------------------------------------------------------------
(* The rest of endCommandBuffer: one present. The wait for the image's fence   *)
(* tells that its last present has signaled it.                              *)
LEMMA PresentedKeepsHandles ==
  ASSUME HandleInvariant, HandleTypes, HandleTypes', presenting # <<>>,
         NEW sc \in Swapchains, sc = Head(presenting), imageIndex[sc] # NoIndex, ImagePresented(sc),
         presenting' = Tail(presenting),
         UNCHANGED <<alive, inFrame, frameID, pendingBinarySemaphores, pendingWaitSemaphores>>
  PROVE  HandleInvariant'
<1>. USE DEF HandleInvariant
<1>. DEFINE i0 == imageIndex[sc]
            image == images[sc][i0]
            new == [swapchain |-> sc, image |-> i0, semaphore |-> image.semaphore,
                    fence |-> image.fence,
                    todo |-> {"wait", "image"} \union (IF image.fence = {} THEN {} ELSE {"fence"})]
<1>1. /\ i0 \in DOMAIN images[sc] /\ i0 \in Image
      /\ engine[sc][i0] = "acquired"
      /\ image.semaphore \in Semaphores /\ image.fence \subseteq Fences
  BY DEF PresentsAcquired, Presentable, HandleTypes
<1>2. /\ \A f \in image.fence : fence[f] = "signaled"
      /\ \A f \in Fences : fence'[f] = IF f \in image.fence THEN "unsignaled" ELSE fence[f]
      /\ presents' = presents \union {new}
      /\ engine' = [engine EXCEPT ![sc][i0] = "presenting"]
      /\ imageIndex' = [imageIndex EXCEPT ![sc] = NoIndex]
      /\ UNCHANGED <<queue, binary, acquiring, swapchains, images, freeSemaphores, freeFences>>
  BY DEF ImagePresented, PresentWaited, AcquiredImage, IndexForgotten
<1>3. /\ new.swapchain = sc /\ new.image = i0
      /\ new.semaphore = image.semaphore /\ new.fence = image.fence
      /\ "wait" \in new.todo /\ "image" \in new.todo
      /\ "fence" \in new.todo <=> image.fence # {}
  OBVIOUS
<1>. HIDE DEF new
<1>4. /\ engine'[sc][i0] = "presenting"
      /\ \A o \in Swapchains : \A i \in Image :
           o # sc \/ i # i0 => engine'[o][i] = engine[o][i]
      /\ imageIndex'[sc] = NoIndex
      /\ \A o \in Swapchains : o # sc => imageIndex'[o] = imageIndex[o]
  BY <1>1, <1>2 DEF HandleTypes
<1>5. \A p \in presents : p.swapchain = sc /\ p.image = i0 =>
        "wait" \notin p.todo /\ "image" \notin p.todo /\ "fence" \notin p.todo
  <2>. SUFFICES ASSUME NEW p \in presents, p.swapchain = sc, p.image = i0
                PROVE  "wait" \notin p.todo /\ "image" \notin p.todo /\ "fence" \notin p.todo
    OBVIOUS
  <2>1. "wait" \notin p.todo /\ "image" \notin p.todo
    BY <1>1 DEF PresentsMatch, PresentMatches
  <2>2. "fence" \notin p.todo
    BY <1>2 DEF PresentsMatch, PresentMatches
  <2>. QED BY <2>1, <2>2
<1>6. image.semaphore \notin acquiring /\ ~ LentToFrame(image.semaphore) /\ LentToImage(image.semaphore)
  BY <1>1 DEF PromisesWaited, Exclusive, LentToFrame, LentToImage
<1>7. \A s \in Semaphores : s # image.semaphore => (Idle(s) => Idle(s)')
  BY <1>2, <1>3 DEF Idle
<1>8. \A s \in Semaphores : /\ LentToFrame(s)' <=> LentToFrame(s)
                            /\ LentToImage(s)' <=> LentToImage(s)
  BY <1>2 DEF LentToFrame, LentToImage
<1>9. Exclusive' /\ NoneLentWithoutContext'
  BY <1>2 DEF Exclusive, NoneLentWithoutContext, LentToFrame, LentToImage
<1>10. UnlentIdle'
  BY <1>6, <1>7, <1>8 DEF UnlentIdle
<1>11. WaitsLent' /\ PromisesWaited'
  BY <1>2, <1>8 DEF WaitsLent, PromisesWaited, CurrentSlot, HandleTypes
<1>12. SignalsLent'
  BY <1>2, <1>8 DEF SignalsLent, HandleTypes
<1>13. PresentsMatch'
  <2>1. SUFFICES ASSUME NEW p \in presents'
        PROVE  /\ "wait" \in p.todo => "image" \in p.todo /\ (p.fence # {} => "fence" \in p.todo)
               /\ "image" \in p.todo => engine'[p.swapchain][p.image] = "presenting"
               /\ "fence" \in p.todo => p.fence # {} /\ \A f \in p.fence : fence'[f] = "unsignaled"
               /\ "wait" \in p.todo \/ "fence" \in p.todo =>
                    /\ p.image \in DOMAIN images[p.swapchain]
                    /\ images[p.swapchain][p.image].semaphore = p.semaphore
                    /\ images[p.swapchain][p.image].fence = p.fence
    BY <1>2 DEF PresentsMatch, PresentMatches
  <2>2. CASE p = new
    BY <2>2, <1>1, <1>2, <1>3, <1>4
  <2>3. CASE p \in presents
    <3>1. p.swapchain \in Swapchains /\ p.image \in Image /\ p.fence \subseteq Fences
      BY <2>3 DEF HandleTypes
    <3>2. "image" \in p.todo => engine'[p.swapchain][p.image] = "presenting"
      BY <2>3, <3>1, <1>4 DEF PresentsMatch, PresentMatches
    <3>3. "fence" \in p.todo => p.fence # {} /\ \A f \in p.fence : fence'[f] = "unsignaled"
      BY <2>3, <3>1, <1>2 DEF PresentsMatch, PresentMatches
    <3>. QED BY <2>3, <3>2, <3>3 DEF PresentsMatch, PresentMatches
  <2>. QED BY <2>2, <2>3, <1>2
<1>14. PresentsOnce'
  BY <1>2, <1>3, <1>5 DEF PresentsOnce
<1>15. ImagesIdle'
  <2>1. SUFFICES ASSUME NEW o \in Swapchains, NEW i \in DOMAIN images[o]
                 PROVE  \/ Idle(images[o][i].semaphore)'
                        \/ imageIndex'[o] = i /\ o \in Range(presenting')
                        \/ \E p \in presents' : p.swapchain = o /\ p.image = i /\ "wait" \in p.todo
    BY <1>2 DEF ImagesIdle
  <2>2. CASE o = sc /\ i = i0
    BY <2>2, <1>2, <1>3
  <2>3. CASE ~ (o = sc /\ i = i0)
    <3>1. images[o][i].semaphore \in Semaphores /\ images[o][i].semaphore # image.semaphore
      BY <2>3, <1>1 DEF HandleTypes, Exclusive
    <3>2. CASE Idle(images[o][i].semaphore)
      BY <3>1, <3>2, <1>2, <1>7
    <3>3. CASE imageIndex[o] = i /\ o \in Range(presenting)
      <4>1. o # sc /\ imageIndex'[o] = i
        BY <2>3, <3>3, <1>4
      <4>2. o \in Range(Tail(presenting))
        <5>1. presenting \in Seq(Swapchains)
          BY DEF HandleTypes
        <5>2. PICK k \in DOMAIN presenting : presenting[k] = o
          BY <3>3 DEF Range
        <5>3. k # 1 /\ k - 1 \in DOMAIN Tail(presenting) /\ Tail(presenting)[k - 1] = o
          BY <4>1, <5>1, <5>2
        <5>. QED BY <5>3 DEF Range
      <4>. QED BY <4>1, <4>2
    <3>4. CASE \E p \in presents : p.swapchain = o /\ p.image = i /\ "wait" \in p.todo
      BY <3>4, <1>2
    <3>. QED BY <3>2, <3>3, <3>4 DEF ImagesIdle
  <2>. QED BY <2>2, <2>3
<1>16. FencesLent'
  <2>1. image.fence \intersect freeFences = {}
    BY <1>1 DEF FencesLent
  <2>2. \A f \in freeFences : fence'[f] = "signaled"
    BY <2>1, <1>2 DEF FencesLent, HandleTypes
  <2>. HIDE DEF image
  <2>. QED BY <2>2, <1>2 DEF FencesLent
<1>17. PresentsAcquired' /\ NoIndexWithoutHandle'
  BY <1>2, <1>4 DEF PresentsAcquired, Presentable, NoIndexWithoutHandle, HandleTypes
<1>. QED
  BY <1>9, <1>10, <1>11, <1>12, <1>13, <1>14, <1>15, <1>16, <1>17
-----------------------------------------------------------------------------
(* The GPU and the engine                                                    *)
LEMMA SignalAcquireKeepsHandles ==
  ASSUME HandleInvariant, HandleTypes, NEW s \in Semaphores, SignalAcquire(s),
         UNCHANGED <<swapchainVars, contextVars>>
  PROVE  HandleInvariant'
<1>. USE DEF HandleInvariant
<1>1. /\ s \in acquiring /\ acquiring' = acquiring \ {s}
      /\ binary'[s] = "signaled" /\ \A t \in Semaphores : t # s => binary'[t] = binary[t]
      /\ UNCHANGED <<queue, fence, presents, engine, images, imageIndex, swapchains,
                     freeSemaphores, freeFences, alive, inFrame, frameID,
                     pendingBinarySemaphores, pendingWaitSemaphores, presenting>>
  BY DEF SignalAcquire, swapchainVars, contextVars, frameVars, HandleTypes
<1>2. LentToFrame(s) /\ binary[s] = "pending" /\ ~ LentToImage(s)
  BY <1>1 DEF PromisesWaited, Exclusive, LentToFrame
<1>3. \A t \in Semaphores : t # s => (Idle(t) => Idle(t)')
  BY <1>1 DEF Idle
<1>4. \A t \in Semaphores : /\ LentToFrame(t)' <=> LentToFrame(t)
                            /\ LentToImage(t)' <=> LentToImage(t)
  BY <1>1 DEF LentToFrame, LentToImage
<1>5. Exclusive' /\ NoneLentWithoutContext'
  BY <1>1 DEF Exclusive, NoneLentWithoutContext, LentToFrame, LentToImage
<1>6. UnlentIdle'
  BY <1>2, <1>3, <1>4 DEF UnlentIdle
<1>7. WaitsLent' /\ PromisesWaited'
  BY <1>1, <1>2, <1>4 DEF WaitsLent, PromisesWaited, CurrentSlot, HandleTypes
<1>8. SignalsLent'
  BY <1>1, <1>2, <1>4 DEF SignalsLent, HandleTypes
<1>9. PresentsMatch' /\ PresentsOnce' /\ FencesLent' /\ PresentsAcquired' /\ NoIndexWithoutHandle'
  BY <1>1 DEF PresentsMatch, PresentMatches, PresentsOnce, FencesLent, PresentsAcquired, Presentable,
     NoIndexWithoutHandle
<1>10. ImagesIdle'
  <2>1. ASSUME NEW o \in Swapchains, NEW i \in DOMAIN images[o], Idle(images[o][i].semaphore)
        PROVE  Idle(images[o][i].semaphore)'
    <3>1. images[o][i].semaphore \in Semaphores \ {s}
      BY <1>2 DEF LentToImage, HandleTypes
    <3>. QED BY <2>1, <3>1, <1>1, <1>3
  <2>. QED BY <2>1, <1>1 DEF ImagesIdle
<1>. QED
  BY <1>5, <1>6, <1>7, <1>8, <1>9, <1>10

(* A batch consumes waits that only frames hold, and signals what only images  *)
(* hold.                                                                     *)
LEMMA ExecuteBatchKeepsHandles ==
  ASSUME HandleInvariant, HandleTypes, ExecuteBatch, UNCHANGED <<swapchainVars, contextVars>>
  PROVE  HandleInvariant'
<1>. USE DEF HandleInvariant
<1>. DEFINE head == queue[1]
<1>1. /\ 1 \in DOMAIN queue /\ queue \in Seq(BatchType) /\ Head(queue) = head
      /\ \A s \in Range(head.waits) : binary[s] = "signaled"
      /\ \A s \in Semaphores : binary'[s] = IF s \in head.signals THEN "signaled"
                                 ELSE IF s \in Range(head.waits) THEN "unsignaled" ELSE binary[s]
      /\ queue' = Tail(queue)
  BY DEF ExecuteBatch, Executable, Range, HandleTypes
<1>2. UNCHANGED <<acquiring, fence, presents, engine, images, imageIndex, swapchains,
                  freeSemaphores, freeFences, alive, inFrame, frameID,
                  pendingBinarySemaphores, pendingWaitSemaphores, presenting>>
  BY DEF ExecuteBatch, swapchainVars, contextVars, frameVars
<1>3. /\ \A i \in DOMAIN queue' : i + 1 \in DOMAIN queue /\ i + 1 # 1 /\ queue'[i] = queue[i + 1]
      /\ \A i \in DOMAIN queue : i # 1 => i - 1 \in DOMAIN queue' /\ queue'[i - 1] = queue[i]
  BY <1>1
<1>. HIDE DEF head
<1>4. /\ \A s \in Range(head.waits) : LentToFrame(s) /\ ~ LentToImage(s)
      /\ \A s \in head.signals : LentToImage(s) /\ ~ LentToFrame(s)
  <2>1. head.slot \in Frames
    BY <1>1 DEF head, HandleTypes
  <2>2. \A s \in Range(head.waits) : s \in pendingBinarySemaphores[head.slot]
    BY <1>1 DEF head, WaitsLent
  <2>3. \A s \in head.signals : LentToImage(s)
    BY <1>1 DEF head, SignalsLent
  <2>4. \A s : LentToFrame(s) => ~ LentToImage(s)
    BY DEF Exclusive, LentToFrame
  <2>. QED BY <2>1, <2>2, <2>3, <2>4 DEF LentToFrame
<1>5. \A s \in Semaphores : Idle(s) => Idle(s)'
  <2>1. ASSUME NEW s \in Semaphores, Idle(s) PROVE Idle(s)'
    <3>1. s \notin head.signals \union Range(head.waits)
      BY <2>1, <1>1 DEF Idle, head
    <3>2. binary'[s] = "unsignaled"
      BY <2>1, <3>1, <1>1 DEF Idle
    <3>3. \A i \in DOMAIN queue' : s \notin queue'[i].signals \union Range(queue'[i].waits)
      BY <2>1, <1>3 DEF Idle
    <3>. QED BY <2>1, <3>2, <3>3, <1>2 DEF Idle
  <2>. QED BY <2>1
<1>6. \A s \in Semaphores : /\ LentToFrame(s)' <=> LentToFrame(s)
                            /\ LentToImage(s)' <=> LentToImage(s)
  BY <1>2 DEF LentToFrame, LentToImage
<1>7. Exclusive' /\ NoneLentWithoutContext'
  BY <1>2 DEF Exclusive, NoneLentWithoutContext, LentToFrame, LentToImage
<1>8. UnlentIdle'
  BY <1>5, <1>6 DEF UnlentIdle
<1>9. WaitsLent'
  BY <1>2, <1>3 DEF WaitsLent, CurrentSlot
<1>10. PromisesWaited'
  <2>1. \A s \in acquiring : LentToFrame(s)' /\ binary'[s] = "pending"
    BY <1>1, <1>4, <1>6 DEF PromisesWaited, HandleTypes
  <2>2. ASSUME NEW s \in Semaphores, LentToFrame(s), binary'[s] # "unsignaled"
        PROVE  \/ s \in Range(pendingWaitSemaphores[frameID])
               \/ \E i \in DOMAIN queue' : s \in Range(queue'[i].waits)
    <3>1. s \notin head.signals /\ s \notin Range(head.waits) /\ binary[s] # "unsignaled"
      BY <2>2, <1>1, <1>4
    <3>2. CASE \E i \in DOMAIN queue : s \in Range(queue[i].waits)
      BY <3>1, <3>2, <1>3 DEF head
    <3>. QED BY <2>2, <3>1, <3>2 DEF PromisesWaited
  <2>. QED BY <2>1, <2>2, <1>2, <1>6 DEF PromisesWaited
<1>11. SignalsLent'
  <2>1. ASSUME NEW i \in DOMAIN queue, i # 1, NEW s \in queue[i].signals
        PROVE  LentToImage(s)' /\ binary'[s] = "pending"
    <3>1. s \in Semaphores /\ LentToImage(s) /\ binary[s] = "pending"
      BY DEF SignalsLent, HandleTypes
    <3>2. s \notin head.signals /\ s \notin Range(head.waits)
      BY <2>1, <3>1, <1>1, <1>4 DEF SignalsLent, head
    <3>. QED BY <3>1, <3>2, <1>1, <1>6
  <2>2. \A i \in DOMAIN queue' : \A s \in queue'[i].signals : LentToImage(s)' /\ binary'[s] = "pending"
    BY <2>1, <1>3
  <2>3. \A i, j \in DOMAIN queue' : i # j => queue'[i].signals \intersect queue'[j].signals = {}
    <3>1. \A i, j \in DOMAIN queue' : i # j => i + 1 # j + 1
      BY <1>1
    <3>. QED BY <3>1, <1>3 DEF SignalsLent
  <2>. QED BY <2>2, <2>3 DEF SignalsLent
<1>12. PresentsMatch' /\ PresentsOnce' /\ FencesLent' /\ PresentsAcquired' /\ NoIndexWithoutHandle'
  BY <1>2 DEF PresentsMatch, PresentMatches, PresentsOnce, FencesLent, PresentsAcquired, Presentable,
     NoIndexWithoutHandle
<1>13. ImagesIdle'
  <2>1. ASSUME NEW o \in Swapchains, NEW i \in DOMAIN images[o], Idle(images[o][i].semaphore)
        PROVE  Idle(images[o][i].semaphore)'
    <3>1. images[o][i].semaphore \in Semaphores
      BY DEF HandleTypes
    <3>. QED BY <2>1, <3>1, <1>2, <1>5
  <2>. QED BY <2>1, <1>2 DEF ImagesIdle
<1>. QED
  BY <1>7, <1>8, <1>9, <1>10, <1>11, <1>12, <1>13

(* What is left to do of a present, with one step of it done.                *)
LEMMA DoneParts ==
  ASSUME HandleTypes, NEW p \in presents, NEW step \in {"wait", "image", "fence"},
         step \in p.todo, NEW q \in Done(p, step)
  PROVE  \/ q \in presents /\ q # p
         \/ /\ q = [p EXCEPT !.todo = @ \ {step}]
            /\ q.swapchain = p.swapchain /\ q.image = p.image
            /\ q.semaphore = p.semaphore /\ q.fence = p.fence
            /\ q.todo = p.todo \ {step}
<1>1. p \in PresentType
  BY DEF HandleTypes
<1>2. q \in presents \ {p} \/ q = [p EXCEPT !.todo = @ \ {step}]
  BY DEF Done
<1>. QED
  BY <1>1, <1>2 DEF PresentType

LEMMA DoneKeepsOthers ==
  ASSUME NEW p, NEW step, NEW q \in presents, q # p
  PROVE  q \in Done(p, step)
BY DEF Done

(* No step of a present makes another the second of its image or its fence.  *)
LEMMA DoneOnce ==
  ASSUME HandleInvariant, HandleTypes, NEW p \in presents, NEW step \in {"wait", "image", "fence"},
         step \in p.todo, presents' = Done(p, step)
  PROVE  PresentsOnce'
<1>1. SUFFICES ASSUME NEW q \in presents', NEW r \in presents',
                      q.swapchain = r.swapchain /\ q.image = r.image,
                      \/ "image" \in q.todo /\ "image" \in r.todo
                      \/ "fence" \in q.todo /\ "fence" \in r.todo
               PROVE  q = r
  BY DEF PresentsOnce
<1>2. \A x \in presents' :
        \/ x \in presents /\ x # p
        \/ /\ x = [p EXCEPT !.todo = @ \ {step}]
           /\ x.swapchain = p.swapchain /\ x.image = p.image
           /\ x.todo \subseteq p.todo
  BY DoneParts
<1>. QED
  BY <1>1, <1>2 DEF HandleInvariant, PresentsOnce

(* The waited-for semaphore was signaled by a batch that has left the queue.  *)
LEMMA PresentWaitKeepsHandles ==
  ASSUME HandleInvariant, HandleTypes, NEW p \in presents, PresentWait(p),
         UNCHANGED <<swapchainVars, contextVars>>
  PROVE  HandleInvariant'
<1>. USE DEF HandleInvariant
<1>. DEFINE s == p.semaphore
<1>1. /\ "wait" \in p.todo /\ binary[s] = "signaled" /\ s \in Semaphores
      /\ p.swapchain \in Swapchains
      /\ binary'[s] = "unsignaled" /\ \A t \in Semaphores : t # s => binary'[t] = binary[t]
      /\ presents' = Done(p, "wait")
      /\ UNCHANGED <<queue, acquiring, fence, engine, images, imageIndex, swapchains,
                     freeSemaphores, freeFences, alive, inFrame, frameID,
                     pendingBinarySemaphores, pendingWaitSemaphores, presenting>>
  BY DEF PresentWait, swapchainVars, contextVars, frameVars, HandleTypes
<1>2. /\ "image" \in p.todo
      /\ p.image \in DOMAIN images[p.swapchain]
      /\ images[p.swapchain][p.image].semaphore = s
  BY <1>1 DEF PresentsMatch, PresentMatches
<1>3. LentToImage(s) /\ ~ LentToFrame(s)
  BY <1>1, <1>2 DEF LentToImage, LentToFrame, Exclusive
<1>4. \A q \in presents' :
        \/ q \in presents /\ q # p
        \/ /\ q.swapchain = p.swapchain /\ q.image = p.image
           /\ q.semaphore = p.semaphore /\ q.fence = p.fence
           /\ q.todo = p.todo \ {"wait"}
  BY <1>1, DoneParts
<1>5. \A t \in Semaphores : t # s => (Idle(t) => Idle(t)')
  <2>1. ASSUME NEW t \in Semaphores, t # s, Idle(t) PROVE Idle(t)'
    <3>1. \A q \in presents' : "wait" \in q.todo => q.semaphore # t
      BY <2>1, <1>4 DEF Idle
    <3>. QED BY <2>1, <3>1, <1>1 DEF Idle
  <2>. QED BY <2>1
<1>6. Idle(s)'
  <2>1. s \notin acquiring
    BY <1>3 DEF PromisesWaited
  <2>2. \A i \in DOMAIN queue : s \notin queue[i].signals
    BY <1>1 DEF SignalsLent
  <2>3. \A i \in DOMAIN queue : s \notin Range(queue[i].waits)
    BY <1>3 DEF WaitsLent, LentToFrame, HandleTypes
  <2>4. ASSUME NEW q \in presents', "wait" \in q.todo PROVE q.semaphore # s
    <3>1. q \in presents /\ q # p
      BY <2>4, <1>4
    <3>2. /\ q.swapchain \in Swapchains /\ q.image \in DOMAIN images[q.swapchain]
          /\ images[q.swapchain][q.image].semaphore = q.semaphore
          /\ "image" \in q.todo
      BY <2>4, <3>1 DEF PresentsMatch, PresentMatches, HandleTypes
    <3>3. ASSUME q.semaphore = s PROVE FALSE
      <4>1. q.swapchain = p.swapchain /\ q.image = p.image
        BY <3>2, <3>3, <1>1, <1>2 DEF Exclusive
      <4>. QED BY <4>1, <3>1, <3>2, <1>2 DEF PresentsOnce
    <3>. QED BY <3>3
  <2>. QED BY <2>1, <2>2, <2>3, <2>4, <1>1 DEF Idle
<1>7. \A t \in Semaphores : /\ LentToFrame(t)' <=> LentToFrame(t)
                            /\ LentToImage(t)' <=> LentToImage(t)
  BY <1>1 DEF LentToFrame, LentToImage
<1>8. Exclusive' /\ NoneLentWithoutContext'
  BY <1>1 DEF Exclusive, NoneLentWithoutContext, LentToFrame, LentToImage
<1>9. UnlentIdle'
  BY <1>3, <1>5, <1>7 DEF UnlentIdle
<1>10. WaitsLent' /\ PromisesWaited'
  BY <1>1, <1>3, <1>7 DEF WaitsLent, PromisesWaited, CurrentSlot, HandleTypes
<1>11. SignalsLent'
  BY <1>1, <1>7 DEF SignalsLent, HandleTypes
<1>12. PresentsMatch'
  <2>1. "fence" \in p.todo <=> p.fence # {}
    BY <1>1 DEF PresentsMatch, PresentMatches
  <2>2. ASSUME NEW q \in presents', ~ (q \in presents /\ q # p)
        PROVE  /\ q.swapchain = p.swapchain /\ q.image = p.image
               /\ q.semaphore = p.semaphore /\ q.fence = p.fence
               /\ q.todo = p.todo \ {"wait"}
    BY <2>2, <1>4
  <2>3. ASSUME NEW q \in presents'
        PROVE  /\ "wait" \in q.todo => "image" \in q.todo /\ (q.fence # {} => "fence" \in q.todo)
               /\ "image" \in q.todo => engine[q.swapchain][q.image] = "presenting"
               /\ "fence" \in q.todo => q.fence # {} /\ \A f \in q.fence : fence[f] = "unsignaled"
               /\ "wait" \in q.todo \/ "fence" \in q.todo =>
                    /\ q.image \in DOMAIN images[q.swapchain]
                    /\ images[q.swapchain][q.image].semaphore = q.semaphore
                    /\ images[q.swapchain][q.image].fence = q.fence
    <3>1. CASE q \in presents /\ q # p
      BY <3>1 DEF PresentsMatch, PresentMatches
    <3>2. CASE ~ (q \in presents /\ q # p)
      BY <3>2, <2>2 DEF PresentsMatch, PresentMatches
    <3>. QED BY <3>1, <3>2
  <2>. QED BY <2>3, <1>1 DEF PresentsMatch, PresentMatches
<1>13. PresentsOnce'
  BY <1>1, DoneOnce
<1>14. FencesLent' /\ PresentsAcquired' /\ NoIndexWithoutHandle'
  BY <1>1 DEF FencesLent, PresentsAcquired, Presentable, NoIndexWithoutHandle
<1>15. ImagesIdle'
  <2>1. SUFFICES ASSUME NEW o \in Swapchains, NEW i \in DOMAIN images[o]
                 PROVE  \/ Idle(images[o][i].semaphore)'
                        \/ imageIndex[o] = i /\ o \in Range(presenting)
                        \/ \E q \in presents' : q.swapchain = o /\ q.image = i /\ "wait" \in q.todo
    BY <1>1 DEF ImagesIdle
  <2>2. images[o][i].semaphore \in Semaphores
    BY DEF HandleTypes
  <2>3. ASSUME Idle(images[o][i].semaphore), images[o][i].semaphore # s
        PROVE  Idle(images[o][i].semaphore)'
    BY <2>2, <2>3, <1>1, <1>5
  <2>4. ASSUME images[o][i].semaphore = s
        PROVE  Idle(images[o][i].semaphore)'
    BY <2>4, <1>1, <1>6
  <2>5. ASSUME NEW q \in presents, q.swapchain = o, q.image = i, "wait" \in q.todo,
               images[o][i].semaphore # s
        PROVE  \E r \in presents' : r.swapchain = o /\ r.image = i /\ "wait" \in r.todo
    <3>1. q # p
      BY <2>5, <1>2
    <3>. QED BY <2>5, <3>1, <1>1, DoneKeepsOthers
  <2>. QED BY <2>3, <2>4, <2>5 DEF ImagesIdle
<1>. QED
  BY <1>8, <1>9, <1>10, <1>11, <1>12, <1>13, <1>14, <1>15

(* What a present still has to wait for, no step of another's changes.        *)
LEMMA DoneKeepsIdle ==
  ASSUME HandleInvariant, HandleTypes, NEW p \in presents, NEW step \in {"image", "fence"},
         step \in p.todo, "wait" \notin p.todo, presents' = Done(p, step),
         UNCHANGED <<queue, binary, acquiring, images, imageIndex, presenting,
                     pendingBinarySemaphores>>
  PROVE  /\ \A s \in Semaphores : Idle(s) => Idle(s)'
         /\ UnlentIdle' /\ ImagesIdle'
<1>1. \A q \in presents' :
        \/ q \in presents /\ q # p
        \/ q.todo = p.todo \ {step}
  BY DoneParts
<1>2. \A q \in presents' : "wait" \in q.todo => q \in presents
  BY <1>1
<1>3. \A q \in presents : "wait" \in q.todo => q \in presents'
  BY DoneKeepsOthers
<1>4. \A s \in Semaphores : Idle(s) => Idle(s)'
  BY <1>2 DEF Idle
<1>5. UnlentIdle'
  BY <1>4 DEF HandleInvariant, UnlentIdle, LentToFrame, LentToImage
<1>6. ImagesIdle'
  <2>1. ASSUME NEW o \in Swapchains, NEW i \in DOMAIN images[o], Idle(images[o][i].semaphore)
        PROVE  Idle(images[o][i].semaphore)'
    <3>1. images[o][i].semaphore \in Semaphores
      BY DEF HandleTypes
    <3>. QED BY <2>1, <3>1, <1>4
  <2>. QED BY <2>1, <1>3 DEF HandleInvariant, ImagesIdle
<1>. QED
  BY <1>4, <1>5, <1>6

LEMMA DoneKeepsMatch ==
  ASSUME HandleTypes, NEW p \in presents, NEW step \in {"image", "fence"},
         step \in p.todo, "wait" \notin p.todo, presents' = Done(p, step),
         UNCHANGED images,
         \A q \in presents : q # p => PresentMatches(q)',
         "image" \in p.todo /\ step = "fence" => engine'[p.swapchain][p.image] = "presenting",
         "fence" \in p.todo /\ step = "image" =>
           p.fence # {} /\ \A f \in p.fence : fence'[f] = "unsignaled",
         PresentsMatch
  PROVE  PresentsMatch'
<1>1. ASSUME NEW q \in presents'
      PROVE  PresentMatches(q)'
  <2>1. CASE q \in presents /\ q # p
    BY <2>1
  <2>2. CASE /\ q.swapchain = p.swapchain /\ q.image = p.image
             /\ q.semaphore = p.semaphore /\ q.fence = p.fence
             /\ q.todo = p.todo \ {step}
    BY <2>2 DEF PresentsMatch, PresentMatches
  <2>. QED BY <2>1, <2>2, DoneParts
<1>. QED
  BY <1>1 DEF PresentsMatch, PresentMatches

(* An image that leaves the screen is not the one about to be presented.      *)
LEMMA PresentReleaseKeepsHandles ==
  ASSUME HandleInvariant, HandleTypes, NEW p \in presents, PresentRelease(p),
         UNCHANGED <<swapchainVars, contextVars>>
  PROVE  HandleInvariant'
<1>. USE DEF HandleInvariant
<1>1. /\ "wait" \notin p.todo /\ "image" \in p.todo
      /\ p.swapchain \in Swapchains /\ p.image \in Image
      /\ engine' = [engine EXCEPT ![p.swapchain][p.image] = "available"]
      /\ presents' = Done(p, "image")
      /\ UNCHANGED <<queue, binary, acquiring, fence, images, imageIndex, swapchains,
                     freeSemaphores, freeFences, alive, inFrame, frameID,
                     pendingBinarySemaphores, pendingWaitSemaphores, presenting>>
  BY DEF PresentRelease, swapchainVars, contextVars, frameVars, HandleTypes
<1>2. \A o \in Swapchains : \A i \in Image :
        o # p.swapchain \/ i # p.image => engine'[o][i] = engine[o][i]
  BY <1>1 DEF HandleTypes
<1>3. engine[p.swapchain][p.image] = "presenting"
  BY <1>1 DEF PresentsMatch, PresentMatches
<1>4. UnlentIdle' /\ ImagesIdle'
  BY <1>1, DoneKeepsIdle
<1>5. PresentsOnce'
  BY <1>1, DoneOnce
<1>6. PresentsMatch'
  <2>1. ASSUME NEW q \in presents, q # p PROVE PresentMatches(q)'
    <3>1. "image" \in q.todo => q.swapchain # p.swapchain \/ q.image # p.image
      BY <2>1, <1>1 DEF PresentsOnce
    <3>2. "image" \in q.todo => engine'[q.swapchain][q.image] = engine[q.swapchain][q.image]
      BY <3>1, <1>2 DEF HandleTypes
    <3>. QED BY <3>2, <1>1 DEF PresentsMatch, PresentMatches
  <2>2. "fence" \in p.todo => p.fence # {} /\ \A f \in p.fence : fence'[f] = "unsignaled"
    BY <1>1 DEF PresentsMatch, PresentMatches
  <2>. QED BY <2>1, <2>2, <1>1, DoneKeepsMatch
<1>7. PresentsAcquired'
  <2>1. ASSUME NEW o \in Swapchains, imageIndex[o] # NoIndex
        PROVE  Presentable(o)' /\ engine'[o][imageIndex[o]] = "acquired"
    <3>1. Presentable(o) /\ engine[o][imageIndex[o]] = "acquired"
      BY <2>1 DEF PresentsAcquired
    <3>2. imageIndex[o] \in Image
      BY <2>1 DEF HandleTypes
    <3>3. o # p.swapchain \/ imageIndex[o] # p.image
      BY <3>1, <1>3
    <3>. QED BY <3>1, <3>2, <3>3, <1>1, <1>2 DEF Presentable
  <2>. QED BY <2>1, <1>1 DEF PresentsAcquired
<1>8. Exclusive' /\ NoneLentWithoutContext' /\ WaitsLent' /\ PromisesWaited' /\ SignalsLent'
  BY <1>1 DEF Exclusive, NoneLentWithoutContext, LentToFrame, LentToImage, WaitsLent,
     PromisesWaited, SignalsLent, CurrentSlot
<1>9. FencesLent' /\ NoIndexWithoutHandle'
  BY <1>1 DEF FencesLent, NoIndexWithoutHandle
<1>. QED
  BY <1>4, <1>5, <1>6, <1>7, <1>8, <1>9

(* A fence is signaled by the one present that has it.                        *)
LEMMA PresentFenceKeepsHandles ==
  ASSUME HandleInvariant, HandleTypes, NEW p \in presents, PresentFence(p),
         UNCHANGED <<swapchainVars, contextVars>>
  PROVE  HandleInvariant'
<1>. USE DEF HandleInvariant
<1>1. /\ "wait" \notin p.todo /\ "fence" \in p.todo
      /\ p.swapchain \in Swapchains
      /\ \A f \in Fences : fence'[f] = IF f \in p.fence THEN "signaled" ELSE fence[f]
      /\ presents' = Done(p, "fence")
      /\ UNCHANGED <<queue, binary, acquiring, engine, images, imageIndex, swapchains,
                     freeSemaphores, freeFences, alive, inFrame, frameID,
                     pendingBinarySemaphores, pendingWaitSemaphores, presenting>>
  BY DEF PresentFence, swapchainVars, contextVars, frameVars, HandleTypes
<1>2. p.image \in DOMAIN images[p.swapchain] /\ images[p.swapchain][p.image].fence = p.fence
  BY <1>1 DEF PresentsMatch, PresentMatches
<1>3. UnlentIdle' /\ ImagesIdle'
  BY <1>1, DoneKeepsIdle
<1>4. PresentsOnce'
  BY <1>1, DoneOnce
<1>5. PresentsMatch'
  <2>1. ASSUME NEW q \in presents, q # p PROVE PresentMatches(q)'
    <3>1. ASSUME "fence" \in q.todo PROVE q.fence \intersect p.fence = {}
      <4>1. /\ q.swapchain \in Swapchains /\ q.image \in DOMAIN images[q.swapchain]
            /\ images[q.swapchain][q.image].fence = q.fence
        BY <3>1 DEF PresentsMatch, PresentMatches, HandleTypes
      <4>2. ASSUME q.fence \intersect p.fence # {} PROVE FALSE
        <5>1. q.swapchain = p.swapchain /\ q.image = p.image
          BY <4>1, <4>2, <1>1, <1>2 DEF FencesLent
        <5>. QED BY <5>1, <3>1, <2>1, <1>1 DEF PresentsOnce
      <4>. QED BY <4>2
    <3>2. q.fence \subseteq Fences
      BY DEF HandleTypes
    <3>3. "fence" \in q.todo => \A f \in q.fence : fence'[f] = fence[f]
      BY <3>1, <3>2, <1>1
    <3>. QED BY <3>3, <1>1 DEF PresentsMatch, PresentMatches
  <2>2. "image" \in p.todo => engine'[p.swapchain][p.image] = "presenting"
    BY <1>1 DEF PresentsMatch, PresentMatches
  <2>. QED BY <2>1, <2>2, <1>1, DoneKeepsMatch
<1>6. FencesLent'
  <2>1. \A f \in freeFences : fence'[f] = "signaled"
    BY <1>1 DEF FencesLent, HandleTypes
  <2>. QED BY <2>1, <1>1 DEF FencesLent
<1>7. Exclusive' /\ NoneLentWithoutContext' /\ WaitsLent' /\ PromisesWaited' /\ SignalsLent'
  BY <1>1 DEF Exclusive, NoneLentWithoutContext, LentToFrame, LentToImage, WaitsLent,
     PromisesWaited, SignalsLent, CurrentSlot
<1>8. PresentsAcquired' /\ NoIndexWithoutHandle'
  BY <1>1 DEF PresentsAcquired, Presentable, NoIndexWithoutHandle
<1>. QED
  BY <1>3, <1>4, <1>5, <1>6, <1>7, <1>8

-----------------------------------------------------------------------------
(* The frames                                                                *)

(* What slots give back is idle, once no batch waits for it: it has been       *)
(* waited for, and is no image's.                                            *)
LEMMA GivenBackIdle ==
  ASSUME HandleInvariant, HandleTypes, NEW s \in Semaphores, LentToFrame(s),
         s \notin Range(pendingWaitSemaphores[frameID]),
         \A i \in DOMAIN queue : s \notin Range(queue[i].waits)
  PROVE  Idle(s)
<1>. USE DEF HandleInvariant
<1>1. ~ LentToImage(s)
  BY DEF Exclusive, LentToFrame
<1>2. binary[s] = "unsignaled"
  BY DEF PromisesWaited
<1>3. s \notin acquiring
  BY <1>2 DEF PromisesWaited
<1>4. \A i \in DOMAIN queue : s \notin queue[i].signals
  BY <1>1 DEF SignalsLent
<1>5. \A p \in presents : "wait" \in p.todo => p.semaphore # s
  <2>1. ASSUME NEW p \in presents, "wait" \in p.todo PROVE LentToImage(p.semaphore)
    <3>1. p.swapchain \in Swapchains
      BY DEF HandleTypes
    <3>. QED BY <2>1, <3>1 DEF PresentsMatch, PresentMatches, LentToImage
  <2>. QED BY <2>1, <1>1
<1>. QED
  BY <1>2, <1>3, <1>4, <1>5 DEF Idle

(* Slots that no batch waits for give all they have back.                      *)
SlotsGiveBack(G) ==
  /\ G \subseteq Frames
  /\ freeSemaphores' = freeSemaphores \union UNION {pendingBinarySemaphores[f] : f \in G}
  /\ pendingBinarySemaphores' = [f \in Frames |-> IF f \in G THEN {} ELSE pendingBinarySemaphores[f]]
  /\ UNCHANGED <<queue, binary, acquiring, fence, presents, engine, images, imageIndex,
                 swapchains, freeFences, presenting>>
  /\ pendingWaitSemaphores' = pendingWaitSemaphores
  /\ \A f \in Frames : pendingWaitSemaphores[f] = <<>>
  /\ \A i \in DOMAIN queue : queue[i].slot \notin G

LEMMA GiveBackExclusive ==
  ASSUME Exclusive, HandleTypes, NEW G \in SUBSET Frames, UNCHANGED images,
         freeSemaphores' = freeSemaphores \union UNION {pendingBinarySemaphores[f] : f \in G},
         \A f \in Frames :
           pendingBinarySemaphores'[f] = IF f \in G THEN {} ELSE pendingBinarySemaphores[f]
  PROVE  Exclusive'
<1>1. \A s \in Semaphores : LentToImage(s)' <=> LentToImage(s)
  BY DEF LentToImage
<1>2. \A f \in G : \A s \in pendingBinarySemaphores[f] : s \in Semaphores /\ ~ LentToImage(s)
  BY DEF Exclusive, HandleTypes
<1>3. \A f \in Frames : \A s \in pendingBinarySemaphores'[f] :
        s \notin freeSemaphores' /\ ~ LentToImage(s)'
  <2>1. SUFFICES ASSUME NEW f \in Frames \ G, NEW s \in pendingBinarySemaphores[f]
                 PROVE  s \notin freeSemaphores' /\ ~ LentToImage(s)'
    OBVIOUS
  <2>2. s \in Semaphores /\ s \notin freeSemaphores /\ ~ LentToImage(s)
    BY DEF Exclusive, HandleTypes
  <2>3. \A g \in G : s \notin pendingBinarySemaphores[g]
    BY DEF Exclusive
  <2>. QED BY <2>2, <2>3, <1>1
<1>4. \A f, g \in Frames : \A s \in pendingBinarySemaphores'[f] :
        s \in pendingBinarySemaphores'[g] => f = g
  BY DEF Exclusive
<1>5. \A o \in Swapchains : \A i \in DOMAIN images'[o] : images'[o][i].semaphore \notin freeSemaphores'
  BY <1>2 DEF Exclusive, LentToImage
<1>. QED
  BY <1>3, <1>4, <1>5 DEF Exclusive

LEMMA SlotsGiveBackKeeps ==
  ASSUME HandleInvariant, HandleTypes, HandleTypes', NEW G, SlotsGiveBack(G),
         G = Frames \/ (alive /\ alive')
  PROVE  HandleInvariant'
<1>. USE DEF HandleInvariant
<1>1. /\ UNCHANGED <<queue, binary, acquiring, fence, presents, engine, images, imageIndex,
                     swapchains, freeFences, presenting, pendingWaitSemaphores>>
      /\ freeSemaphores' = freeSemaphores \union UNION {pendingBinarySemaphores[f] : f \in G}
      /\ \A f \in Frames :
           pendingBinarySemaphores'[f] = IF f \in G THEN {} ELSE pendingBinarySemaphores[f]
  BY DEF SlotsGiveBack
<1>2. \A f \in Frames : Range(pendingWaitSemaphores[f]) = {}
  BY DEF SlotsGiveBack, Range
<1>3. \A i \in DOMAIN queue : Range(queue[i].waits) \subseteq pendingBinarySemaphores[queue[i].slot]
                              /\ queue[i].slot \in Frames \ G
  BY DEF SlotsGiveBack, WaitsLent, HandleTypes
<1>4. \A f \in G : \A s \in pendingBinarySemaphores[f] : \A i \in DOMAIN queue :
        s \notin Range(queue[i].waits)
  BY <1>3 DEF Exclusive, SlotsGiveBack
<1>5. \A s \in Semaphores : LentToFrame(s)' <=> \E f \in Frames \ G : s \in pendingBinarySemaphores[f]
  BY <1>1 DEF LentToFrame
<1>6. \A s \in Semaphores : (LentToImage(s)' <=> LentToImage(s)) /\ (Idle(s)' <=> Idle(s))
  BY <1>1 DEF LentToImage, Idle
<1>7. \A f \in G : \A s \in pendingBinarySemaphores[f] : s \in Semaphores /\ ~ LentToImage(s) /\ Idle(s)
  <2>1. SUFFICES ASSUME NEW f \in G, NEW s \in pendingBinarySemaphores[f]
                 PROVE  s \in Semaphores /\ ~ LentToImage(s) /\ Idle(s)
    OBVIOUS
  <2>2. f \in Frames
    BY DEF SlotsGiveBack
  <2>3. s \in Semaphores /\ LentToFrame(s) /\ ~ LentToImage(s)
    BY <2>2 DEF HandleTypes, LentToFrame, Exclusive
  <2>4. s \notin Range(pendingWaitSemaphores[frameID])
    BY <1>2 DEF HandleTypes
  <2>. QED BY <2>3, <2>4, <1>4, GivenBackIdle
<1>8. Exclusive'
  BY <1>1, GiveBackExclusive DEF SlotsGiveBack
<1>9. UnlentIdle'
  <2>1. SUFFICES ASSUME NEW s \in Semaphores, ~ LentToFrame(s)', ~ LentToImage(s)
                 PROVE  Idle(s)
    BY <1>6 DEF UnlentIdle
  <2>2. CASE LentToFrame(s)
    BY <2>1, <2>2, <1>5, <1>7 DEF LentToFrame
  <2>. QED BY <2>1, <2>2 DEF UnlentIdle
<1>10. NoneLentWithoutContext'
  BY <1>5 DEF NoneLentWithoutContext, SlotsGiveBack
<1>11. WaitsLent'
  BY <1>1, <1>2, <1>3 DEF WaitsLent, SlotsGiveBack
<1>12. PromisesWaited'
  <2>1. ASSUME NEW s \in acquiring PROVE LentToFrame(s)' /\ binary[s] = "pending"
    <3>1. s \in Semaphores /\ LentToFrame(s) /\ ~ Idle(s)
      BY DEF PromisesWaited, Idle, HandleTypes
    <3>2. \E f \in Frames \ G : s \in pendingBinarySemaphores[f]
      BY <3>1, <1>7 DEF LentToFrame
    <3>. QED BY <3>1, <3>2, <1>5 DEF PromisesWaited
  <2>2. ASSUME NEW s \in Semaphores, LentToFrame(s)', binary[s] # "unsignaled"
        PROVE  \E i \in DOMAIN queue : s \in Range(queue[i].waits)
    <3>1. LentToFrame(s)
      BY <2>2, <1>5 DEF LentToFrame
    <3>. QED BY <3>1, <2>2, <1>2 DEF PromisesWaited, HandleTypes
  <2>. QED BY <2>1, <2>2, <1>1 DEF PromisesWaited
<1>13. SignalsLent'
  BY <1>1, <1>6 DEF SignalsLent, HandleTypes
<1>14. PresentsMatch' /\ PresentsOnce' /\ FencesLent' /\ PresentsAcquired' /\ NoIndexWithoutHandle'
  BY <1>1 DEF PresentsMatch, PresentMatches, PresentsOnce, FencesLent, PresentsAcquired, Presentable,
     NoIndexWithoutHandle
<1>15. ImagesIdle'
  <2>1. ASSUME NEW o \in Swapchains, NEW i \in DOMAIN images[o], Idle(images[o][i].semaphore)
        PROVE  Idle(images[o][i].semaphore)'
    BY <2>1, <1>1 DEF Idle
  <2>. QED BY <2>1, <1>1 DEF ImagesIdle
<1>. QED
  BY <1>8, <1>9, <1>10, <1>11, <1>12, <1>13, <1>14, <1>15

(* vkm_context_begin: the wait for the slot's value leaves no batch of its own. *)
LEMMA BeginKeepsHandles ==
  ASSUME HandleInvariant, HandleTypes, HandleTypes', CoreType, FrameInvariant, Begin
  PROVE  HandleInvariant'
<1>1. CASE \E why : Fatal(why)
  BY <1>1, HandlesStutter DEF Fatal, gpuVars, swapchainVars, contextVars, frameVars, handleCore
<1>2. CASE ~ \E why : Fatal(why)
  <2>1. /\ alive /\ alive' /\ ~ inFrame /\ SlotDone(frameID) /\ frameID \in Frames
        /\ freeSemaphores' = freeSemaphores \union pendingBinarySemaphores[frameID]
        /\ pendingBinarySemaphores' = [pendingBinarySemaphores EXCEPT ![frameID] = {}]
        /\ UNCHANGED <<queue, binary, acquiring, fence, presents, engine, images, imageIndex,
                       swapchains, freeFences, presenting, pendingWaitSemaphores>>
    BY <1>2 DEF Begin, TimesOut, gpuVars, HandleTypes
  <2>2. \A f \in Frames : pendingWaitSemaphores[f] = <<>>
    BY <2>1 DEF HandleInvariant, WaitsLent, CurrentSlot
  <2>3. \A i \in DOMAIN queue : queue[i].slot # frameID
    BY <2>1, SlotDoneFreesSlot DEF FrameInvariant
  <2>4. UNION {pendingBinarySemaphores[f] : f \in {frameID}} = pendingBinarySemaphores[frameID]
    OBVIOUS
  <2>5. SlotsGiveBack({frameID})
    BY <2>1, <2>2, <2>3, <2>4 DEF SlotsGiveBack, HandleTypes
  <2>. QED BY <2>1, <2>5, SlotsGiveBackKeeps
<1>. QED
  BY <1>1, <1>2

(* vkm_createContext: there is nothing to forget.                              *)
LEMMA CreateContextKeepsHandles ==
  ASSUME HandleInvariant, HandleTypes, HandleTypes', FrameInvariant, CreateContext
  PROVE  HandleInvariant'
<1>. USE DEF HandleInvariant
<1>1. /\ ~ alive /\ queue = <<>> /\ FreshFrames /\ ~ inFrame
      /\ UNCHANGED <<queue, binary, acquiring, fence, presents, engine, swapchainVars, presenting>>
  BY DEF CreateContext, FrameInvariant, ContextGone
<1>2. \A f \in Frames : pendingBinarySemaphores[f] = {}
  BY <1>1 DEF NoneLentWithoutContext, LentToFrame, HandleTypes
<1>3. \A f \in Frames : pendingWaitSemaphores[f] = <<>>
  BY <1>1 DEF WaitsLent, CurrentSlot
<1>4. pendingBinarySemaphores' = [f \in Frames |-> {}] /\ pendingWaitSemaphores' = [f \in Frames |-> <<>>]
  BY <1>1 DEF FreshFrames
<1>5. pendingWaitSemaphores' = pendingWaitSemaphores
  BY <1>3, <1>4 DEF HandleTypes
<1>6. UNION {pendingBinarySemaphores[f] : f \in Frames} = {}
  BY <1>2
<1>7. SlotsGiveBack(Frames)
  BY <1>1, <1>3, <1>4, <1>5, <1>6 DEF SlotsGiveBack, swapchainVars
<1>. QED
  BY <1>7, SlotsGiveBackKeeps

(* vkm_destroyContext: it waits for every batch.                               *)
LEMMA DestroyContextKeepsHandles ==
  ASSUME HandleInvariant, HandleTypes, HandleTypes', CoreType, FrameInvariant, DestroyContext,
         "carryAcquire" \notin Liberties
  PROVE  HandleInvariant'
<1>1. CASE \E why : Fatal(why)
  BY <1>1, HandlesStutter DEF Fatal, gpuVars, swapchainVars, contextVars, frameVars, handleCore
<1>2. CASE ~ \E why : Fatal(why)
  <2>1. /\ Reached(pendingValue) /\ FreshFrames /\ pendingWaitSemaphores[frameID] = <<>>
        /\ freeSemaphores' = freeSemaphores \union HeldByFrames
        /\ UNCHANGED <<queue, binary, acquiring, fence, presents, engine, swapchains, images,
                       imageIndex, freeFences, presenting>>
    BY <1>2 DEF DestroyContext, TimesOut
  <2>2. queue = <<>>
    BY <2>1 DEF FrameInvariant, QueueNumbered, Reached, CoreType
  <2>3. \A f \in Frames : pendingWaitSemaphores[f] = <<>>
    BY <2>1 DEF HandleInvariant, WaitsLent, CurrentSlot
  <2>4. pendingBinarySemaphores' = [f \in Frames |-> {}] /\ pendingWaitSemaphores' = [f \in Frames |-> <<>>]
    BY <2>1 DEF FreshFrames
  <2>5. pendingWaitSemaphores' = pendingWaitSemaphores
    BY <2>3, <2>4 DEF HandleTypes
  <2>6. SlotsGiveBack(Frames)
    BY <2>1, <2>2, <2>3, <2>4, <2>5 DEF SlotsGiveBack, HeldByFrames
  <2>. QED BY <2>6, SlotsGiveBackKeeps
<1>. QED
  BY <1>1, <1>2

(* vkm_context_end: nothing is left to be waited for.                          *)
LEMMA EndKeepsHandles ==
  ASSUME HandleInvariant, HandleTypes, HandleTypes', FrameInvariant, End,
         "carryAcquire" \notin Liberties
  PROVE  HandleInvariant'
<1>1. CASE \E why : Fatal(why)
  BY <1>1, HandlesStutter DEF Fatal, gpuVars, swapchainVars, contextVars, frameVars, handleCore
<1>2. CASE ~ \E why : Fatal(why)
  <2>1. /\ pendingWaitSemaphores[frameID] = <<>> /\ alive
        /\ UNCHANGED <<queue, binary, acquiring, fence, presents, engine, swapchains, images,
                       imageIndex, freeSemaphores, freeFences, presenting, alive,
                       pendingBinarySemaphores, pendingWaitSemaphores>>
    BY <1>2 DEF End, gpuVars, swapchainVars, FrameInvariant, ContextGone
  <2>2. \A f \in Frames : pendingWaitSemaphores[f] = <<>>
    BY <2>1 DEF HandleInvariant, WaitsLent, CurrentSlot
  <2>3. {} \subseteq Frames /\ UNION {pendingBinarySemaphores[f] : f \in {}} = {}
    OBVIOUS
  <2>4. pendingBinarySemaphores = [f \in Frames |-> pendingBinarySemaphores[f]]
    BY DEF HandleTypes
  <2>5. SlotsGiveBack({})
    BY <2>1, <2>2, <2>3, <2>4 DEF SlotsGiveBack
  <2>. QED BY <2>1, <2>5, SlotsGiveBackKeeps
<1>. QED
  BY <1>1, <1>2

-----------------------------------------------------------------------------
LEMMA HandlesInit == Init => HandleInvariant
<1>. SUFFICES ASSUME Init PROVE HandleInvariant
  OBVIOUS
<1>. USE DEF Init, VulkanInit, SwapchainInit
<1>1. \A sc \in Swapchains : DOMAIN images[sc] = {} /\ imageIndex[sc] = NoIndex
  OBVIOUS
<1>2. \A s : ~ LentToFrame(s) /\ ~ LentToImage(s)
  BY <1>1 DEF LentToFrame, LentToImage
<1>3. \A s \in Semaphores : Idle(s)
  BY DEF Idle
<1>4. \A f \in Frames : Range(pendingWaitSemaphores[f]) = {}
  BY DEF Range
<1>5. Exclusive /\ UnlentIdle /\ NoneLentWithoutContext
  BY <1>1, <1>2, <1>3 DEF Exclusive, UnlentIdle, NoneLentWithoutContext
<1>6. WaitsLent /\ PromisesWaited /\ SignalsLent
  BY <1>2, <1>4 DEF WaitsLent, PromisesWaited, SignalsLent
<1>7. PresentsMatch /\ PresentsOnce /\ ImagesIdle /\ FencesLent
  BY <1>1 DEF PresentsMatch, PresentMatches, PresentsOnce, ImagesIdle, FencesLent
<1>8. PresentsAcquired /\ NoIndexWithoutHandle
  BY <1>1 DEF PresentsAcquired, NoIndexWithoutHandle
<1>. QED
  BY <1>5, <1>6, <1>7, <1>8 DEF HandleInvariant

(* A call that ends the process changes nothing.                               *)
LEMMA FatalKeepsHandles ==
  ASSUME HandleInvariant, NEW why, Fatal(why)
  PROVE  HandleInvariant'
BY HandlesStutter DEF Fatal, gpuVars, swapchainVars, contextVars, frameVars, handleCore

LEMMA SwapchainCallKeepsHandles ==
  ASSUME HandleInvariant, HandleTypes, HandleTypes', FrameInvariant,
         NEW sc \in Swapchains, SwapchainCall(sc), "resizeAcquired" \notin Liberties
  PROVE  HandleInvariant'
<1>1. CASE CreateSwapchain(sc)
  <2>1. PICK p \in Preferred : SwapchainCreated(sc, p[1], p[2], HeldByFrames)
    BY <1>1 DEF CreateSwapchain
  <2>2. imageIndex[sc] = NoIndex /\ presenting = <<>> /\ UNCHANGED contextVars
    BY <1>1 DEF CreateSwapchain, Running, HandleInvariant, NoIndexWithoutHandle
  <2>3. /\ PresentModeChanged(sc, p[1], p[2], HeldByFrames)
        /\ swapchains \subseteq swapchains'
    BY <2>1 DEF SwapchainCreated
  <2>. QED BY <2>2, <2>3, PresentModeChangedKeepsHandles
<1>2. CASE ChangeVkPresentMode(sc)
  <2>1. PICK p \in Preferred : PresentModeChanged(sc, p[1], p[2], HeldByFrames)
    BY <1>2 DEF ChangeVkPresentMode
  <2>2. /\ imageIndex[sc] = NoIndex /\ presenting = <<>>
        /\ UNCHANGED contextVars /\ swapchains \subseteq swapchains'
    BY <1>2 DEF ChangeVkPresentMode, Running, MayResize
  <2>. QED BY <2>1, <2>2, PresentModeChangedKeepsHandles
<1>3. CASE Resize(sc)
  <2>1. PICK extent \in Extents : Resized(sc, settings[sc].vkPresentMode, extent, HeldByFrames)
    BY <1>3 DEF Resize
  <2>2. /\ imageIndex[sc] = NoIndex /\ presenting = <<>>
        /\ UNCHANGED contextVars /\ swapchains \subseteq swapchains'
    BY <1>3 DEF Resize, Running, MayResize
  <2>. QED BY <2>1, <2>2, ResizedKeepsHandles
<1>4. CASE DestroySwapchain(sc)
  <2>1. /\ imageIndex[sc] = NoIndex /\ presenting = <<>>
        /\ UNCHANGED contextVars /\ SwapchainDestroyed(sc)
    BY <1>4 DEF DestroySwapchain, Running, MayResize
  <2>. QED BY <2>1, SwapchainDestroyedKeepsHandles
<1>5. CASE ImageWaitTimesOut(sc) \/ AcquireTimesOut(sc)
  BY <1>5, FatalKeepsHandles DEF ImageWaitTimesOut, AcquireTimesOut
<1>6. CASE AcquireSwapchain(sc)
  <2>1. CASE \E why : Fatal(why)
    BY <2>1, FatalKeepsHandles
  <2>2. CASE ~ \E why : Fatal(why)
    <3>1. /\ presenting = <<>> /\ inFrame /\ alive /\ sc \in swapchains
          /\ imageIndex[sc] = NoIndex
          /\ UNCHANGED <<swapchains, images, freeFences, alive, inFrame, frameID, presenting>>
      BY <1>6, <2>2 DEF AcquireSwapchain, Running, FrameInvariant, ContextGone
    <3>2. PICK s \in Semaphores :
            /\ Acquirable({s}, freeSemaphores, HeldByFrames \union HeldByImages)
            /\ Enlisted(s)
            /\ (\E i \in DOMAIN images[sc] : ImageAcquired(sc, s, i)) \/ ImageRefused(sc)
      BY <1>6, <2>2 DEF AcquireSwapchain
    <3>. QED BY <3>1, <3>2, AcquireKeepsHandles
  <2>. QED BY <2>1, <2>2
<1>. QED
  BY <1>1, <1>2, <1>3, <1>4, <1>5, <1>6 DEF SwapchainCall

LEMMA EndCommandBufferKeepsHandles ==
  ASSUME HandleInvariant, HandleTypes, HandleTypes', TypeInvariant,
         NEW uses, NEW scs \in PresentLists, EndCommandBuffer(uses, scs)
  PROVE  HandleInvariant'
<1>1. CASE \E why : Fatal(why)
  BY <1>1, FatalKeepsHandles
<1>2. CASE ~ \E why : Fatal(why)
  <2>1. /\ presenting = <<>> /\ inFrame /\ \A i \in DOMAIN scs : Presentable(scs[i])
        /\ Submit(uses, scs)
        /\ UNCHANGED <<acquiring, fence, presents, engine, swapchainVars, alive, inFrame,
                       frameID, pendingBinarySemaphores>>
    BY <1>2 DEF EndCommandBuffer, Running
  <2>2. scs \in Seq(Swapchains)
    BY PresentListTyped
  <2>. QED BY <2>1, <2>2, SubmitKeepsHandles
<1>. QED
  BY <1>1, <1>2

LEMMA PresentNextKeepsHandles ==
  ASSUME HandleInvariant, HandleTypes, HandleTypes', PresentNext
  PROVE  HandleInvariant'
<1>1. CASE \E why : Fatal(why)
  BY <1>1, FatalKeepsHandles
<1>2. CASE ~ \E why : Fatal(why)
  <2>. DEFINE sc == Head(presenting)
  <2>1. /\ presenting # <<>> /\ imageIndex[sc] # NoIndex /\ ImagePresented(sc)
        /\ presenting' = Tail(presenting)
        /\ UNCHANGED <<alive, inFrame, frameID, pendingBinarySemaphores, pendingWaitSemaphores>>
    BY <1>2 DEF PresentNext, frameVars
  <2>2. sc \in Swapchains
    BY <2>1 DEF HandleTypes
  <2>. QED BY <2>1, <2>2, PresentedKeepsHandles
<1>. QED
  BY <1>1, <1>2

LEMMA GpuKeepsHandles ==
  ASSUME HandleInvariant, HandleTypes, GpuStep
  PROVE  HandleInvariant'
BY SignalAcquireKeepsHandles, ExecuteBatchKeepsHandles, PresentWaitKeepsHandles,
   PresentReleaseKeepsHandles, PresentFenceKeepsHandles DEF GpuStep, Gpu, Present

LEMMA NextKeepsHandles ==
  ASSUME HandleInvariant, TypeInvariant, TypeInvariant', FrameInvariant, [Next]_vars,
         "carryAcquire" \notin Liberties, "resizeAcquired" \notin Liberties
  PROVE  HandleInvariant'
<1>. USE HandlesTyped
<1>1. CoreType
  BY DEF TypeInvariant, TypeOK, GpuType, FrameType, CoreType
<1>2. HandleTypes /\ HandleTypes'
  <2>1. TypeInvariant' => HandleTypes'
    BY HandlesTyped, PTL
  <2>. QED BY <2>1
<1>3. CASE CreateContext
  BY <1>2, <1>3, CreateContextKeepsHandles
<1>4. CASE DestroyContext
  BY <1>1, <1>2, <1>4, DestroyContextKeepsHandles
<1>5. CASE Begin
  BY <1>1, <1>2, <1>5, BeginKeepsHandles
<1>6. CASE End
  BY <1>2, <1>6, EndKeepsHandles
<1>7. CASE \E uses \in SUBSET Usable, scs \in PresentLists : EndCommandBuffer(uses, scs)
  BY <1>2, <1>7, EndCommandBufferKeepsHandles
<1>8. CASE PresentNext
  BY <1>2, <1>8, PresentNextKeepsHandles
<1>9. CASE GpuStep
  BY <1>2, <1>9, GpuKeepsHandles
<1>10. CASE \E sc \in Swapchains : SwapchainCall(sc)
  BY <1>2, <1>10, SwapchainCallKeepsHandles
<1>11. CASE \/ Wait \/ BeginCommandBuffer \/ Aborted \/ UNCHANGED vars
            \/ \E o \in Objects : QueueDestroyer(o)
            \/ \E b \in Buffers : CreateScratchHostBuffer(b)
  <2>1. UNCHANGED <<handleCore, swapchains>>
    BY <1>11 DEF Wait, TimesOut, BeginCommandBuffer, Aborted, Fatal, QueueDestroyer,
       CreateScratchHostBuffer, vars, gpuVars, swapchainVars, contextVars, frameVars, handleCore
  <2>. QED BY <2>1, HandlesStutter
<1>. QED
  BY <1>3, <1>4, <1>5, <1>6, <1>7, <1>8, <1>9, <1>10, <1>11 DEF Next, ContextCall

-----------------------------------------------------------------------------
LEMMA ExclusiveMeansOneHolder == Exclusive => OneHolder
<1>. SUFFICES ASSUME Exclusive PROVE OneHolder
  OBVIOUS
<1>1. \A s \in HeldByFrames : LentToFrame(s)
  BY DEF HeldByFrames, LentToFrame
<1>2. \A s \in HeldByImages : LentToImage(s)
  BY DEF HeldByImages, ImageSemaphores, LentToImage
<1>3. \A s \in HeldByFrames : s \notin freeSemaphores /\ s \notin HeldByImages
  BY <1>1, <1>2 DEF Exclusive, LentToFrame
<1>4. \A s \in HeldByImages : s \notin freeSemaphores
  BY <1>2 DEF Exclusive, LentToImage
<1>5. \A f, g \in Frames :
        f # g => pendingBinarySemaphores[f] \intersect pendingBinarySemaphores[g] = {}
  BY DEF Exclusive
<1>6. ASSUME NEW sc \in Swapchains
      PROVE  IsInjective([i \in DOMAIN images[sc] |-> images[sc][i].semaphore])
  BY DEF Exclusive, IsInjective
<1>7. \A a, b \in Swapchains : a # b => ImageSemaphores(a) \intersect ImageSemaphores(b) = {}
  BY DEF Exclusive, ImageSemaphores
<1>. QED
  BY <1>3, <1>4, <1>5, <1>6, <1>7 DEF OneHolder

(* The clients the theorems are about: vkm.h has the next submission wait for *)
(* what was acquired, and a resize drop no acquired image.                   *)
Disciplined == "carryAcquire" \notin Liberties /\ "resizeAcquired" \notin Liberties

(* Who holds each semaphore and fence, what is waited for and what is yet to  *)
(* be signaled (context.cpp, swapchain.cpp): true in every reachable state.  *)
THEOREM HandleInvariantAlways ==
  ASSUME Disciplined
  PROVE  Spec => []HandleInvariant
<1>1. TypeInvariant /\ TypeInvariant' /\ FrameInvariant /\ HandleInvariant /\ [Next]_vars => HandleInvariant'
  BY NextKeepsHandles DEF Disciplined
<1>. QED
  BY TypesAlways, FrameInvariantAlways, HandlesInit, <1>1, PTL DEF Spec

(* context.cpp:177, ~image, present: every binary semaphore and fence has one *)
(* holder, and one that nobody holds could be handed out at once - for any   *)
(* number of slots, images, swapchains and handles, and whatever the driver  *)
(* refuses.                                                                  *)
THEOREM HandlesAlwaysSafe ==
  ASSUME Disciplined
  PROVE  Spec => []HandlesSafe
<1>1. ASSUME HandleInvariant, HandleTypes PROVE HandlesSafe
  <2>. USE DEF HandleInvariant
  <2>1. \A s \in HeldByFrames : LentToFrame(s)
    BY DEF HeldByFrames, LentToFrame
  <2>2. \A s \in HeldByImages : LentToImage(s)
    BY DEF HeldByImages, ImageSemaphores, LentToImage
  <2>3. OneHolder
    BY <1>1, ExclusiveMeansOneHolder
  <2>4. UnheldIdle
    <3>1. \A s \in Semaphores \ (HeldByFrames \union HeldByImages) : ~ LentToFrame(s) /\ ~ LentToImage(s)
      BY DEF LentToFrame, LentToImage, HeldByFrames, HeldByImages, ImageSemaphores
    <3>. QED BY <1>1, <3>1 DEF UnheldIdle, UnlentIdle
  <2>5. PooledFencesSignaled
    BY <1>1 DEF PooledFencesSignaled, FencesLent, PresentsMatch, PresentMatches
  <2>. QED BY <2>3, <2>4, <2>5 DEF HandlesSafe
<1>. QED
  BY <1>1, HandlesTyped, TypesAlways, HandleInvariantAlways, PTL

(* swapchain.cpp, present: vkm never presents an image it does not own.       *)
THEOREM PresentsAlwaysAcquired ==
  ASSUME Disciplined
  PROVE  Spec => []PresentsAcquired
<1>1. HandleInvariant => PresentsAcquired
  BY DEF HandleInvariant
<1>. QED
  BY <1>1, HandleInvariantAlways, PTL

(* vkm.h: an acquired image's semaphore is waited for by the submission that   *)
(* follows, however acquires, submissions and frames interleave.             *)
THEOREM AcquiresAlwaysWaited ==
  ASSUME Disciplined
  PROVE  Spec => []AcquiresWaited
<1>1. ASSUME HandleInvariant, HandleTypes PROVE AcquiresWaited
  <2>1. \A s \in HeldByFrames : LentToFrame(s) /\ s \in Semaphores
    BY <1>1 DEF HeldByFrames, LentToFrame, HandleTypes
  <2>. QED BY <1>1, <2>1 DEF AcquiresWaited, HandleInvariant, PromisesWaited
<1>. QED
  BY <1>1, HandlesTyped, TypesAlways, HandleInvariantAlways, PTL

(* context.cpp, endCommandBuffer: the release semaphore of an image is         *)
(* signaled again only when its last present has consumed it.                *)
THEOREM SignalsAlwaysUnsignaled ==
  ASSUME Disciplined
  PROVE  Spec => SignalsUnsignaled
<1>. DEFINE Step == \A i \in DOMAIN queue' \ DOMAIN queue :
                      \A s \in queue'[i].signals : binary[s] = "unsignaled" /\ Idle(s)
<1>1. ASSUME HandleInvariant, TypeInvariant, [Next]_vars PROVE Step
  <2>1. CASE queue' = queue
    BY <2>1
  <2>2. CASE GpuStep
    <3>1. queue' = queue \/ (queue # <<>> /\ queue' = Tail(queue))
      BY <2>2 DEF GpuStep, Gpu, SignalAcquire, ExecuteBatch, Present, PresentWait,
         PresentRelease, PresentFence
    <3>2. DOMAIN queue' \subseteq DOMAIN queue
      BY <1>1, <3>1, HandlesTyped DEF HandleTypes
    <3>. QED BY <3>2
  <2>3. ASSUME NEW uses \in SUBSET Usable, NEW scs \in PresentLists, EndCommandBuffer(uses, scs)
        PROVE  Step
    <3>1. CASE Submit(uses, scs) /\ Running /\ \A i \in DOMAIN scs : Presentable(scs[i])
      <4>1. /\ queue' = Append(queue, Batch(uses, scs)) /\ presenting = <<>>
            /\ Batch(uses, scs).signals = {AcquiredImage(scs[i]).semaphore : i \in DOMAIN scs}
        BY <3>1 DEF Submit, Running, Batch
      <4>. HIDE DEF Batch
      <4>2. \A i \in DOMAIN queue' \ DOMAIN queue : queue'[i] = Batch(uses, scs)
        BY <4>1, <1>1, HandlesTyped DEF HandleTypes
      <4>3. \A i \in DOMAIN scs : scs[i] \in Swapchains
        BY <1>1, PresentListTyped
      <4>4. \A i \in DOMAIN scs : Idle(AcquiredImage(scs[i]).semaphore)
        BY <1>1, <3>1, <4>1, <4>3, SignalsIdle, HandlesTyped
      <4>. QED BY <4>1, <4>2, <4>4 DEF Idle
    <3>2. CASE \E why : Fatal(why)
      BY <3>2, <2>1 DEF Fatal, gpuVars
    <3>. QED BY <2>3, <3>1, <3>2 DEF EndCommandBuffer
  <2>4. ASSUME NEW sc \in Swapchains, SwapchainCall(sc) PROVE Step
    BY <2>1, <2>4, SwapchainCallsLeaveFrames DEF frameCore
  <2>5. CASE \/ CreateContext \/ DestroyContext \/ Begin \/ End \/ Wait
             \/ \E o \in Objects : QueueDestroyer(o)
             \/ \E b \in Buffers : CreateScratchHostBuffer(b)
             \/ BeginCommandBuffer \/ PresentNext \/ Aborted \/ UNCHANGED vars
    <3>1. queue' = queue
      BY <2>5 DEF CreateContext, DestroyContext, Begin, End, Wait, QueueDestroyer,
         CreateScratchHostBuffer, BeginCommandBuffer, PresentNext, ImagePresented, Aborted,
         TimesOut, Fatal, vars, gpuVars
    <3>. QED BY <3>1, <2>1
  <2>. QED BY <1>1, <2>2, <2>3, <2>4, <2>5 DEF Next, ContextCall
<1>2. HandleInvariant /\ TypeInvariant /\ [Next]_vars => [Step]_vars
  BY <1>1
<1>. QED
  BY <1>2, TypesAlways, HandleInvariantAlways, PTL DEF Spec, SignalsUnsignaled

-----------------------------------------------------------------------------
(* The slots and images implement the abstract SyncPool.                      *)

Lent == HeldByFrames \union HeldByImages

(* What is proved of the state makes free and lent disjoint sets of handles.  *)
Pooled ==
  /\ freeSemaphores \subseteq Semaphores /\ Lent \subseteq Semaphores
  /\ freeSemaphores \intersect Lent = {}

LEMMA PoolTyped == HandleInvariant /\ HandleTypes => Pooled
<1>. SUFFICES ASSUME HandleInvariant, HandleTypes PROVE Pooled
  OBVIOUS
<1>1. \A s \in HeldByFrames : LentToFrame(s) /\ s \in Semaphores
  BY DEF HeldByFrames, LentToFrame, HandleTypes
<1>2. \A s \in HeldByImages : LentToImage(s) /\ s \in Semaphores
  BY DEF HeldByImages, ImageSemaphores, LentToImage, HandleTypes
<1>3. \A s \in HeldByFrames \union HeldByImages : s \notin freeSemaphores
  BY <1>1, <1>2 DEF HandleInvariant, Exclusive, LentToFrame, LentToImage
<1>. QED
  BY <1>1, <1>2, <1>3 DEF Pooled, Lent, HandleTypes

(* The images of one swapchain are given new semaphores, or none.             *)
LEMMA ImagesRecycle ==
  ASSUME HandleInvariant', HandleTypes', NEW sc \in Swapchains, NEW sems,
         freeSemaphores' = SemaphoresAfterImages(sc) \ sems,
         sems \subseteq SemaphoresAfterImages(sc) \/ SemaphoresAfterImages(sc) \subseteq sems,
         ImageSemaphores(sc)' = sems,
         \A o \in Swapchains \ {sc} : ImageSemaphores(o)' = ImageSemaphores(o),
         UNCHANGED pendingBinarySemaphores
  PROVE  SemaphorePool!Recycle
<1>1. Pooled'
  BY PoolTyped, PTL
<1>2. HeldByFrames' = HeldByFrames
  BY DEF HeldByFrames
<1>. DEFINE others == HeldByFrames \union UNION {ImageSemaphores(o) : o \in Swapchains \ {sc}}
<1>3. Lent = others \union ImageSemaphores(sc)
  BY DEF Lent, HeldByImages
<1>4. Lent' = others \union sems
  <2>1. \A x : x \in HeldByImages' <=> \E o \in Swapchains : x \in ImageSemaphores(o)'
    BY DEF HeldByImages
  <2>2. \A x : x \in others <=>
          x \in HeldByFrames \/ \E o \in Swapchains \ {sc} : x \in ImageSemaphores(o)
    OBVIOUS
  <2>. HIDE DEF others
  <2>3. \A x : x \in HeldByImages' <=>
          x \in sems \/ \E o \in Swapchains \ {sc} : x \in ImageSemaphores(o)
    BY <2>1
  <2>4. \A x : x \in Lent' <=> x \in others \union sems
    BY <1>2, <2>2, <2>3 DEF Lent
  <2>. QED BY <2>4
<1>5. /\ freeSemaphores \subseteq SemaphoresAfterImages(sc)
      /\ SemaphoresAfterImages(sc) \subseteq freeSemaphores \union ImageSemaphores(sc)
      /\ Maint1 => ImageSemaphores(sc) \subseteq SemaphoresAfterImages(sc)
  BY DEF SemaphoresAfterImages
<1>. HIDE DEF others
<1>6. /\ freeSemaphores \subseteq freeSemaphores' \union Lent'
      /\ Maint1 => Lent \subseteq freeSemaphores' \union Lent'
      /\ freeSemaphores' \subseteq freeSemaphores \union Lent
      /\ ~ Lent' \subseteq freeSemaphores \union Lent => freeSemaphores' = {}
  BY <1>3, <1>4, <1>5
<1>. QED
  BY <1>1, <1>6 DEF SemaphorePool!Recycle, Pooled, Lent

LEMMA SwapchainCallRecycles ==
  ASSUME HandleTypes, HandleInvariant', HandleTypes', NEW sc \in Swapchains,
         (\E mode, extent : Resized(sc, mode, extent, HeldByFrames)) \/ SwapchainDestroyed(sc),
         UNCHANGED pendingBinarySemaphores
  PROVE  SemaphorePool!Recycle
<1>1. CASE /\ images' = [images EXCEPT ![sc] = <<>>]
           /\ freeSemaphores' = SemaphoresAfterImages(sc)
  <2>1. images'[sc] = <<>> /\ \A o \in Swapchains \ {sc} : images'[o] = images[o]
    BY <1>1 DEF HandleTypes
  <2>2. /\ ImageSemaphores(sc)' = {}
        /\ \A o \in Swapchains \ {sc} : ImageSemaphores(o)' = ImageSemaphores(o)
    BY <2>1 DEF ImageSemaphores
  <2>3. freeSemaphores' = SemaphoresAfterImages(sc) \ {} /\ {} \subseteq SemaphoresAfterImages(sc)
    BY <1>1
  <2>. QED BY <2>2, <2>3, ImagesRecycle
<1>2. ASSUME NEW mode, NEW extent, ResizeSucceeds(sc, mode, extent, HeldByFrames)
      PROVE  SemaphorePool!Recycle
  <2>1. PICK sem \in [Image -> Semaphores], fen \in [Image -> IF Maint1 THEN {{f} : f \in Fences} ELSE {{}}] :
          LET sems == {sem[i] : i \in Image}
          IN /\ sems \subseteq SemaphoresAfterImages(sc) \/ SemaphoresAfterImages(sc) \subseteq sems
             /\ images' = [images EXCEPT ![sc] =
                             [i \in Image |-> [semaphore |-> sem[i], fence |-> fen[i]]]]
             /\ freeSemaphores' = SemaphoresAfterImages(sc) \ sems
    BY <1>2 DEF ResizeSucceeds, Acquirable
  <2>. DEFINE sems == {sem[i] : i \in Image}
  <2>2. /\ images'[sc] = [i \in Image |-> [semaphore |-> sem[i], fence |-> fen[i]]]
        /\ \A o \in Swapchains \ {sc} : images'[o] = images[o]
    BY <2>1 DEF HandleTypes
  <2>3. /\ ImageSemaphores(sc)' = sems
        /\ \A o \in Swapchains \ {sc} : ImageSemaphores(o)' = ImageSemaphores(o)
    BY <2>2 DEF ImageSemaphores
  <2>4. /\ sems \subseteq SemaphoresAfterImages(sc) \/ SemaphoresAfterImages(sc) \subseteq sems
        /\ freeSemaphores' = SemaphoresAfterImages(sc) \ sems
    BY <2>1
  <2>. HIDE DEF sems
  <2>. QED BY <2>3, <2>4, ImagesRecycle
<1>. QED
  BY <1>1, <1>2 DEF Resized, ResizeFails, SwapchainDestroyed

(* An acquired semaphore moves from the pool, or from the driver, to the slot. *)
LEMMA AcquireRecycles ==
  ASSUME HandleTypes, HandleInvariant', HandleTypes', NEW s \in Semaphores, Enlisted(s),
         Acquirable({s}, freeSemaphores, HeldByFrames \union HeldByImages),
         UNCHANGED images
  PROVE  SemaphorePool!Recycle
<1>1. Pooled'
  BY PoolTyped, PTL
<1>2. /\ \A f \in Frames : pendingBinarySemaphores'[f] =
           IF f = frameID THEN pendingBinarySemaphores[f] \union {s} ELSE pendingBinarySemaphores[f]
      /\ frameID \in Frames
      /\ freeSemaphores' = freeSemaphores \ {s}
      /\ s \in freeSemaphores \/ freeSemaphores \subseteq {s}
  BY DEF Enlisted, Acquirable, HandleTypes
<1>3. HeldByFrames' = HeldByFrames \union {s}
  <2>1. \A x : x \in HeldByFrames' <=> \E f \in Frames : x \in pendingBinarySemaphores'[f]
    BY DEF HeldByFrames
  <2>2. \A x : x \in HeldByFrames <=> \E f \in Frames : x \in pendingBinarySemaphores[f]
    BY DEF HeldByFrames
  <2>3. \A x : x \in HeldByFrames' <=> x \in HeldByFrames \union {s}
    BY <1>2, <2>1, <2>2
  <2>. QED BY <2>3
<1>4. Lent' = Lent \union {s}
  BY <1>3 DEF Lent, HeldByImages, ImageSemaphores
<1>. QED
  BY <1>1, <1>2, <1>4 DEF SemaphorePool!Recycle, Pooled, Lent

(* A frame that begins, or a context destroyed, returns what its slots held.   *)
LEMMA GiveBackRecycles ==
  ASSUME HandleInvariant', HandleTypes', NEW G \in SUBSET Frames,
         freeSemaphores' = freeSemaphores \union UNION {pendingBinarySemaphores[f] : f \in G},
         \A f \in Frames :
           pendingBinarySemaphores'[f] = IF f \in G THEN {} ELSE pendingBinarySemaphores[f],
         UNCHANGED images
  PROVE  SemaphorePool!Recycle
<1>1. Pooled'
  BY PoolTyped, PTL
<1>. DEFINE given == UNION {pendingBinarySemaphores[f] : f \in G}
            kept == UNION {pendingBinarySemaphores[f] : f \in Frames \ G}
<1>2. HeldByFrames = given \union kept /\ HeldByFrames' = kept
  BY DEF HeldByFrames
<1>3. HeldByImages' = HeldByImages
  BY DEF HeldByImages, ImageSemaphores
<1>. HIDE DEF given, kept
<1>4. Lent = given \union kept \union HeldByImages /\ Lent' = kept \union HeldByImages
  BY <1>2, <1>3 DEF Lent
<1>5. freeSemaphores' = freeSemaphores \union given
  BY DEF given
<1>. QED
  BY <1>1, <1>4, <1>5 DEF SemaphorePool!Recycle, Pooled, Lent

LEMMA NextRecycles ==
  ASSUME HandleInvariant, HandleTypes, HandleInvariant', HandleTypes', [Next]_vars
  PROVE  [SemaphorePool!Next]_(SemaphorePool!poolVars)
<1>1. CASE UNCHANGED <<freeSemaphores, images, pendingBinarySemaphores>>
  BY <1>1 DEF SemaphorePool!poolVars, HeldByFrames, HeldByImages, ImageSemaphores
<1>2. CASE \E why : Fatal(why)
  BY <1>1, <1>2 DEF Fatal, swapchainVars, contextVars, frameVars
<1>3. CASE ~ \E why : Fatal(why)
  <2>. USE <1>3
  <2>1. CASE CreateContext
    <3>1. /\ UNCHANGED <<freeSemaphores, images>> /\ ~ alive
          /\ pendingBinarySemaphores' = [f \in Frames |-> {}]
      BY <2>1 DEF CreateContext, FreshFrames, swapchainVars
    <3>2. \A f \in Frames : pendingBinarySemaphores[f] = {}
      BY <3>1 DEF HandleInvariant, NoneLentWithoutContext, LentToFrame, HandleTypes
    <3>3. pendingBinarySemaphores' = pendingBinarySemaphores
      BY <3>1, <3>2 DEF HandleTypes
    <3>. QED BY <1>1, <3>1, <3>3
  <2>2. CASE DestroyContext
    <3>1. /\ freeSemaphores' = freeSemaphores \union HeldByFrames /\ UNCHANGED images
          /\ \A f \in Frames : pendingBinarySemaphores'[f] = {}
      BY <2>2 DEF DestroyContext, TimesOut, FreshFrames
    <3>. QED BY <3>1, GiveBackRecycles DEF HeldByFrames, SemaphorePool!Next
  <2>3. CASE Begin
    <3>1. /\ freeSemaphores' = freeSemaphores \union pendingBinarySemaphores[frameID]
          /\ UNCHANGED images /\ {frameID} \in SUBSET Frames
          /\ \A f \in Frames : pendingBinarySemaphores'[f] =
               IF f \in {frameID} THEN {} ELSE pendingBinarySemaphores[f]
      BY <2>3 DEF Begin, TimesOut, HandleTypes
    <3>2. pendingBinarySemaphores[frameID] = UNION {pendingBinarySemaphores[f] : f \in {frameID}}
      OBVIOUS
    <3>. QED BY <3>1, <3>2, GiveBackRecycles DEF SemaphorePool!Next
  <2>4. ASSUME NEW sc \in Swapchains, SwapchainCall(sc)
        PROVE  [SemaphorePool!Next]_(SemaphorePool!poolVars)
    <3>1. CASE /\ (\E mode, extent : Resized(sc, mode, extent, HeldByFrames)) \/ SwapchainDestroyed(sc)
               /\ UNCHANGED contextVars
      BY <3>1, SwapchainCallRecycles DEF contextVars, frameVars, SemaphorePool!Next
    <3>2. CASE CreateSwapchain(sc) \/ ChangeVkPresentMode(sc)
      <4>1. PICK p \in Preferred : PresentModeChanged(sc, p[1], p[2], HeldByFrames)
        BY <3>2 DEF CreateSwapchain, ChangeVkPresentMode, SwapchainCreated
      <4>2. UNCHANGED contextVars
        BY <3>2 DEF CreateSwapchain, ChangeVkPresentMode
      <4>. QED BY <4>1, <4>2, <3>1, <1>1 DEF PresentModeChanged, contextVars, frameVars
    <3>3. CASE Resize(sc) \/ DestroySwapchain(sc)
      BY <3>1, <3>3 DEF Resize, DestroySwapchain
    <3>4. CASE AcquireSwapchain(sc)
      <4>1. PICK s \in Semaphores :
              /\ Acquirable({s}, freeSemaphores, HeldByFrames \union HeldByImages)
              /\ Enlisted(s)
        BY <3>4 DEF AcquireSwapchain
      <4>2. UNCHANGED images
        BY <3>4 DEF AcquireSwapchain
      <4>. QED BY <4>1, <4>2, AcquireRecycles DEF SemaphorePool!Next
    <3>. QED BY <2>4, <3>2, <3>3, <3>4 DEF SwapchainCall, ImageWaitTimesOut, AcquireTimesOut
  <2>5. CASE \/ Wait \/ End \/ BeginCommandBuffer \/ Aborted \/ UNCHANGED vars \/ GpuStep
             \/ \E o \in Objects : QueueDestroyer(o)
             \/ \E b \in Buffers : CreateScratchHostBuffer(b)
             \/ \E uses \in SUBSET Usable, scs \in PresentLists : EndCommandBuffer(uses, scs)
             \/ PresentNext
    <3>1. UNCHANGED <<freeSemaphores, images, pendingBinarySemaphores>>
      BY <2>5 DEF Wait, TimesOut, End, BeginCommandBuffer, Aborted, QueueDestroyer, GpuStep,
         CreateScratchHostBuffer, EndCommandBuffer, PresentNext, ImagePresented, vars, swapchainVars,
         contextVars, frameVars
    <3>. QED BY <3>1, <1>1
  <2>. QED BY <2>1, <2>2, <2>3, <2>4, <2>5 DEF Next, ContextCall
<1>. QED
  BY <1>2, <1>3

(* sync.cpp, ~image, begin: slots and images together return every binary       *)
(* semaphore they were lent, to the pool or (without a fence) to the driver,  *)
(* and ask for a new one only when none is free.                             *)
THEOREM SemaphoresAlwaysRecycled ==
  ASSUME Disciplined
  PROVE  Spec => SemaphoresRecycled
<1>1. Init => SemaphorePool!Init
  <2>. SUFFICES ASSUME Init PROVE SemaphorePool!Init
    OBVIOUS
  <2>1. \A sc \in Swapchains : DOMAIN images[sc] = {}
    BY DEF Init, SwapchainInit
  <2>. QED BY <2>1 DEF Init, SwapchainInit, SemaphorePool!Init, HeldByFrames, HeldByImages, ImageSemaphores
<1>2. /\ HandleInvariant /\ HandleTypes /\ HandleInvariant' /\ HandleTypes' /\ [Next]_vars
      => [SemaphorePool!Next]_(SemaphorePool!poolVars)
  BY NextRecycles
<1>. QED
  BY <1>1, <1>2, HandlesTyped, TypesAlways, HandleInvariantAlways, PTL
     DEF Spec, SemaphoresRecycled, SemaphorePool!Spec
-----------------------------------------------------------------------------
(* Who holds a semaphore does not depend on the client's discipline.           *)

LEMMA ResizedExclusive ==
  ASSUME Exclusive, HandleTypes, NEW sc \in Swapchains, NEW mode, NEW extent,
         Resized(sc, mode, extent, HeldByFrames),
         swapchains \subseteq swapchains', UNCHANGED contextVars
  PROVE  Exclusive'
<1>1. /\ ResizeFails(sc, mode, extent) \/ ResizeSucceeds(sc, mode, extent, HeldByFrames)
      /\ UNCHANGED <<queue, binary, acquiring, imageIndex, alive, inFrame, frameID,
                     pendingBinarySemaphores, pendingWaitSemaphores, presenting>>
  BY DEF Resized, contextVars, frameVars
<1>2. ImagesReplaced(sc)
  BY <1>1, ResizeFailsReplaces, ResizeSucceedsReplaces
<1>. QED
  BY <1>2, ReplacedExclusive DEF ImagesReplaced, HoldersReplaced

LEMMA PresentModeChangedExclusive ==
  ASSUME Exclusive, HandleTypes, NEW sc \in Swapchains, NEW preferred, NEW extent,
         PresentModeChanged(sc, preferred, extent, HeldByFrames),
         swapchains \subseteq swapchains', UNCHANGED contextVars
  PROVE  Exclusive'
<1>1. CASE UNCHANGED <<images, freeSemaphores>>
  BY <1>1 DEF Exclusive, LentToImage, contextVars, frameVars
<1>2. CASE Resized(sc, FindPresentMode(preferred), extent, HeldByFrames)
  BY <1>2, ResizedExclusive
<1>. QED
  BY <1>1, <1>2 DEF PresentModeChanged

LEMMA DestroyedExclusive ==
  ASSUME Exclusive, HandleTypes, NEW sc \in Swapchains, SwapchainDestroyed(sc), UNCHANGED contextVars
  PROVE  Exclusive'
<1>1. images'[sc] = <<>> /\ \A o \in Swapchains \ {sc} : images'[o] = images[o]
  BY DEF SwapchainDestroyed, HandleTypes
<1>2. DOMAIN images'[sc] = {}
  BY <1>1
<1>3. HoldersReplaced(sc)
  BY <1>1, <1>2 DEF HoldersReplaced, SwapchainDestroyed, contextVars, frameVars
<1>. QED
  BY <1>3, ReplacedExclusive

LEMMA EnlistedExclusive ==
  ASSUME Exclusive, HandleTypes, NEW s \in Semaphores, Enlisted(s), UNCHANGED images,
         Acquirable({s}, freeSemaphores, HeldByFrames \union HeldByImages)
  PROVE  Exclusive'
<1>1. ~ LentToFrame(s) /\ ~ LentToImage(s)
  <2>1. LentToFrame(s) => s \in HeldByFrames
    BY DEF LentToFrame, HeldByFrames
  <2>2. LentToImage(s) => s \in HeldByImages
    BY DEF LentToImage, HeldByImages, ImageSemaphores
  <2>3. s \in freeSemaphores => ~ LentToFrame(s) /\ ~ LentToImage(s)
    BY DEF Exclusive, LentToFrame, LentToImage
  <2>. QED BY <2>1, <2>2, <2>3 DEF Acquirable
<1>2. /\ frameID \in Frames
      /\ freeSemaphores' = freeSemaphores \ {s}
      /\ \A f \in Frames : pendingBinarySemaphores'[f] =
           IF f = frameID THEN pendingBinarySemaphores[f] \union {s} ELSE pendingBinarySemaphores[f]
  BY DEF Enlisted, HandleTypes
<1>3. \A t : LentToImage(t)' <=> LentToImage(t)
  BY DEF LentToImage
<1>4. \A f \in Frames : s \notin pendingBinarySemaphores[f]
  BY <1>1 DEF LentToFrame
<1>5. \A f \in Frames : \A t : t \in pendingBinarySemaphores'[f] =>
        t \in pendingBinarySemaphores[f] \/ (t = s /\ f = frameID)
  BY <1>2
<1>6. (\A f \in Frames : \A t \in pendingBinarySemaphores[f] : t \notin freeSemaphores /\ ~ LentToImage(t))'
  <2>. SUFFICES ASSUME NEW f \in Frames, NEW t, t \in pendingBinarySemaphores'[f]
                PROVE  t \notin freeSemaphores' /\ ~ LentToImage(t)'
    OBVIOUS
  <2>1. CASE t = s
    BY <2>1, <1>1, <1>2, <1>3
  <2>2. CASE t \in pendingBinarySemaphores[f]
    BY <2>2, <1>2, <1>3 DEF Exclusive
  <2>. QED BY <2>1, <2>2, <1>5
<1>7. (\A f, g \in Frames : \A t \in pendingBinarySemaphores[f] :
         t \in pendingBinarySemaphores[g] => f = g)'
  BY <1>4, <1>5 DEF Exclusive
<1>8. /\ (\A sc \in Swapchains : \A i \in DOMAIN images[sc] :
             images[sc][i].semaphore \notin freeSemaphores)'
      /\ (\A a, b \in Swapchains : \A i \in DOMAIN images[a], j \in DOMAIN images[b] :
             images[a][i].semaphore = images[b][j].semaphore => a = b /\ i = j)'
  BY <1>2 DEF Exclusive
<1>. QED
  BY <1>6, <1>7, <1>8 DEF Exclusive

LEMMA SwapchainCallExclusive ==
  ASSUME Exclusive, HandleTypes, NEW sc \in Swapchains, SwapchainCall(sc)
  PROVE  Exclusive'
<1>1. CASE CreateSwapchain(sc)
  <2>1. PICK p \in Preferred : SwapchainCreated(sc, p[1], p[2], HeldByFrames)
    BY <1>1 DEF CreateSwapchain
  <2>2. UNCHANGED contextVars /\ swapchains \subseteq swapchains'
    BY <1>1, <2>1 DEF CreateSwapchain, SwapchainCreated
  <2>. QED BY <2>1, <2>2, PresentModeChangedExclusive DEF SwapchainCreated
<1>2. CASE ChangeVkPresentMode(sc)
  <2>1. PICK p \in Preferred : PresentModeChanged(sc, p[1], p[2], HeldByFrames)
    BY <1>2 DEF ChangeVkPresentMode
  <2>2. UNCHANGED contextVars /\ swapchains \subseteq swapchains'
    BY <1>2 DEF ChangeVkPresentMode
  <2>. QED BY <2>1, <2>2, PresentModeChangedExclusive
<1>3. CASE Resize(sc)
  <2>1. PICK extent \in Extents : Resized(sc, settings[sc].vkPresentMode, extent, HeldByFrames)
    BY <1>3 DEF Resize
  <2>2. UNCHANGED contextVars /\ swapchains \subseteq swapchains'
    BY <1>3 DEF Resize
  <2>. QED BY <2>1, <2>2, ResizedExclusive
<1>4. CASE DestroySwapchain(sc)
  BY <1>4, DestroyedExclusive DEF DestroySwapchain
<1>5. CASE AcquireSwapchain(sc) /\ ~ \E why : Fatal(why)
  <2>1. PICK s \in Semaphores :
          Acquirable({s}, freeSemaphores, HeldByFrames \union HeldByImages) /\ Enlisted(s)
    BY <1>5 DEF AcquireSwapchain
  <2>2. UNCHANGED images
    BY <1>5 DEF AcquireSwapchain
  <2>. QED BY <2>1, <2>2, EnlistedExclusive
<1>6. CASE ImageWaitTimesOut(sc) \/ AcquireTimesOut(sc) \/ \E why : Fatal(why)
  BY <1>6 DEF ImageWaitTimesOut, AcquireTimesOut, Fatal, swapchainVars, contextVars, frameVars,
     Exclusive, LentToImage
<1>. QED
  BY <1>1, <1>2, <1>3, <1>4, <1>5, <1>6 DEF SwapchainCall

LEMMA NextExclusive ==
  ASSUME Exclusive, HandleTypes, [Next]_vars
  PROVE  Exclusive'
<1>1. CASE UNCHANGED <<images, freeSemaphores, pendingBinarySemaphores>>
  BY <1>1 DEF Exclusive, LentToImage
<1>2. CASE CreateContext
  BY <1>2 DEF CreateContext, FreshFrames, swapchainVars, Exclusive, LentToImage
<1>3. CASE DestroyContext /\ ~ \E why : Fatal(why)
  <2>1. /\ freeSemaphores' = freeSemaphores \union HeldByFrames /\ UNCHANGED images
        /\ pendingBinarySemaphores' = [f \in Frames |-> {}]
    BY <1>3 DEF DestroyContext, TimesOut, FreshFrames
  <2>. QED BY <2>1, GiveBackExclusive DEF HeldByFrames
<1>4. CASE Begin /\ ~ \E why : Fatal(why)
  <2>1. /\ freeSemaphores' = freeSemaphores \union pendingBinarySemaphores[frameID]
        /\ pendingBinarySemaphores' = [pendingBinarySemaphores EXCEPT ![frameID] = {}]
        /\ frameID \in Frames /\ UNCHANGED images
    BY <1>4 DEF Begin, TimesOut, HandleTypes
  <2>2. UNION {pendingBinarySemaphores[f] : f \in {frameID}} = pendingBinarySemaphores[frameID]
    OBVIOUS
  <2>3. \A f \in Frames :
          pendingBinarySemaphores'[f] = IF f \in {frameID} THEN {} ELSE pendingBinarySemaphores[f]
    BY <2>1 DEF HandleTypes
  <2>4. {frameID} \in SUBSET Frames
    BY <2>1
  <2>. QED BY <2>1, <2>2, <2>3, <2>4, GiveBackExclusive
<1>5. CASE \E sc \in Swapchains : SwapchainCall(sc)
  BY <1>5, SwapchainCallExclusive
<1>6. CASE \/ End \/ Wait \/ BeginCommandBuffer \/ PresentNext \/ Aborted \/ UNCHANGED vars
           \/ GpuStep \/ \E why : Fatal(why)
           \/ \E uses \in SUBSET Usable, scs \in PresentLists : EndCommandBuffer(uses, scs)
           \/ \E o \in Objects : QueueDestroyer(o)
           \/ \E b \in Buffers : CreateScratchHostBuffer(b)
  <2>1. UNCHANGED <<images, freeSemaphores, pendingBinarySemaphores>>
    BY <1>6 DEF End, Wait, TimesOut, BeginCommandBuffer, PresentNext, ImagePresented, Aborted,
       GpuStep, EndCommandBuffer, Submit, QueueDestroyer, CreateScratchHostBuffer, Fatal,
       vars, swapchainVars, contextVars, frameVars
  <2>. QED BY <2>1, <1>1
<1>. QED
  BY <1>2, <1>3, <1>4, <1>5, <1>6 DEF Next, ContextCall

(* context.cpp, swapchain.cpp, sync.cpp: whatever the driver refuses and       *)
(* whatever the client does - acquires carried over a frame, resizes of an     *)
(* acquired swapchain, destroyers that queue destroyers - a binary semaphore   *)
(* is in one slot, or at one image, or in the free list, and there once.        *)
THEOREM OneHolderAlways == Spec => []OneHolder
<1>1. Init => Exclusive
  BY DEF Init, SwapchainInit, Exclusive, LentToImage
<1>2. Exclusive /\ HandleTypes /\ [Next]_vars => Exclusive'
  BY NextExclusive
<1>. QED
  BY <1>1, <1>2, ExclusiveMeansOneHolder, HandlesTyped, TypesAlways, PTL DEF Spec
-----------------------------------------------------------------------------
(* No wait runs into its timeout.                                            *)

(* What is waited for is signaled, or promised; and it is waited for once.    *)
Coming(s) == s \in acquiring \/ binary[s] = "signaled"

WaitsComing ==
  /\ \A i \in DOMAIN queue : \A s \in Range(queue[i].waits) : Coming(s)
  /\ \A f \in Frames : \A s \in Range(pendingWaitSemaphores[f]) : Coming(s)

WaitsDistinct ==
  /\ \A i \in DOMAIN queue : IsInjective(queue[i].waits)
  /\ \A i, j \in DOMAIN queue : i # j => Range(queue[i].waits) \intersect Range(queue[j].waits) = {}
  /\ \A f \in Frames : IsInjective(pendingWaitSemaphores[f])
  /\ \A f \in Frames : \A i \in DOMAIN queue :
       Range(queue[i].waits) \intersect Range(pendingWaitSemaphores[f]) = {}

(* A present, made or still to be made, waits for what the queue signals.     *)
Signaling(s) == binary[s] = "signaled" \/ \E i \in DOMAIN queue : s \in queue[i].signals

PresentsComing ==
  /\ \A p \in presents : "wait" \in p.todo => Signaling(p.semaphore)
  /\ \A k \in DOMAIN presenting :
       imageIndex[presenting[k]] # NoIndex => Signaling(AcquiredImage(presenting[k]).semaphore)

(* An image that is not available is acquired, or in a present that will       *)
(* release it; a fence that is not signaled, in a present that will signal it. *)
HasPresent(sc, i, step) ==
  \E p \in presents : p.swapchain = sc /\ p.image = i /\ step \in p.todo

ImagesReturn ==
  \A sc \in Swapchains : \A i \in Image :
    /\ engine[sc][i] = "acquired" => imageIndex[sc] = i
    /\ engine[sc][i] = "presenting" => HasPresent(sc, i, "image")

FencesReturn ==
  \A sc \in Swapchains : \A i \in DOMAIN images[sc] : \A f \in images[sc][i].fence :
    fence[f] = "signaled" \/ HasPresent(sc, i, "fence")

WaitInvariant ==
  WaitsComing /\ WaitsDistinct /\ PresentsComing /\ ImagesReturn /\ FencesReturn

(* The part of the state it is about                                         *)
waitCore ==
  <<queue, binary, acquiring, fence, presents, engine, images, imageIndex, presenting>>

LEMMA WaitsStutter ==
  ASSUME WaitInvariant, UNCHANGED waitCore,
         \A f \in Frames : pendingWaitSemaphores'[f] \in {pendingWaitSemaphores[f], <<>>}
  PROVE  WaitInvariant'
<1>. USE DEF waitCore, Coming, Signaling, HasPresent
<1>1. Range(<<>>) = {} /\ IsInjective(<<>>)
  BY DEF Range, IsInjective
<1>2. WaitsComing' /\ WaitsDistinct'
  BY <1>1 DEF WaitInvariant, WaitsComing, WaitsDistinct
<1>3. PresentsComing'
  BY DEF WaitInvariant, PresentsComing, AcquiredImage
<1>4. ImagesReturn' /\ FencesReturn'
  BY DEF WaitInvariant, ImagesReturn, FencesReturn
<1>. QED
  BY <1>2, <1>3, <1>4 DEF WaitInvariant

(* What makes the invariant worth having: when nothing outside the host can   *)
(* move, nothing is left to be done there.                                   *)
LEMMA StuckIsDone ==
  ASSUME WaitInvariant, HandleTypes, Stuck
  PROVE  queue = <<>> /\ presents = {}
<1>. USE DEF WaitInvariant
<1>1. queue = <<>>
  <2>1. SUFFICES ASSUME queue # <<>> PROVE FALSE
    OBVIOUS
  <2>2. 1 \in DOMAIN queue /\ Head(queue) = queue[1]
    BY <2>1 DEF HandleTypes
  <2>3. \A i \in DOMAIN queue[1].waits : queue[1].waits[i] \in Range(queue[1].waits)
    BY DEF Range
  <2>4. Executable(Head(queue))
    BY <2>2, <2>3 DEF Executable, WaitsDistinct, WaitsComing, Coming, Stuck
  <2>. QED BY <2>1, <2>4 DEF Stuck
<1>2. presents = {}
  BY <1>1 DEF Stuck, PresentsComing, Signaling
<1>. QED
  BY <1>1, <1>2
-----------------------------------------------------------------------------
(* The swapchain calls                                                        *)
LEMMA AcquireKeepsWaits ==
  ASSUME WaitInvariant, HandleInvariant, HandleTypes, presenting = <<>>,
         NEW sc \in Swapchains, imageIndex[sc] = NoIndex, NEW s \in Semaphores,
         Acquirable({s}, freeSemaphores, HeldByFrames \union HeldByImages),
         Enlisted(s), NEW i \in DOMAIN images[sc], ImageAcquired(sc, s, i),
         UNCHANGED <<images, presenting>>
  PROVE  WaitInvariant'
<1>. USE DEF WaitInvariant
<1>1. ~ LentToFrame(s) /\ Idle(s)
  BY AcquiredSemaphoreUnlent
<1>2. /\ i \in Image
      /\ imageIndex'[sc] = i /\ engine'[sc][i] = "acquired"
      /\ \A o \in Swapchains \ {sc} : imageIndex'[o] = imageIndex[o]
      /\ \A o \in Swapchains : \A j \in Image : o # sc \/ j # i => engine'[o][j] = engine[o][j]
      /\ binary'[s] = "pending" /\ \A t \in Semaphores : t # s => binary'[t] = binary[t]
      /\ acquiring' = acquiring \union {s}
      /\ UNCHANGED <<queue, fence, presents, images, presenting>>
  BY DEF ImageAcquired, HandleTypes
<1>3. /\ frameID \in Frames
      /\ pendingWaitSemaphores'[frameID] = Append(pendingWaitSemaphores[frameID], s)
      /\ \A f \in Frames \ {frameID} : pendingWaitSemaphores'[f] = pendingWaitSemaphores[f]
  BY DEF Enlisted, HandleTypes
<1>4. /\ \A f \in Frames : s \notin Range(pendingWaitSemaphores[f])
      /\ \A k \in DOMAIN queue : s \notin Range(queue[k].waits)
  BY <1>1 DEF HandleInvariant, WaitsLent, LentToFrame, Idle
<1>5. /\ Range(pendingWaitSemaphores'[frameID]) = Range(pendingWaitSemaphores[frameID]) \union {s}
      /\ IsInjective(pendingWaitSemaphores'[frameID])
  <2>. DEFINE w == pendingWaitSemaphores[frameID]
  <2>1. w \in Seq(Semaphores) /\ s \notin Range(w) /\ IsInjective(w)
    BY <1>3, <1>4 DEF HandleTypes, WaitsDistinct
  <2>. HIDE DEF w
  <2>2. /\ Len(w) \in Nat /\ DOMAIN w = 1 .. Len(w) /\ DOMAIN Append(w, s) = 1 .. Len(w) + 1
        /\ \A k \in DOMAIN w : Append(w, s)[k] = w[k] /\ w[k] # s
        /\ Append(w, s)[Len(w) + 1] = s
    BY <2>1 DEF Range
  <2>3. IsInjective(Append(w, s))
    BY <2>1, <2>2 DEF IsInjective
  <2>4. ASSUME NEW x \in Range(Append(w, s)) PROVE x \in Range(w) \union {s}
    BY <2>2, <2>4 DEF Range
  <2>5. ASSUME NEW x \in Range(w) \union {s} PROVE x \in Range(Append(w, s))
    BY <2>2, <2>5 DEF Range
  <2>. QED BY <1>3, <2>3, <2>4, <2>5 DEF w
<1>6. \A t \in Semaphores : t # s => (Coming(t)' <=> Coming(t)) /\ (Signaling(t)' <=> Signaling(t))
  BY <1>2 DEF Coming, Signaling
<1>7. WaitsComing'
  <2>1. Coming(s)'
    BY <1>2 DEF Coming
  <2>2. \A k \in DOMAIN queue : \A t \in Range(queue[k].waits) : Coming(t)'
    BY <1>4, <1>6 DEF WaitsComing, HandleTypes, Range
  <2>3. \A f \in Frames : \A t \in Range(pendingWaitSemaphores[f]) : Coming(t)'
    BY <1>4, <1>6 DEF WaitsComing, HandleTypes, Range
  <2>. QED BY <2>1, <2>2, <2>3, <1>2, <1>3, <1>5 DEF WaitsComing
<1>8. WaitsDistinct'
  <2>1. \A f \in Frames : IsInjective(pendingWaitSemaphores'[f])
    BY <1>3, <1>5 DEF WaitsDistinct
  <2>2. \A f \in Frames : \A k \in DOMAIN queue :
          Range(queue[k].waits) \intersect Range(pendingWaitSemaphores'[f]) = {}
    BY <1>3, <1>4, <1>5 DEF WaitsDistinct
  <2>. QED BY <2>1, <2>2, <1>2 DEF WaitsDistinct
<1>9. PresentsComing'
  <2>1. \A p \in presents : "wait" \in p.todo => p.semaphore # s /\ p.semaphore \in Semaphores
    BY <1>1 DEF Idle, HandleTypes
  <2>. QED BY <2>1, <1>2, <1>6 DEF PresentsComing
<1>10. ImagesReturn'
  <2>1. \A j \in Image : engine[sc][j] # "acquired"
    BY DEF ImagesReturn, NoIndex, Image
  <2>2. ASSUME NEW o \in Swapchains, NEW j \in Image
        PROVE  /\ engine'[o][j] = "acquired" => imageIndex'[o] = j
               /\ engine'[o][j] = "presenting" => HasPresent(o, j, "image")
    BY <2>1, <1>2 DEF ImagesReturn
  <2>. QED BY <2>2, <1>2 DEF ImagesReturn, HasPresent
<1>11. FencesReturn'
  BY <1>2 DEF FencesReturn, HasPresent
<1>. QED
  BY <1>7, <1>8, <1>9, <1>10, <1>11

(* What a resize, a change of mode or the destruction does: either the images   *)
(* are dropped, or all of them are new, available and with signaled fences.  *)
ImagesRenewed(sc) ==
  /\ UNCHANGED <<queue, binary, acquiring, imageIndex, presenting, pendingWaitSemaphores>>
  /\ \A o \in Swapchains \ {sc} : images'[o] = images[o] /\ engine'[o] = engine[o]
  /\ \A f \in Fences : fence[f] = "signaled" => fence'[f] = "signaled"
  /\ \/ images'[sc] = <<>> /\ UNCHANGED <<engine, presents>>
     \/ /\ presents' = {p \in presents : p.swapchain # sc}
        /\ \A i \in Image : engine'[sc][i] = "available"
        /\ \A i \in DOMAIN images'[sc] : \A f \in images'[sc][i].fence : fence'[f] = "signaled"

LEMMA ImagesRenewedKeeps ==
  ASSUME WaitInvariant, HandleTypes, presenting = <<>>, NEW sc \in Swapchains,
         imageIndex[sc] = NoIndex, ImagesRenewed(sc)
  PROVE  WaitInvariant'
<1>. USE DEF WaitInvariant
<1>1. /\ UNCHANGED <<queue, binary, acquiring, imageIndex, presenting, pendingWaitSemaphores>>
      /\ \A o \in Swapchains \ {sc} : images'[o] = images[o] /\ engine'[o] = engine[o]
      /\ \A f \in Fences : fence[f] = "signaled" => fence'[f] = "signaled"
      /\ presents' \subseteq presents
      /\ \A p \in presents : p.swapchain # sc => p \in presents'
  BY DEF ImagesRenewed
<1>2. WaitsComing' /\ WaitsDistinct'
  BY <1>1 DEF WaitsComing, WaitsDistinct, Coming
<1>3. PresentsComing'
  BY <1>1 DEF PresentsComing, Signaling
<1>4. ASSUME NEW o \in Swapchains \ {sc}, NEW i, NEW step, HasPresent(o, i, step)
      PROVE  HasPresent(o, i, step)'
  BY <1>1, <1>4 DEF HasPresent
<1>5. ImagesReturn'
  <2>1. ASSUME NEW o \in Swapchains \ {sc}, NEW i \in Image
        PROVE  /\ engine'[o][i] = "acquired" => imageIndex'[o] = i
               /\ engine'[o][i] = "presenting" => HasPresent(o, i, "image")'
    BY <1>1, <1>4 DEF ImagesReturn
  <2>2. ASSUME NEW i \in Image
        PROVE  /\ engine'[sc][i] = "acquired" => imageIndex'[sc] = i
               /\ engine'[sc][i] = "presenting" => HasPresent(sc, i, "image")'
    BY <1>1 DEF ImagesRenewed, ImagesReturn, HasPresent
  <2>. QED BY <2>1, <2>2 DEF ImagesReturn
<1>6. FencesReturn'
  <2>1. ASSUME NEW o \in Swapchains \ {sc}, NEW i \in DOMAIN images'[o], NEW f \in images'[o][i].fence
        PROVE  fence'[f] = "signaled" \/ HasPresent(o, i, "fence")'
    <3>1. f \in Fences
      BY <1>1 DEF HandleTypes
    <3>. QED BY <3>1, <1>1, <1>4 DEF FencesReturn
  <2>2. ASSUME NEW i \in DOMAIN images'[sc], NEW f \in images'[sc][i].fence
        PROVE  fence'[f] = "signaled"
    BY DEF ImagesRenewed
  <2>. QED BY <2>1, <2>2 DEF FencesReturn
<1>. QED
  BY <1>2, <1>3, <1>5, <1>6

LEMMA ResizeRenews ==
  ASSUME HandleInvariant, HandleTypes, presenting = <<>>, NEW sc \in Swapchains, NEW mode, NEW extent,
         Resized(sc, mode, extent, HeldByFrames), UNCHANGED contextVars
  PROVE  ImagesRenewed(sc)
<1>1. /\ ImagesWaited(sc)
      /\ UNCHANGED <<queue, binary, acquiring, imageIndex, presenting, pendingWaitSemaphores>>
  BY DEF Resized, contextVars, frameVars
<1>2. CASE ResizeFails(sc, mode, extent)
  <2>1. images' = [images EXCEPT ![sc] = <<>>] /\ UNCHANGED <<presents, engine, fence>>
    BY <1>2 DEF ResizeFails
  <2>2. images'[sc] = <<>> /\ \A o \in Swapchains \ {sc} : images'[o] = images[o]
    BY <2>1 DEF HandleTypes
  <2>. QED BY <1>1, <2>1, <2>2 DEF ImagesRenewed
<1>3. CASE ResizeSucceeds(sc, mode, extent, HeldByFrames)
  <2>1. PICK sem \in [Image -> Semaphores], fen \in [Image -> IF Maint1 THEN {{f} : f \in Fences} ELSE {{}}] :
          LET fens == UNION {fen[i] : i \in Image}
          IN /\ images' = [images EXCEPT ![sc] =
                             [i \in Image |-> [semaphore |-> sem[i], fence |-> fen[i]]]]
             /\ fence' = [f \in Fences |->
                            IF f \in fens \ FencesAfterImages(sc) THEN "signaled" ELSE fence[f]]
             /\ engine' = [engine EXCEPT ![sc] = [i \in Image |-> "available"]]
             /\ presents' = {p \in presents : p.swapchain # sc}
    BY <1>3 DEF ResizeSucceeds
  <2>. DEFINE fens == UNION {fen[i] : i \in Image}
  <2>2. /\ images'[sc] = [i \in Image |-> [semaphore |-> sem[i], fence |-> fen[i]]]
        /\ \A o \in Swapchains \ {sc} : images'[o] = images[o] /\ engine'[o] = engine[o]
        /\ \A i \in Image : engine'[sc][i] = "available"
    BY <2>1 DEF HandleTypes
  <2>3. \A i \in DOMAIN images'[sc] : images'[sc][i].fence \subseteq fens
    BY <2>2
  <2>4. fens \subseteq Fences
    BY <2>1
  <2>5. \A f \in FencesAfterImages(sc) : fence[f] = "signaled"
    <3>1. \A i \in DOMAIN images[sc] : \A f \in images[sc][i].fence : fence[f] = "signaled"
      BY <1>1, WaitedImagesIdle
    <3>2. \A f \in ImageFences(sc) : fence[f] = "signaled"
      BY <3>1 DEF ImageFences
    <3>. QED BY <3>2 DEF FencesAfterImages, HandleInvariant, FencesLent
  <2>6. \A f \in Fences : fence'[f] = IF f \in fens \ FencesAfterImages(sc) THEN "signaled" ELSE fence[f]
    BY <2>1
  <2>. HIDE DEF fens
  <2>7. \A i \in DOMAIN images'[sc] : \A f \in images'[sc][i].fence : fence'[f] = "signaled"
    BY <2>3, <2>4, <2>5, <2>6
  <2>. QED BY <1>1, <2>1, <2>2, <2>6, <2>7 DEF ImagesRenewed
<1>. QED
  BY <1>2, <1>3 DEF Resized

LEMMA DestroyRenews ==
  ASSUME HandleTypes, NEW sc \in Swapchains, imageIndex[sc] = NoIndex,
         SwapchainDestroyed(sc), UNCHANGED contextVars
  PROVE  ImagesRenewed(sc)
<1>1. /\ images' = [images EXCEPT ![sc] = <<>>]
      /\ imageIndex' = [imageIndex EXCEPT ![sc] = NoIndex]
      /\ presents' = {p \in presents : p.swapchain # sc}
      /\ engine' = [engine EXCEPT ![sc] = [i \in Image |-> "available"]]
      /\ UNCHANGED <<queue, binary, acquiring, fence, presenting, pendingWaitSemaphores>>
  BY DEF SwapchainDestroyed, contextVars, frameVars
<1>2. /\ images'[sc] = <<>> /\ imageIndex' = imageIndex
      /\ \A o \in Swapchains \ {sc} : images'[o] = images[o] /\ engine'[o] = engine[o]
      /\ \A i \in Image : engine'[sc][i] = "available"
  BY <1>1 DEF HandleTypes
<1>3. DOMAIN images'[sc] = {}
  BY <1>2
<1>. QED
  BY <1>1, <1>2, <1>3 DEF ImagesRenewed

-----------------------------------------------------------------------------
(* Submissions and presents                                                   *)
LEMMA SubmitKeepsWaits ==
  ASSUME WaitInvariant, HandleInvariant, HandleTypes, presenting = <<>>, NEW uses,
         NEW scs \in Seq(Swapchains), \A k \in DOMAIN scs : Presentable(scs[k]),
         Submit(uses, scs),
         UNCHANGED <<acquiring, fence, presents, engine, swapchainVars, frameID>>
  PROVE  WaitInvariant'
<1>. USE DEF WaitInvariant
<1>. DEFINE b == Batch(uses, scs)
            n == Len(queue) + 1
<1>1. /\ b.waits = pendingWaitSemaphores[frameID] /\ frameID \in Frames
      /\ b.signals = {AcquiredImage(scs[k]).semaphore : k \in DOMAIN scs}
  BY DEF Batch, HandleTypes
<1>2. /\ \A t \in Semaphores : binary'[t] = IF t \in b.signals THEN "pending" ELSE binary[t]
      /\ presenting' = scs
      /\ UNCHANGED <<acquiring, fence, presents, engine, images, imageIndex>>
      /\ pendingWaitSemaphores'[frameID] = <<>>
      /\ \A f \in Frames \ {frameID} : pendingWaitSemaphores'[f] = pendingWaitSemaphores[f]
      /\ queue' = Append(queue, b)
  BY DEF Submit, WaitsForgotten, swapchainVars, HandleTypes
<1>. HIDE DEF b
<1>3. /\ DOMAIN queue' = DOMAIN queue \union {n} /\ n \notin DOMAIN queue
      /\ queue'[n] = b /\ \A k \in DOMAIN queue : queue'[k] = queue[k]
  BY <1>2 DEF HandleTypes
<1>. HIDE DEF n
<1>4. \A t \in b.signals : LentToImage(t) /\ t \in Semaphores
  <2>1. ASSUME NEW k \in DOMAIN scs PROVE LentToImage(AcquiredImage(scs[k]).semaphore)
                                          /\ AcquiredImage(scs[k]).semaphore \in Semaphores
    BY SignalsIdle
  <2>. QED BY <2>1, <1>1
<1>5. /\ \A k \in DOMAIN queue : \A t \in Range(queue[k].waits) : LentToFrame(t) /\ t \in Semaphores
      /\ \A f \in Frames : \A t \in Range(pendingWaitSemaphores[f]) : LentToFrame(t) /\ t \in Semaphores
  BY DEF HandleInvariant, WaitsLent, LentToFrame, HandleTypes
<1>6. \A t \in Semaphores : LentToFrame(t) /\ Coming(t) => Coming(t)'
  BY <1>2, <1>4 DEF Coming, HandleInvariant, Exclusive, LentToFrame
<1>7. Range(<<>>) = {} /\ IsInjective(<<>>)
  BY DEF Range, IsInjective
<1>8. WaitsComing'
  BY <1>1, <1>2, <1>3, <1>5, <1>6, <1>7 DEF WaitsComing
<1>9. WaitsDistinct'
  <2>1. \A k \in DOMAIN queue' : IsInjective(queue'[k].waits)
    BY <1>1, <1>3 DEF WaitsDistinct
  <2>2. \A k, l \in DOMAIN queue' : k # l => Range(queue'[k].waits) \intersect Range(queue'[l].waits) = {}
    BY <1>1, <1>3 DEF WaitsDistinct
  <2>3. \A f \in Frames : IsInjective(pendingWaitSemaphores'[f])
    BY <1>2, <1>7 DEF WaitsDistinct
  <2>4. \A f \in Frames \ {frameID} : Range(pendingWaitSemaphores[frameID]) \intersect
                                      Range(pendingWaitSemaphores[f]) = {}
    BY <1>1, <1>7 DEF HandleInvariant, WaitsLent, CurrentSlot
  <2>5. \A f \in Frames : \A k \in DOMAIN queue' :
          Range(queue'[k].waits) \intersect Range(pendingWaitSemaphores'[f]) = {}
    BY <2>4, <1>1, <1>2, <1>3, <1>7 DEF WaitsDistinct
  <2>. QED BY <2>1, <2>2, <2>3, <2>5 DEF WaitsDistinct
<1>10. \A t \in Semaphores : Signaling(t) \/ t \in b.signals => Signaling(t)'
  BY <1>2, <1>3 DEF Signaling
<1>11. PresentsComing'
  <2>1. \A p \in presents : "wait" \in p.todo => Signaling(p.semaphore)'
    BY <1>10 DEF PresentsComing, HandleTypes
  <2>2. ASSUME NEW k \in DOMAIN scs PROVE Signaling(AcquiredImage(scs[k]).semaphore)'
    <3>1. PICK t \in Semaphores : t = AcquiredImage(scs[k]).semaphore /\ t \in b.signals
      BY <1>1, <1>4
    <3>2. Signaling(t)'
      BY <3>1, <1>10
    <3>3. (AcquiredImage(scs[k]).semaphore)' = t
      BY <3>1, <1>2 DEF AcquiredImage
    <3>. QED BY <3>2, <3>3 DEF Signaling
  <2>. QED BY <2>1, <2>2, <1>2 DEF PresentsComing
<1>12. ImagesReturn' /\ FencesReturn'
  BY <1>2 DEF ImagesReturn, FencesReturn, HasPresent
<1>. QED
  BY <1>8, <1>9, <1>11, <1>12

(* A present waits for what the submission before it signals, and has its image *)
(* and its fence come back.                                                  *)
LEMMA PresentedKeepsWaits ==
  ASSUME WaitInvariant, HandleInvariant, HandleTypes, presenting # <<>>,
         NEW sc \in Swapchains, sc = Head(presenting), imageIndex[sc] # NoIndex, ImagePresented(sc),
         presenting' = Tail(presenting), UNCHANGED pendingWaitSemaphores
  PROVE  WaitInvariant'
<1>. USE DEF WaitInvariant
<1>0. PICK i0, image : i0 = imageIndex[sc] /\ image = images[sc][i0]
  OBVIOUS
<1>. DEFINE new == [swapchain |-> sc, image |-> i0, semaphore |-> image.semaphore,
                    fence |-> image.fence,
                    todo |-> {"wait", "image"} \union (IF image.fence = {} THEN {} ELSE {"fence"})]
<1>. USE <1>0
<1>1. /\ i0 \in DOMAIN images[sc] /\ i0 \in Image
      /\ engine[sc][i0] = "acquired"
      /\ AcquiredImage(sc) = image
  BY DEF HandleInvariant, PresentsAcquired, Presentable, AcquiredImage, HandleTypes
<1>2. /\ \A f \in Fences : fence'[f] = IF f \in image.fence THEN "unsignaled" ELSE fence[f]
      /\ presents' = presents \union {new}
      /\ engine'[sc][i0] = "presenting"
      /\ \A o \in Swapchains : \A j \in Image : o # sc \/ j # i0 => engine'[o][j] = engine[o][j]
      /\ imageIndex'[sc] = NoIndex
      /\ \A o \in Swapchains \ {sc} : imageIndex'[o] = imageIndex[o]
      /\ UNCHANGED <<queue, binary, acquiring, images>>
  BY <1>1 DEF ImagePresented, IndexForgotten, HandleTypes
<1>3. /\ new.swapchain = sc /\ new.image = i0 /\ new.semaphore = image.semaphore
      /\ "image" \in new.todo /\ (image.fence # {} => "fence" \in new.todo)
  OBVIOUS
<1>. HIDE DEF new
<1>4. \A o, j, step : HasPresent(o, j, step) => HasPresent(o, j, step)'
  BY <1>2 DEF HasPresent
<1>5. HasPresent(sc, i0, "image")' /\ (image.fence # {} => HasPresent(sc, i0, "fence")')
  BY <1>2, <1>3 DEF HasPresent
<1>6. WaitsComing' /\ WaitsDistinct'
  BY <1>2 DEF WaitsComing, WaitsDistinct, Coming
<1>7. PresentsComing'
  <2>1. \A t : Signaling(t)' <=> Signaling(t)
    BY <1>2 DEF Signaling
  <2>2. 1 \in DOMAIN presenting /\ presenting[1] = sc
    BY DEF HandleTypes
  <2>3. Signaling(image.semaphore)
    BY <2>2, <1>1 DEF PresentsComing
  <2>4. \A p \in presents' : "wait" \in p.todo => Signaling(p.semaphore)'
    BY <2>1, <2>3, <1>2, <1>3 DEF PresentsComing
  <2>5. \A k \in DOMAIN presenting' : /\ k + 1 \in DOMAIN presenting
                                      /\ presenting'[k] = presenting[k + 1]
                                      /\ presenting[k + 1] \in Swapchains
    BY DEF HandleTypes
  <2>6. ASSUME NEW k \in DOMAIN presenting', imageIndex'[presenting'[k]] # NoIndex
        PROVE  Signaling(AcquiredImage(presenting[k]).semaphore)'
    <3>1. PICK o \in Swapchains : o = presenting[k + 1] /\ o = presenting'[k] /\ k + 1 \in DOMAIN presenting
      BY <2>5
    <3>2. o # sc /\ imageIndex'[o] = imageIndex[o] /\ imageIndex[o] # NoIndex
      BY <2>6, <3>1, <1>2
    <3>3. PICK t : t = AcquiredImage(o).semaphore
      OBVIOUS
    <3>4. Signaling(t)
      BY <3>1, <3>2, <3>3 DEF PresentsComing
    <3>5. (AcquiredImage(presenting[k]).semaphore)' = t
      BY <3>1, <3>2, <3>3, <1>2 DEF AcquiredImage
    <3>6. Signaling(t)'
      BY <3>4, <2>1
    <3>. QED BY <3>5, <3>6 DEF Signaling
  <2>. QED BY <2>4, <2>6 DEF PresentsComing
<1>8. ImagesReturn'
  <2>1. ASSUME NEW o \in Swapchains, NEW j \in Image
        PROVE  /\ engine'[o][j] = "acquired" => imageIndex'[o] = j
               /\ engine'[o][j] = "presenting" => HasPresent(o, j, "image")'
    <3>1. CASE o = sc /\ j = i0
      BY <3>1, <1>2, <1>5
    <3>2. CASE ~ (o = sc /\ j = i0)
      <4>1. engine'[o][j] = engine[o][j]
        BY <3>2, <1>2
      <4>2. engine[o][j] = "acquired" => imageIndex[o] = j /\ o # sc
        BY <3>2 DEF ImagesReturn
      <4>. QED BY <4>1, <4>2, <1>2, <1>4 DEF ImagesReturn
    <3>. QED BY <3>1, <3>2
  <2>. QED BY <2>1 DEF ImagesReturn
<1>9. FencesReturn'
  <2>1. ASSUME NEW o \in Swapchains, NEW j \in DOMAIN images[o], NEW f \in images[o][j].fence
        PROVE  fence'[f] = "signaled" \/ HasPresent(o, j, "fence")'
    <3>1. f \in Fences
      BY DEF HandleTypes
    <3>2. CASE o = sc /\ j = i0
      BY <3>2, <1>5
    <3>3. CASE ~ (o = sc /\ j = i0)
      <4>1. f \notin image.fence
        BY <3>3, <1>1 DEF HandleInvariant, FencesLent
      <4>. QED BY <4>1, <3>1, <1>2, <1>4 DEF FencesReturn
    <3>. QED BY <3>2, <3>3
  <2>. QED BY <2>1, <1>2 DEF FencesReturn
<1>. QED
  BY <1>6, <1>7, <1>8, <1>9

-----------------------------------------------------------------------------
(* The GPU and the engine                                                     *)

(* What the next presents wait for is an image's, and that image is acquired.  *)
LEMMA PresentingLent ==
  ASSUME HandleInvariant, HandleTypes, NEW k \in DOMAIN presenting,
         imageIndex[presenting[k]] # NoIndex
  PROVE  /\ presenting[k] \in Swapchains
         /\ imageIndex[presenting[k]] \in DOMAIN images[presenting[k]]
         /\ engine[presenting[k]][imageIndex[presenting[k]]] = "acquired"
         /\ AcquiredImage(presenting[k]).semaphore \in Semaphores
         /\ LentToImage(AcquiredImage(presenting[k]).semaphore)
<1>1. presenting[k] \in Swapchains
  BY DEF HandleTypes
<1>. QED
  BY <1>1 DEF HandleInvariant, PresentsAcquired, Presentable, AcquiredImage, LentToImage, HandleTypes

LEMMA SignalAcquireKeepsWaits ==
  ASSUME WaitInvariant, HandleInvariant, HandleTypes, NEW s \in Semaphores, SignalAcquire(s),
         UNCHANGED <<swapchainVars, contextVars>>
  PROVE  WaitInvariant'
<1>. USE DEF WaitInvariant
<1>1. /\ acquiring' = acquiring \ {s}
      /\ binary'[s] = "signaled" /\ \A t \in Semaphores : t # s => binary'[t] = binary[t]
      /\ UNCHANGED <<queue, fence, presents, engine, images, imageIndex, pendingWaitSemaphores, presenting>>
  BY DEF SignalAcquire, swapchainVars, contextVars, frameVars, HandleTypes
<1>2. \A t \in Semaphores : (Coming(t) => Coming(t)') /\ (Signaling(t) => Signaling(t)')
  BY <1>1 DEF Coming, Signaling
<1>3. WaitsComing' /\ WaitsDistinct'
  <2>1. /\ \A i \in DOMAIN queue : Range(queue[i].waits) \subseteq Semaphores
        /\ \A f \in Frames : Range(pendingWaitSemaphores[f]) \subseteq Semaphores
    BY DEF HandleTypes, Range
  <2>. QED BY <2>1, <1>1, <1>2 DEF WaitsComing, WaitsDistinct
<1>4. PresentsComing'
  <2>1. \A p \in presents : "wait" \in p.todo => Signaling(p.semaphore)'
    BY <1>2 DEF PresentsComing, HandleTypes
  <2>2. ASSUME NEW k \in DOMAIN presenting, imageIndex[presenting[k]] # NoIndex
        PROVE  Signaling(AcquiredImage(presenting[k]).semaphore)'
    <3>1. PICK t \in Semaphores : t = AcquiredImage(presenting[k]).semaphore
      BY <2>2, PresentingLent
    <3>2. Signaling(t)'
      BY <2>2, <3>1, <1>2 DEF PresentsComing
    <3>3. (AcquiredImage(presenting[k]).semaphore)' = t
      BY <3>1, <1>1 DEF AcquiredImage
    <3>. QED BY <3>2, <3>3 DEF Signaling
  <2>. QED BY <2>1, <2>2, <1>1 DEF PresentsComing
<1>5. ImagesReturn' /\ FencesReturn'
  BY <1>1 DEF ImagesReturn, FencesReturn, HasPresent
<1>. QED
  BY <1>3, <1>4, <1>5

(* A batch takes away only signals that nothing else waits for.               *)
LEMMA ExecuteBatchKeepsWaits ==
  ASSUME WaitInvariant, HandleInvariant, HandleTypes, ExecuteBatch,
         UNCHANGED <<swapchainVars, contextVars>>
  PROVE  WaitInvariant'
<1>. USE DEF WaitInvariant
<1>0. PICK head : head = queue[1]
  OBVIOUS
<1>1. /\ 1 \in DOMAIN queue /\ Head(queue) = head
      /\ \A s \in Semaphores : binary'[s] = IF s \in head.signals THEN "signaled"
                                 ELSE IF s \in Range(head.waits) THEN "unsignaled" ELSE binary[s]
      /\ queue' = Tail(queue)
  BY <1>0 DEF ExecuteBatch, HandleTypes
<1>2. UNCHANGED <<acquiring, fence, presents, engine, images, imageIndex, pendingWaitSemaphores, presenting>>
  BY DEF ExecuteBatch, swapchainVars, contextVars, frameVars
<1>3. /\ \A i \in DOMAIN queue' : i + 1 \in DOMAIN queue /\ i + 1 # 1 /\ queue'[i] = queue[i + 1]
      /\ \A i \in DOMAIN queue : i # 1 => i - 1 \in DOMAIN queue' /\ queue'[i - 1] = queue[i]
      /\ \A i, j \in DOMAIN queue' : i # j => i + 1 # j + 1
  BY <1>1 DEF HandleTypes
<1>4. \A s \in Semaphores : LentToImage(s) => s \notin Range(head.waits)
  BY <1>0, <1>1 DEF HandleInvariant, WaitsLent, Exclusive, HandleTypes
<1>5. \A s \in Semaphores : s \notin Range(head.waits) /\ Coming(s) => Coming(s)'
  BY <1>1, <1>2 DEF Coming
<1>6. \A s \in Semaphores : LentToImage(s) /\ Signaling(s) => Signaling(s)'
  <2>1. ASSUME NEW s \in Semaphores, s \notin Range(head.waits), Signaling(s) PROVE Signaling(s)'
    <3>1. CASE s \in head.signals
      BY <3>1, <1>1 DEF Signaling
    <3>2. CASE s \notin head.signals /\ binary[s] = "signaled"
      BY <2>1, <3>2, <1>1 DEF Signaling
    <3>3. CASE s \notin head.signals /\ \E i \in DOMAIN queue : s \in queue[i].signals
      BY <3>3, <1>0, <1>3 DEF Signaling
    <3>. QED BY <2>1, <3>1, <3>2, <3>3 DEF Signaling
  <2>. QED BY <2>1, <1>4
<1>7. WaitsComing'
  <2>1. ASSUME NEW i \in DOMAIN queue', NEW s \in Range(queue'[i].waits) PROVE Coming(s)'
    <3>1. i + 1 \in DOMAIN queue /\ i + 1 # 1 /\ s \in Range(queue[i + 1].waits)
      BY <1>3
    <3>2. queue[i + 1].waits \in Seq(Semaphores)
      BY <3>1 DEF HandleTypes
    <3>3. s \in Semaphores
      BY <3>1, <3>2 DEF Range
    <3>4. Coming(s)
      BY <3>1 DEF WaitsComing
    <3>5. s \notin Range(head.waits)
      BY <3>1, <1>0, <1>1 DEF WaitsDistinct
    <3>. QED BY <3>3, <3>4, <3>5, <1>5
  <2>2. ASSUME NEW f \in Frames, NEW s \in Range(pendingWaitSemaphores[f]) PROVE Coming(s)'
    <3>1. s \in Semaphores
      BY DEF HandleTypes, Range
    <3>2. Coming(s) /\ s \notin Range(head.waits)
      BY <1>0, <1>1 DEF WaitsComing, WaitsDistinct
    <3>. QED BY <3>1, <3>2, <1>5
  <2>. QED BY <2>1, <2>2, <1>2 DEF WaitsComing
<1>8. WaitsDistinct'
  <2>1. \A i, j \in DOMAIN queue' : i # j => Range(queue'[i].waits) \intersect Range(queue'[j].waits) = {}
    BY <1>3 DEF WaitsDistinct
  <2>2. /\ \A i \in DOMAIN queue' : IsInjective(queue'[i].waits)
        /\ \A f \in Frames : \A i \in DOMAIN queue' :
             Range(queue'[i].waits) \intersect Range(pendingWaitSemaphores[f]) = {}
    BY <1>3 DEF WaitsDistinct
  <2>. QED BY <2>1, <2>2, <1>2 DEF WaitsDistinct
<1>9. PresentsComing'
  <2>1. ASSUME NEW p \in presents, "wait" \in p.todo PROVE Signaling(p.semaphore)'
    <3>1. p.swapchain \in Swapchains /\ p.semaphore \in Semaphores
      BY DEF HandleTypes
    <3>2. LentToImage(p.semaphore)
      BY <2>1, <3>1 DEF HandleInvariant, PresentsMatch, PresentMatches, LentToImage
    <3>. QED BY <2>1, <3>1, <3>2, <1>6 DEF PresentsComing
  <2>2. ASSUME NEW k \in DOMAIN presenting, imageIndex[presenting[k]] # NoIndex
        PROVE  Signaling(AcquiredImage(presenting[k]).semaphore)'
    <3>1. PICK t \in Semaphores : t = AcquiredImage(presenting[k]).semaphore /\ LentToImage(t)
      BY <2>2, PresentingLent
    <3>2. Signaling(t)'
      BY <2>2, <3>1, <1>6 DEF PresentsComing
    <3>3. (AcquiredImage(presenting[k]).semaphore)' = t
      BY <3>1, <1>2 DEF AcquiredImage
    <3>. QED BY <3>2, <3>3 DEF Signaling
  <2>. QED BY <2>1, <2>2, <1>2 DEF PresentsComing
<1>10. ImagesReturn' /\ FencesReturn'
  BY <1>2 DEF ImagesReturn, FencesReturn, HasPresent
<1>. QED
  BY <1>7, <1>8, <1>9, <1>10

(* A step of a present leaves the other steps of every present to be done.    *)
LEMMA DoneStillHas ==
  ASSUME HandleTypes, NEW p \in presents, NEW done \in {"wait", "image", "fence"}, done \in p.todo,
         presents' = Done(p, done), NEW o, NEW j, NEW step, step # done, HasPresent(o, j, step)
  PROVE  HasPresent(o, j, step)'
<1>1. PICK q \in presents : q.swapchain = o /\ q.image = j /\ step \in q.todo
  BY DEF HasPresent
<1>2. CASE q # p
  BY <1>1, <1>2, DoneKeepsOthers DEF HasPresent
<1>3. CASE q = p
  <2>. DEFINE r == [p EXCEPT !.todo = @ \ {done}]
  <2>1. p \in PresentType
    BY DEF HandleTypes
  <2>2. r.swapchain = o /\ r.image = j /\ step \in r.todo
    BY <2>1, <1>1, <1>3 DEF PresentType
  <2>3. r \in presents'
    BY <1>1, <1>3 DEF Done
  <2>. QED BY <2>2, <2>3 DEF HasPresent
<1>. QED
  BY <1>2, <1>3

(* Nor does one that is not the wait change what presents wait for.           *)
LEMMA DoneKeepsComing ==
  ASSUME PresentsComing, HandleTypes, NEW p \in presents, NEW done \in {"image", "fence"},
         done \in p.todo, "wait" \notin p.todo, presents' = Done(p, done),
         UNCHANGED <<queue, binary, images, imageIndex, presenting>>
  PROVE  PresentsComing'
<1>1. \A q \in presents' : q \in presents \/ q.todo = p.todo \ {done}
  BY DoneParts
<1>2. \A q \in presents' : "wait" \in q.todo => q \in presents
  BY <1>1
<1>. QED
  BY <1>2 DEF PresentsComing, Signaling, AcquiredImage

(* The signal a present takes away is the one of its own image.               *)
LEMMA PresentWaitKeepsWaits ==
  ASSUME WaitInvariant, HandleInvariant, HandleTypes, NEW p \in presents, PresentWait(p),
         UNCHANGED <<swapchainVars, contextVars>>
  PROVE  WaitInvariant'
<1>. USE DEF WaitInvariant
<1>0. PICK s : s = p.semaphore
  OBVIOUS
<1>1. /\ "wait" \in p.todo /\ s \in Semaphores /\ p.swapchain \in Swapchains /\ p.image \in Image
      /\ \A t \in Semaphores : t # s => binary'[t] = binary[t]
      /\ presents' = Done(p, "wait")
      /\ UNCHANGED <<queue, acquiring, fence, engine, images, imageIndex, presenting,
                     pendingWaitSemaphores>>
  BY <1>0 DEF PresentWait, swapchainVars, contextVars, frameVars, HandleTypes
<1>2. /\ "image" \in p.todo /\ p.image \in DOMAIN images[p.swapchain]
      /\ images[p.swapchain][p.image].semaphore = s
      /\ engine[p.swapchain][p.image] = "presenting"
  BY <1>0, <1>1 DEF HandleInvariant, PresentsMatch, PresentMatches
<1>3. LentToImage(s) /\ ~ LentToFrame(s)
  BY <1>1, <1>2 DEF LentToImage, LentToFrame, HandleInvariant, Exclusive
<1>4. \A q \in presents' :
        \/ q \in presents /\ q # p
        \/ "wait" \notin q.todo
  BY <1>1, DoneParts
<1>5. \A t \in Semaphores : t # s => (Coming(t) => Coming(t)') /\ (Signaling(t) => Signaling(t)')
  BY <1>1 DEF Coming, Signaling
<1>6. WaitsComing' /\ WaitsDistinct'
  <2>1. /\ \A i \in DOMAIN queue : \A t \in Range(queue[i].waits) : t \in Semaphores /\ t # s
        /\ \A f \in Frames : \A t \in Range(pendingWaitSemaphores[f]) : t \in Semaphores /\ t # s
    <3>1. \A t : LentToFrame(t) => t \in Semaphores /\ t # s
      BY <1>3 DEF LentToFrame, HandleTypes
    <3>2. /\ \A i \in DOMAIN queue : \A t \in Range(queue[i].waits) : LentToFrame(t)
          /\ \A f \in Frames : \A t \in Range(pendingWaitSemaphores[f]) : LentToFrame(t)
      BY DEF HandleInvariant, WaitsLent, LentToFrame, HandleTypes
    <3>. QED BY <3>1, <3>2
  <2>2. /\ \A i \in DOMAIN queue : \A t \in Range(queue[i].waits) : Coming(t)'
        /\ \A f \in Frames : \A t \in Range(pendingWaitSemaphores[f]) : Coming(t)'
    BY <2>1, <1>5 DEF WaitsComing
  <2>. QED BY <2>2, <1>1 DEF WaitsComing, WaitsDistinct
<1>7. PresentsComing'
  <2>1. ASSUME NEW q \in presents', "wait" \in q.todo PROVE Signaling(q.semaphore)'
    <3>1. q \in presents /\ q # p
      BY <2>1, <1>4
    <3>2. /\ q.swapchain \in Swapchains /\ q.semaphore \in Semaphores
          /\ q.image \in DOMAIN images[q.swapchain]
          /\ images[q.swapchain][q.image].semaphore = q.semaphore /\ "image" \in q.todo
      BY <2>1, <3>1 DEF HandleInvariant, PresentsMatch, PresentMatches, HandleTypes
    <3>3. ASSUME q.semaphore = s PROVE FALSE
      <4>1. q.swapchain = p.swapchain /\ q.image = p.image
        BY <3>2, <3>3, <1>1, <1>2 DEF HandleInvariant, Exclusive
      <4>. QED BY <4>1, <3>1, <3>2, <1>2 DEF HandleInvariant, PresentsOnce
    <3>. QED BY <2>1, <3>1, <3>2, <3>3, <1>5 DEF PresentsComing
  <2>2. ASSUME NEW k \in DOMAIN presenting, imageIndex[presenting[k]] # NoIndex
        PROVE  Signaling(AcquiredImage(presenting[k]).semaphore)'
    <3>1. PICK o : o = presenting[k]
      OBVIOUS
    <3>2. PICK j : j = imageIndex[o]
      OBVIOUS
    <3>3. PICK t : t = images[o][j].semaphore
      OBVIOUS
    <3>4. /\ o \in Swapchains /\ j \in DOMAIN images[o] /\ t \in Semaphores
          /\ engine[o][j] = "acquired"
      BY <2>2, <3>1, <3>2, <3>3, PresentingLent DEF AcquiredImage
    <3>5. t # s
      BY <3>3, <3>4, <1>1, <1>2 DEF HandleInvariant, Exclusive
    <3>6. Signaling(t)'
      BY <2>2, <3>1, <3>2, <3>3, <3>4, <3>5, <1>5 DEF PresentsComing, AcquiredImage
    <3>7. (AcquiredImage(presenting[k]).semaphore)' = t
      BY <3>1, <3>2, <3>3, <1>1 DEF AcquiredImage
    <3>. QED BY <3>6, <3>7 DEF Signaling
  <2>. QED BY <2>1, <2>2, <1>1 DEF PresentsComing
<1>8. ASSUME NEW o, NEW j, NEW step \in {"image", "fence"}, HasPresent(o, j, step)
      PROVE  HasPresent(o, j, step)'
  BY <1>1, <1>8, DoneStillHas
<1>9. ImagesReturn' /\ FencesReturn'
  BY <1>1, <1>8 DEF ImagesReturn, FencesReturn
<1>. QED
  BY <1>6, <1>7, <1>9

(* An image that leaves the screen is available.                              *)
LEMMA PresentReleaseKeepsWaits ==
  ASSUME WaitInvariant, HandleInvariant, HandleTypes, NEW p \in presents, PresentRelease(p),
         UNCHANGED <<swapchainVars, contextVars>>
  PROVE  WaitInvariant'
<1>. USE DEF WaitInvariant
<1>1. /\ "image" \in p.todo /\ "wait" \notin p.todo /\ p.swapchain \in Swapchains /\ p.image \in Image
      /\ engine'[p.swapchain][p.image] = "available"
      /\ \A o \in Swapchains : \A j \in Image :
           o # p.swapchain \/ j # p.image => engine'[o][j] = engine[o][j]
      /\ presents' = Done(p, "image")
      /\ UNCHANGED <<queue, binary, acquiring, fence, images, imageIndex, presenting,
                     pendingWaitSemaphores>>
  BY DEF PresentRelease, swapchainVars, contextVars, frameVars, HandleTypes
<1>2. WaitsComing' /\ WaitsDistinct'
  BY <1>1 DEF WaitsComing, WaitsDistinct, Coming
<1>3. PresentsComing'
  BY <1>1, DoneKeepsComing
<1>4. ImagesReturn'
  <2>1. ASSUME NEW o \in Swapchains, NEW j \in Image
        PROVE  /\ engine'[o][j] = "acquired" => imageIndex[o] = j
               /\ engine'[o][j] = "presenting" => HasPresent(o, j, "image")'
    <3>1. CASE o = p.swapchain /\ j = p.image
      BY <3>1, <1>1
    <3>2. CASE o # p.swapchain \/ j # p.image
      <4>1. HasPresent(o, j, "image") => HasPresent(o, j, "image")'
        BY <3>2, <1>1, DoneKeepsOthers DEF HasPresent
      <4>. QED BY <3>2, <4>1, <1>1 DEF ImagesReturn
    <3>. QED BY <3>1, <3>2
  <2>. QED BY <2>1, <1>1 DEF ImagesReturn
<1>5. \A o, j : HasPresent(o, j, "fence") => HasPresent(o, j, "fence")'
  BY <1>1, DoneStillHas
<1>6. FencesReturn'
  BY <1>1, <1>5 DEF FencesReturn
<1>. QED
  BY <1>2, <1>3, <1>4, <1>6

(* The fence of an image is the one its present signals.                      *)
LEMMA PresentFenceKeepsWaits ==
  ASSUME WaitInvariant, HandleInvariant, HandleTypes, NEW p \in presents, PresentFence(p),
         UNCHANGED <<swapchainVars, contextVars>>
  PROVE  WaitInvariant'
<1>. USE DEF WaitInvariant
<1>1. /\ "fence" \in p.todo /\ "wait" \notin p.todo /\ p.swapchain \in Swapchains
      /\ \A f \in Fences : fence'[f] = IF f \in p.fence THEN "signaled" ELSE fence[f]
      /\ presents' = Done(p, "fence")
      /\ UNCHANGED <<queue, binary, acquiring, engine, images, imageIndex, presenting,
                     pendingWaitSemaphores>>
  BY DEF PresentFence, swapchainVars, contextVars, frameVars, HandleTypes
<1>2. images[p.swapchain][p.image].fence = p.fence
  BY <1>1 DEF HandleInvariant, PresentsMatch, PresentMatches
<1>3. WaitsComing' /\ WaitsDistinct'
  BY <1>1 DEF WaitsComing, WaitsDistinct, Coming
<1>4. PresentsComing'
  BY <1>1, DoneKeepsComing
<1>5. \A o, j : HasPresent(o, j, "image") => HasPresent(o, j, "image")'
  BY <1>1, DoneStillHas
<1>6. ImagesReturn'
  BY <1>1, <1>5 DEF ImagesReturn
<1>7. FencesReturn'
  <2>1. ASSUME NEW o \in Swapchains, NEW j \in DOMAIN images[o], NEW f \in images[o][j].fence
        PROVE  fence'[f] = "signaled" \/ HasPresent(o, j, "fence")'
    <3>1. f \in Fences
      BY DEF HandleTypes
    <3>2. CASE o = p.swapchain /\ j = p.image
      BY <3>1, <3>2, <1>1, <1>2
    <3>3. CASE o # p.swapchain \/ j # p.image
      <4>1. HasPresent(o, j, "fence") => HasPresent(o, j, "fence")'
        BY <3>3, <1>1, DoneKeepsOthers DEF HasPresent
      <4>. QED BY <3>1, <4>1, <1>1 DEF FencesReturn
    <3>. QED BY <3>2, <3>3
  <2>. QED BY <2>1, <1>1 DEF FencesReturn
<1>. QED
  BY <1>3, <1>4, <1>6, <1>7
-----------------------------------------------------------------------------
(* Every step                                                                 *)
LEMMA WaitsInit == Init => WaitInvariant
<1>. SUFFICES ASSUME Init PROVE WaitInvariant
  OBVIOUS
<1>. USE DEF Init, VulkanInit, SwapchainInit
<1>1. /\ queue = <<>> /\ presenting = <<>> /\ presents = {}
      /\ \A sc \in Swapchains : DOMAIN images[sc] = {}
      /\ \A sc \in Swapchains : \A i \in Image : engine[sc][i] = "available"
      /\ \A f \in Frames : pendingWaitSemaphores[f] = <<>>
  OBVIOUS
<1>2. Range(<<>>) = {} /\ IsInjective(<<>>) /\ DOMAIN <<>> = {}
  BY DEF Range, IsInjective
<1>3. WaitsComing /\ WaitsDistinct /\ PresentsComing
  BY <1>1, <1>2 DEF WaitsComing, WaitsDistinct, PresentsComing
<1>4. ImagesReturn /\ FencesReturn
  BY <1>1 DEF ImagesReturn, FencesReturn
<1>. QED
  BY <1>3, <1>4 DEF WaitInvariant

LEMMA FatalKeepsWaits ==
  ASSUME WaitInvariant, NEW why, Fatal(why)
  PROVE  WaitInvariant'
BY WaitsStutter DEF Fatal, gpuVars, swapchainVars, contextVars, frameVars, waitCore

LEMMA ResizedKeepsWaits ==
  ASSUME WaitInvariant, HandleInvariant, HandleTypes, presenting = <<>>, NEW sc \in Swapchains,
         imageIndex[sc] = NoIndex, NEW mode, NEW extent,
         Resized(sc, mode, extent, HeldByFrames), UNCHANGED contextVars
  PROVE  WaitInvariant'
BY ResizeRenews, ImagesRenewedKeeps

LEMMA PresentModeChangedKeepsWaits ==
  ASSUME WaitInvariant, HandleInvariant, HandleTypes, presenting = <<>>, NEW sc \in Swapchains,
         imageIndex[sc] = NoIndex, NEW preferred, NEW extent,
         PresentModeChanged(sc, preferred, extent, HeldByFrames), UNCHANGED contextVars
  PROVE  WaitInvariant'
<1>1. CASE Resized(sc, FindPresentMode(preferred), extent, HeldByFrames)
  BY <1>1, ResizedKeepsWaits
<1>2. CASE UNCHANGED <<gpuVars, images, imageIndex>>
  BY <1>2, WaitsStutter DEF gpuVars, contextVars, frameVars, waitCore
<1>. QED
  BY <1>1, <1>2 DEF PresentModeChanged

LEMMA SwapchainCallKeepsWaits ==
  ASSUME WaitInvariant, HandleInvariant, HandleTypes, FrameInvariant, NEW sc \in Swapchains,
         SwapchainCall(sc), "resizeAcquired" \notin Liberties, "acquire" \notin Faults
  PROVE  WaitInvariant'
<1>1. CASE CreateSwapchain(sc)
  <2>1. PICK p \in Preferred : PresentModeChanged(sc, p[1], p[2], HeldByFrames)
    BY <1>1 DEF CreateSwapchain, SwapchainCreated
  <2>2. imageIndex[sc] = NoIndex /\ presenting = <<>> /\ UNCHANGED contextVars
    BY <1>1 DEF CreateSwapchain, Running, HandleInvariant, NoIndexWithoutHandle
  <2>. QED BY <2>1, <2>2, PresentModeChangedKeepsWaits
<1>2. CASE ChangeVkPresentMode(sc)
  <2>1. PICK p \in Preferred : PresentModeChanged(sc, p[1], p[2], HeldByFrames)
    BY <1>2 DEF ChangeVkPresentMode
  <2>2. imageIndex[sc] = NoIndex /\ presenting = <<>> /\ UNCHANGED contextVars
    BY <1>2 DEF ChangeVkPresentMode, Running, MayResize
  <2>. QED BY <2>1, <2>2, PresentModeChangedKeepsWaits
<1>3. CASE Resize(sc)
  <2>1. PICK extent \in Extents : Resized(sc, settings[sc].vkPresentMode, extent, HeldByFrames)
    BY <1>3 DEF Resize
  <2>2. imageIndex[sc] = NoIndex /\ presenting = <<>> /\ UNCHANGED contextVars
    BY <1>3 DEF Resize, Running, MayResize
  <2>. QED BY <2>1, <2>2, ResizedKeepsWaits
<1>4. CASE DestroySwapchain(sc)
  <2>1. /\ imageIndex[sc] = NoIndex /\ presenting = <<>>
        /\ UNCHANGED contextVars /\ SwapchainDestroyed(sc)
    BY <1>4 DEF DestroySwapchain, Running, MayResize
  <2>. QED BY <2>1, DestroyRenews, ImagesRenewedKeeps
<1>5. CASE ImageWaitTimesOut(sc) \/ AcquireTimesOut(sc)
  BY <1>5, FatalKeepsWaits DEF ImageWaitTimesOut, AcquireTimesOut
<1>6. CASE AcquireSwapchain(sc)
  <2>1. CASE \E why : Fatal(why)
    BY <2>1, FatalKeepsWaits
  <2>2. CASE ~ \E why : Fatal(why)
    <3>1. presenting = <<>> /\ imageIndex[sc] = NoIndex /\ UNCHANGED <<images, presenting>>
      BY <1>6, <2>2 DEF AcquireSwapchain, Running
    <3>2. PICK s \in Semaphores :
            /\ Acquirable({s}, freeSemaphores, HeldByFrames \union HeldByImages)
            /\ Enlisted(s)
            /\ (\E i \in DOMAIN images[sc] : ImageAcquired(sc, s, i)) \/ ImageRefused(sc)
      BY <1>6, <2>2 DEF AcquireSwapchain
    <3>3. PICK i \in DOMAIN images[sc] : ImageAcquired(sc, s, i)
      BY <3>2 DEF ImageRefused
    <3>. QED BY <3>1, <3>2, <3>3, AcquireKeepsWaits
  <2>. QED BY <2>1, <2>2
<1>. QED
  BY <1>1, <1>2, <1>3, <1>4, <1>5, <1>6 DEF SwapchainCall

LEMMA EndCommandBufferKeepsWaits ==
  ASSUME WaitInvariant, HandleInvariant, HandleTypes, TypeInvariant,
         NEW uses, NEW scs \in PresentLists, EndCommandBuffer(uses, scs)
  PROVE  WaitInvariant'
<1>1. CASE \E why : Fatal(why)
  BY <1>1, FatalKeepsWaits
<1>2. CASE ~ \E why : Fatal(why)
  <2>1. /\ presenting = <<>> /\ \A i \in DOMAIN scs : Presentable(scs[i])
        /\ Submit(uses, scs)
        /\ UNCHANGED <<acquiring, fence, presents, engine, swapchainVars, frameID>>
    BY <1>2 DEF EndCommandBuffer, Running
  <2>2. scs \in Seq(Swapchains)
    BY PresentListTyped
  <2>. QED BY <2>1, <2>2, SubmitKeepsWaits
<1>. QED
  BY <1>1, <1>2

LEMMA PresentNextKeepsWaits ==
  ASSUME WaitInvariant, HandleInvariant, HandleTypes, PresentNext
  PROVE  WaitInvariant'
<1>1. CASE \E why : Fatal(why)
  BY <1>1, FatalKeepsWaits
<1>2. CASE ~ \E why : Fatal(why)
  <2>. DEFINE sc == Head(presenting)
  <2>1. /\ presenting # <<>> /\ imageIndex[sc] # NoIndex /\ ImagePresented(sc)
        /\ presenting' = Tail(presenting) /\ UNCHANGED pendingWaitSemaphores
    BY <1>2 DEF PresentNext, frameVars
  <2>2. sc \in Swapchains
    BY <2>1 DEF HandleTypes
  <2>. QED BY <2>1, <2>2, PresentedKeepsWaits
<1>. QED
  BY <1>1, <1>2

LEMMA GpuKeepsWaits ==
  ASSUME WaitInvariant, HandleInvariant, HandleTypes, GpuStep
  PROVE  WaitInvariant'
BY SignalAcquireKeepsWaits, ExecuteBatchKeepsWaits, PresentWaitKeepsWaits,
   PresentReleaseKeepsWaits, PresentFenceKeepsWaits DEF GpuStep, Gpu, Present

LEMMA NextKeepsWaits ==
  ASSUME WaitInvariant, HandleInvariant, TypeInvariant, FrameInvariant, [Next]_vars,
         "resizeAcquired" \notin Liberties, "acquire" \notin Faults
  PROVE  WaitInvariant'
<1>1. HandleTypes
  BY HandlesTyped
<1>2. CASE CreateContext \/ DestroyContext
  <2>1. CASE \E why : Fatal(why)
    BY <2>1, FatalKeepsWaits
  <2>2. CASE ~ \E why : Fatal(why)
    <3>1. /\ UNCHANGED waitCore
          /\ \A f \in Frames : pendingWaitSemaphores'[f] = <<>>
      BY <1>2, <2>2 DEF CreateContext, DestroyContext, TimesOut, FreshFrames, swapchainVars, waitCore
    <3>. QED BY <3>1, WaitsStutter
  <2>. QED BY <2>1, <2>2
<1>3. CASE \E uses \in SUBSET Usable, scs \in PresentLists : EndCommandBuffer(uses, scs)
  BY <1>1, <1>3, EndCommandBufferKeepsWaits
<1>4. CASE PresentNext
  BY <1>1, <1>4, PresentNextKeepsWaits
<1>5. CASE GpuStep
  BY <1>1, <1>5, GpuKeepsWaits
<1>6. CASE \E sc \in Swapchains : SwapchainCall(sc)
  BY <1>1, <1>6, SwapchainCallKeepsWaits
<1>7. CASE \/ Begin \/ End \/ Wait \/ BeginCommandBuffer \/ Aborted \/ UNCHANGED vars
           \/ \E o \in Objects : QueueDestroyer(o)
           \/ \E b \in Buffers : CreateScratchHostBuffer(b)
  <2>1. UNCHANGED <<waitCore, pendingWaitSemaphores>>
    BY <1>7 DEF Begin, End, Wait, TimesOut, BeginCommandBuffer, Aborted, Fatal, QueueDestroyer,
       CreateScratchHostBuffer, vars, gpuVars, swapchainVars, contextVars, frameVars, waitCore
  <2>. QED BY <2>1, WaitsStutter
<1>. QED
  BY <1>2, <1>3, <1>4, <1>5, <1>6, <1>7 DEF Next, ContextCall

(* When the GPU and the engine cannot move, every value promised has been      *)
(* reached, every image can be acquired or is, and every fence is signaled.  *)
LEMMA StuckIsHarmless ==
  ASSUME WaitInvariant, HandleTypes, FrameInvariant, CoreType, Stuck
  PROVE  /\ Reached(pendingValue) /\ \A f \in Frames : Reached(pendingSemaphoreValue[f])
         /\ \A sc \in Swapchains : ImagesWaited(sc)
         /\ \A sc \in Swapchains : \A i \in DOMAIN images[sc] :
              \A f \in images[sc][i].fence : fence[f] = "signaled"
         /\ \A sc \in Swapchains : imageIndex[sc] = NoIndex =>
              \E i \in Image : engine[sc][i] = "available"
<1>. USE DEF WaitInvariant
<1>1. queue = <<>> /\ presents = {}
  BY StuckIsDone
<1>2. pendingValue = timeline /\ pendingValue \in Nat
  BY <1>1 DEF FrameInvariant, QueueNumbered, CoreType
<1>3. \A f \in Frames : pendingSemaphoreValue[f] <= pendingValue /\ pendingSemaphoreValue[f] \in Nat
  BY DEF FrameInvariant, SlotsRemember, CoreType
<1>4. \A sc \in Swapchains : \A i \in DOMAIN images[sc] :
        \A f \in images[sc][i].fence : fence[f] = "signaled"
  BY <1>1 DEF FencesReturn, HasPresent
<1>5. \A sc \in Swapchains : ImagesWaited(sc)
  BY <1>1, <1>4 DEF ImagesWaited, ImageFences, DeviceIdle
<1>6. ASSUME NEW sc \in Swapchains, imageIndex[sc] = NoIndex
      PROVE  \E i \in Image : engine[sc][i] = "available"
  <2>1. 1 \in Image /\ 1 # NoIndex
    BY NImagesAssumption DEF Image, NoIndex
  <2>2. engine[sc][1] # "acquired" /\ engine[sc][1] # "presenting"
    BY <2>1, <1>1, <1>6 DEF ImagesReturn, HasPresent
  <2>. QED BY <2>1, <2>2 DEF HandleTypes
<1>. QED
  BY <1>2, <1>3, <1>4, <1>5, <1>6 DEF Reached

LEMMA NothingTimesOut ==
  ASSUME WaitInvariant, HandleInvariant, TypeInvariant, FrameInvariant, [Next]_vars, NeverHangs
  PROVE  NeverHangs'
<1>1. HandleTypes /\ CoreType
  BY HandlesTyped DEF TypeInvariant, TypeOK, GpuType, FrameType, CoreType
<1>2. SUFFICES ASSUME fatal' = "wait" PROVE FALSE
  BY DEF NeverHangs
<1>3. fatal # "wait"
  BY DEF NeverHangs
<1>4. ASSUME NEW v, TimesOut(v), v = pendingValue \/ \E f \in Frames : v = pendingSemaphoreValue[f]
      PROVE  FALSE
  <2>1. Reached(v)
    BY <1>1, <1>4, StuckIsHarmless DEF TimesOut
  <2>2. v \in Nat /\ timeline \in Nat
    BY <1>1, <1>4 DEF CoreType
  <2>. QED BY <1>4, <2>1, <2>2 DEF TimesOut, Reached
<1>5. CASE Begin \/ DestroyContext \/ Wait
  <2>1. frameID \in Frames
    BY <1>1 DEF HandleTypes
  <2>2. ~ TimesOut(pendingSemaphoreValue[frameID]) /\ ~ TimesOut(pendingValue)
    BY <2>1, <1>4
  <2>. QED BY <2>2, <1>2, <1>3, <1>5 DEF Begin, DestroyContext, Wait, vars
<1>6. CASE PresentNext
  <2>1. PICK sc : /\ sc = Head(presenting) /\ presenting # <<>> /\ imageIndex[sc] # NoIndex
                  /\ ~ PresentWaited(sc) /\ Stuck
    BY <1>2, <1>3, <1>6 DEF PresentNext, Fatal
  <2>2. sc \in Swapchains /\ Presentable(sc)
    BY <2>1, <1>1 DEF HandleTypes, HandleInvariant, PresentsAcquired
  <2>. QED BY <1>1, <2>1, <2>2, StuckIsHarmless DEF PresentWaited, Presentable, AcquiredImage
<1>7. ASSUME NEW sc \in Swapchains, SwapchainCall(sc) PROVE FALSE
  <2>1. CASE ImageWaitTimesOut(sc)
    BY <1>1, <2>1, StuckIsHarmless DEF ImageWaitTimesOut
  <2>2. CASE AcquireTimesOut(sc)
    BY <1>1, <2>2, StuckIsHarmless DEF AcquireTimesOut, HandleTypes
  <2>3. CASE \/ CreateSwapchain(sc) \/ ChangeVkPresentMode(sc) \/ Resize(sc)
             \/ DestroySwapchain(sc) \/ AcquireSwapchain(sc)
    BY <2>3, <1>2, <1>3 DEF CreateSwapchain, ChangeVkPresentMode, Resize, DestroySwapchain,
       AcquireSwapchain, Fatal
  <2>. QED BY <1>7, <2>1, <2>2, <2>3 DEF SwapchainCall
<1>8. CASE \/ CreateContext \/ End \/ BeginCommandBuffer \/ GpuStep \/ Aborted \/ UNCHANGED vars
           \/ \E o \in Objects : QueueDestroyer(o)
           \/ \E b \in Buffers : CreateScratchHostBuffer(b)
           \/ \E uses \in SUBSET Usable, scs \in PresentLists : EndCommandBuffer(uses, scs)
  BY <1>2, <1>3, <1>8 DEF CreateContext, End, BeginCommandBuffer, GpuStep, Aborted, vars,
     QueueDestroyer, CreateScratchHostBuffer, EndCommandBuffer, Fatal
<1>. QED
  BY <1>5, <1>6, <1>7, <1>8 DEF Next, ContextCall

(* vkm_semaphore_timeline_wait, ~image, present and acquire each give up on a   *)
(* wait after a second and end the process: none of them is ever left waiting *)
(* for what will not come - for any number of slots, images, swapchains and   *)
(* handles, unless a refused acquire has left a semaphore that never signals. *)
THEOREM NeverHangsAlways ==
  ASSUME Disciplined, "acquire" \notin Faults
  PROVE  Spec => []NeverHangs
<1>. USE DEF Disciplined
<1>1. TypeInvariant /\ FrameInvariant /\ HandleInvariant /\ WaitInvariant /\ [Next]_vars => WaitInvariant'
  BY NextKeepsWaits
<1>2. TypeInvariant /\ FrameInvariant /\ HandleInvariant /\ WaitInvariant /\ NeverHangs /\ [Next]_vars
        => NeverHangs'
  BY NothingTimesOut
<1>3. Init => NeverHangs
  BY DEF Init, NeverHangs
<1>. QED
  BY TypesAlways, FrameInvariantAlways, HandleInvariantAlways, WaitsInit, <1>1, <1>2, <1>3, PTL DEF Spec
=============================================================================
