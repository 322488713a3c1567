\* Frame slots alone: destroyers, scratch buffers, command buffers.
SPECIFICATION Spec
CONSTANTS
  Semaphores = {s1}
  Fences = {f1}
  Swapchains = {}
  NImages = 2
  Maint1 = TRUE
  Modes = {"FIFO"}
  SurfaceModes = {"FIFO"}
  CompatibleWith <- OneMode
  Preferences <- FifoList
  Extents = {"e1"}
  Faults = {}
  MaxPendingFrames = 2
  Objects = {o1, o2}
  Buffers = {b1}
  MaxValue = 4
  MaxWaits = 2
  MaxPresents = 1
  Liberties = {}
SYMMETRY Handles
INVARIANTS
  FramesSound
  DestroyersRemembered
PROPERTIES
  DestructionDeferred
