\* Two swapchains presented together.
SPECIFICATION Spec
CONSTANTS
  Semaphores = {s1, s2, s3, s4}
  Fences = {f1, f2, f3}
  Swapchains = {sc1, sc2}
  NImages = 1
  Maint1 = TRUE
  Modes = {"FIFO"}
  SurfaceModes = {"FIFO"}
  CompatibleWith <- OneMode
  Preferences <- FifoList
  Extents = {"e1"}
  Faults = {}
  MaxPendingFrames = 0
  Objects = {}
  Buffers = {}
  MaxValue = 2
  MaxWaits = 2
  MaxPresents = 2
  Liberties = {}
SYMMETRY HandlesAndSwapchains
INVARIANTS
  NeverHangs
  AcquiresWaited
