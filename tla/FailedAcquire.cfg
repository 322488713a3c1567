\* The driver may refuse an acquire.
SPECIFICATION Spec
CONSTANTS
  Semaphores = {s1, s2, s3}
  Fences = {f1, f2}
  Swapchains = {sc}
  NImages = 1
  Maint1 = FALSE
  Modes = {"FIFO"}
  SurfaceModes = {"FIFO"}
  CompatibleWith <- OneMode
  Preferences <- FifoList
  Extents = {"e1"}
  Faults = {"acquire"}
  MaxPendingFrames = 1
  Objects = {}
  Buffers = {}
  MaxValue = 2
  MaxWaits = 2
  MaxPresents = 1
  Liberties = {}
INVARIANTS
  NeverHangs
