\* One swapchain with VK_EXT_swapchain_maintenance1.
SPECIFICATION Spec
CONSTANTS
  Semaphores = {s1, s2, s3, s4}
  Fences = {f1, f2}
  Swapchains = {sc}
  NImages = 2
  Maint1 = TRUE
  Modes = {"FIFO"}
  SurfaceModes = {"FIFO"}
  CompatibleWith <- OneMode
  Preferences <- FifoList
  Extents = {"e1"}
  Faults = {}
  MaxPendingFrames = 2
  Objects = {}
  Buffers = {}
  MaxValue = 3
  MaxWaits = 2
  MaxPresents = 1
  Liberties = {}
SYMMETRY Handles
INVARIANTS
  HandlesSafe
  PresentsAcquired
PROPERTIES
  SignalsUnsignaled
  SemaphoresRecycled
