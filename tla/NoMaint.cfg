\* One swapchain without VK_EXT_swapchain_maintenance1, under a fair GPU and client.
SPECIFICATION FairSpec
CONSTANTS
  Semaphores = {s1, s2, s3}
  Fences = {f1}
  Swapchains = {sc}
  NImages = 1
  Maint1 = FALSE
  Modes = {"FIFO"}
  SurfaceModes = {"FIFO"}
  CompatibleWith <- OneMode
  Preferences <- FifoList
  Extents = {"e1"}
  Faults = {}
  MaxPendingFrames = 2
  Objects = {o1}
  Buffers = {}
  MaxValue = 2
  MaxWaits = 2
  MaxPresents = 1
  Liberties = {}
INVARIANTS
  HandlesSafe
PROPERTIES
  DestroyersRun
