\* Every refusal of the driver and every liberty of the client.
SPECIFICATION Spec
CONSTANTS
  Semaphores = {s1, s2}
  Fences = {f1}
  Swapchains = {sc}
  NImages = 1
  Maint1 = TRUE
  Modes = {"FIFO"}
  SurfaceModes = {"FIFO"}
  CompatibleWith <- OneMode
  Preferences <- FifoList
  Extents = {"e1"}
  Faults = {"acquire", "modes", "capabilities", "format", "create"}
  MaxPendingFrames = 1
  Objects = {o1}
  Buffers = {}
  MaxValue = 2
  MaxWaits = 2
  MaxPresents = 1
  Liberties = {"carryAcquire", "resizeAcquired", "reentrant"}
SYMMETRY Handles
INVARIANTS
  FramesSound
  OneHolder
