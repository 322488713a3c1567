\* The driver may find no format while resizing.
SPECIFICATION Spec
CONSTANTS
  Semaphores = {s1, s2, s3}
  Fences = {f1, f2}
  Swapchains = {sc}
  NImages = 1
  Maint1 = FALSE
  Modes = {"FIFO", "FIFO_RELAXED", "MAILBOX", "IMMEDIATE"}
  SurfaceModes = {"FIFO", "MAILBOX", "IMMEDIATE"}
  CompatibleWith <- FifoMailbox
  Preferences <- ModeLists
  Extents = {"e1", "e2"}
  Faults = {"format"}
  MaxPendingFrames = 1
  Objects = {}
  Buffers = {}
  MaxValue = 2
  MaxWaits = 2
  MaxPresents = 1
  Liberties = {}
INVARIANTS
  NeverOutOfBounds
