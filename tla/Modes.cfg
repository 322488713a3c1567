\* Present modes and extents, one frame slot.
SPECIFICATION FairSpec
CONSTANTS
  Semaphores = {s1, s2}
  Fences = {f1}
  Swapchains = {sc}
  NImages = 1
  Maint1 = TRUE
  Modes = {"FIFO", "FIFO_RELAXED", "MAILBOX", "IMMEDIATE"}
  SurfaceModes = {"FIFO", "MAILBOX", "IMMEDIATE"}
  CompatibleWith <- FifoMailbox
  Preferences <- ModeLists
  Extents = {"e1", "e2"}
  Faults = {}
  MaxPendingFrames = 1
  Objects = {}
  Buffers = {}
  MaxValue = 2
  MaxWaits = 2
  MaxPresents = 1
  Liberties = {}
INVARIANTS
  ModeInEffect
PROPERTIES
  SubmissionsComplete
