\* The parts that meet the driver: start-up, and the memory of a device.
SPECIFICATION MCSpec
CONSTANTS
  Parts = {"startup", "memory"}
  Systems <- MCSystems
  SomeSystems = {"mixed", "uneven", "broken", "incompatible", "headless"}
  Instances = {i1, i2}
  Null = Null
  MaxDevices = 1
  InitAgain = FALSE
  GiveUp = FALSE
  Extensions <- MCExtensions
  InstanceExtensions <- MCInstanceExtensions
  DependsOn <- MCDependsOn
  AssociatedWith <- MCAssociatedWith
  SwapchainExtension = "swapchain"
  Maintenance1 <- MCMaintenance1
  DebugUtils <- MCDebugUtils
  CoreFeatures <- MCCoreFeatures
  CreateInfos <- MCCreateInfos
  WantedExtensions <- MCWantedExtensions
  WantedChains <- MCWantedChains
  WantedQueues <- MCWantedQueues
  WantedFormats = {"rgba"}
  Surfaces = {"window"}
  MaxCalls = 3
  LateCalls = FALSE
  Threads = {t1, t2}
  Uses <- MCUses
  Handles = {h1, h2}
  MemoryTypes <- MCMemoryTypes
  HeapSizes <- MCHeapSizes
  Preferred = 8
  Sizes = {2, 5}
  Wishes <- MCWishes
  Estimates = {0, 100}
  Refuses = TRUE
  MaxMemoryCount = 3
  MaxCounter = 3
  MinExtra = 2
  None = None
SYMMETRY Names
INVARIANTS
  RequestsSound
  RuntimeSound
  MemorySound
  BudgetExact
  RefusedByDriver
PROPERTIES
  DeviceFits
  FirstThatFits
  EnabledUsable
