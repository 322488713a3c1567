SPECIFICATION InitializerSpec
CONSTANTS
  Systems <- MCSystems
  SomeSystems = {"plain"}
  Instances = {i1, i2}
  Null = Null
  MaxDevices = 1
  InitAgain = FALSE
  GiveUp = TRUE
  Extensions <- MCExtensions
  InstanceExtensions <- MCInstanceExtensions
  DependsOn <- MCDependsOn
  AssociatedWith <- MCAssociatedWith
  SwapchainExtension = "swapchain"
  Maintenance1 <- MCMaintenance1
  DebugUtils <- MCDebugUtils
  CoreFeatures <- MCCoreFeatures
  CreateInfos <- MCCreateInfos
  WantedExtensions <- MCWantedExtensions
  WantedChains <- MCWantedChains
  WantedQueues <- MCWantedQueues
  WantedFormats = {"rgba"}
  Surfaces = {"window"}
  MaxCalls = 0
  LateCalls = FALSE
INVARIANT ShutdownReturns
