----------------------------- MODULE MCStartup -----------------------------
(***************************************************************************)
(* Machines and clients for Initializer.tla: GPUs that differ in one thing *)
(* each that a client may ask for.                                         *)
(***************************************************************************)
EXTENDS Initializer

CONSTANTS SomeSystems   \* which of the machines below

MCExtensions == {"debug_utils", "surface", "swapchain", "ext_maint1", "khr_maint1", "mesh"}
MCInstanceExtensions == {"debug_utils", "surface"}
MCDependsOn ==
  [e \in MCExtensions |->
     CASE e = "swapchain" -> {"surface"}
       [] e \in {"ext_maint1", "khr_maint1"} -> {"swapchain", "surface"}
       [] OTHER -> {}]
MCAssociatedWith ==
  [Vulkan13 |-> {}, Mesh |-> {"mesh"}, Maint1 |-> {"ext_maint1", "khr_maint1"}]
MCMaintenance1 == {"ext_maint1", "khr_maint1"}
MCDebugUtils == {"debug_utils"}
MCCoreFeatures == <<[sType |-> "Vulkan13", fields |-> {"synchronization2"}]>>
MCCreateInfos ==
  {[api |-> 2, preferType |-> type, veto |-> {}] : type \in {"system", "discrete"}}
    \union {[api |-> 3, preferType |-> "discrete", veto |-> {2}]}
MCWantedExtensions == {"ext_maint1", "swapchain"}
MCWantedChains ==
  {<<[sType |-> "Maint1", fields |-> {"m"}]>>,
   <<[sType |-> "Vulkan13", fields |-> {"x"}], [sType |-> "Mesh", fields |-> {"m"}]>>}
MCWantedQueues == {<<"graphics", 1, 2>>, <<"compute", 2, 0>>, <<"transfer", 1, 1>>}

AllExtensions == {"swapchain", "ext_maint1", "mesh"}
AllFeatures == {<<"Vulkan13", "synchronization2">>, <<"Vulkan13", "x">>, <<"Mesh", "m">>, <<"Maint1", "m">>}
AllFamilies ==
  <<[flags |-> {"graphics", "compute", "transfer"}, count |-> 1],
    [flags |-> {"compute", "transfer"}, count |-> 2], [flags |-> {"transfer"}, count |-> 2]>>

Full ==
  [vendorID |-> 1, deviceID |-> 1, type |-> "discrete", api |-> 3, vram |-> 1,
   extensions |-> AllExtensions, features |-> AllFeatures, formats |-> {"rgba"},
   families |-> AllFamilies, presents |-> <<{"window"}, {"window"}, {}>>,
   creates |-> TRUE, refuses |-> FALSE]
Integrated == [Full EXCEPT !.type = "integrated", !.deviceID = 2, !.vram = 2, !.families = SubSeq(AllFamilies, 1, 1)]
NoMesh ==
  [Full EXCEPT !.extensions = AllExtensions \ {"mesh"}, !.features = AllFeatures \ {<<"Mesh", "m">>}]

OnlyMesh ==
  [Full EXCEPT !.extensions = {"mesh"}, !.features = AllFeatures \ {<<"Maint1", "m">>},
               !.presents = <<{}, {}, {}>>, !.api = 2, !.vram = 2]
Unlucky == [Full EXCEPT !.creates = FALSE, !.formats = {}]
Broken == [Full EXCEPT !.refuses = TRUE]
Khr == [Full EXCEPT !.extensions = {"swapchain", "khr_maint1"}]

Machine(gpus) ==
  [gpus |-> gpus, lacks |-> {}, instanceExtensions |-> {"debug_utils", "surface"}]

Machines ==
  [mixed |-> Machine(<<Integrated, NoMesh, Full>>),
   uneven |-> Machine(<<OnlyMesh, NoMesh, Unlucky>>),
   broken |-> Machine(<<Broken>>),
   incompatible |-> [Machine(<<Full>>) EXCEPT !.lacks = {"vkEnumeratePhysicalDevices"}],
   headless |-> [Machine(<<OnlyMesh>>) EXCEPT !.instanceExtensions = {"debug_utils"}],
   plain |-> [Machine(<<Full>>) EXCEPT !.lacks = {"vkDestroyDebugUtilsMessengerEXT"}],
   renamed |-> Machine(<<Khr>>)]

AnyInstance == Permutations(Instances)

MCSystems == {Machines[name] : name \in SomeSystems}
=============================================================================
