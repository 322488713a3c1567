----------------------------- MODULE Initializer -----------------------------
(***************************************************************************)
(* src/initializer/: a client collects requirements in an initializer,     *)
(* which then creates an instance and finds a GPU that meets them all.     *)
(* An extension, a feature structure or a format is a name; a feature is   *)
(* <<structure, field>>; a GPU is its place in the driver's enumeration.   *)
(* Calls the code aborts on for the arguments alone (an unknown extension, *)
(* a queue count of zero, max < min) are left out.                         *)
(***************************************************************************)
EXTENDS Runtime, FiniteSetsExt, SequencesExt

CONSTANTS
  Extensions,
  InstanceExtensions,   \* the others are device extensions
  DependsOn,            \* extension -> the extensions it needs, closed
  AssociatedWith,       \* feature structure -> the extensions that define it
  SwapchainExtension,
  Maintenance1,         \* the two names of VK_*_swapchain_maintenance1
  DebugUtils,           \* vkm_getRequiredVkInstanceExtensions
  CoreFeatures,         \* what vkm_createInitializer requires
  CreateInfos,          \* vkm_initializerCreateInfo: api, preferType and veto
  WantedExtensions,     \* what clients ask for
  WantedChains,
  WantedQueues,         \* {<<role, min, max>>}
  WantedFormats,
  Surfaces,
  MaxCalls,             \* bound on the requests of a client
  LateCalls             \* requests are made also once the instance is there

Roles == <<"graphics", "compute", "transfer">>

(* DependsOn is closed (see Registry.tla), an instance extension needs only   *)
(* such, and a driver that has an extension has what it needs, as Vulkan      *)
(* demands. The features the library itself asks for are core features.      *)
(* Clients ask for queues with max at least min, or 0 for min.               *)
ASSUME StartupAssumption ==
  /\ DependsOn \in [Extensions -> SUBSET Extensions]
  /\ \A e \in Extensions :
       /\ \A d \in DependsOn[e] : DependsOn[d] \subseteq DependsOn[e]
       /\ e \in InstanceExtensions => DependsOn[e] \subseteq InstanceExtensions
  /\ \A s \in Systems : \A g \in DOMAIN s.gpus : \A e \in Extensions \intersect s.gpus[g].extensions :
       /\ DependsOn[e] \intersect InstanceExtensions \subseteq s.instanceExtensions
       /\ DependsOn[e] \ InstanceExtensions \subseteq s.gpus[g].extensions
  /\ WantedExtensions \union DebugUtils \union {SwapchainExtension} \subseteq Extensions
  /\ DebugUtils \subseteq InstanceExtensions
  /\ IsFiniteSet(Extensions)
  /\ WantedChains \union {CoreFeatures} \subseteq
       Seq([sType : DOMAIN AssociatedWith, fields : SUBSET STRING])
  /\ \A sType \in DOMAIN AssociatedWith : AssociatedWith[sType] \subseteq Extensions
  /\ \A i \in DOMAIN CoreFeatures : AssociatedWith[CoreFeatures[i].sType] = {}
  /\ \A q \in WantedQueues :
       /\ q[1] \in Range(Roles) /\ q[2] \in Nat /\ q[3] \in Nat
       /\ q[3] # 0 => q[2] <= q[3]
  /\ \A s \in Systems : \A g \in DOMAIN s.gpus :
       s.gpus[g].families \in Seq([flags : SUBSET STRING, count : Nat])

VARIABLES
  stage,                \* "none", "config", or "choosing" inside createDevice
  createInfo,
  requiredExtensions,   \* the lists of instance and of device extensions
  optionalExtensions,
  requiredFeatureChain, \* [order: structures, set: features]
  optionalFeatureChain,
  requiredFormatFeatures,
  targetSurfaces,
  queueRequirements,    \* role -> [min, max, count, family]
  calls,
  enabledInstanceExtensions,
  enabledDeviceExtensions,
  enabledFeatures,
  queueCreateInfos,     \* {[role, family, count]}
  order,                \* the GPUs as createDevice goes through them
  at,
  rejected,             \* sequence of [gpu, reasons]
  selected              \* the GPU createDevice returned, or Null

requestVars == <<createInfo, requiredExtensions, optionalExtensions, requiredFeatureChain,
                 optionalFeatureChain, requiredFormatFeatures, targetSurfaces, calls>>
foundVars == <<enabledDeviceExtensions, enabledFeatures, queueCreateInfos, queueRequirements>>
searchVars == <<stage, order, at, rejected, selected>>
runtimeVars == <<system, instanceVars, devices, stopped>>
initializerVars == <<requestVars, foundVars, searchVars, enabledInstanceExtensions>>

NoChain == [order |-> <<>>, set |-> {}]
NoQueue == [min |-> 0, max |-> 0, count |-> 0, family |-> 0]
Gpu(g) == system.gpus[g]
-----------------------------------------------------------------------------
(* featureChain::append(ptr): a structure is added once, its fields are or'ed. *)
Appended(chain, struct) ==
  [order |-> IF Contains(chain.order, struct.sType) THEN chain.order
             ELSE Append(chain.order, struct.sType),
   set |-> chain.set \union {<<struct.sType, field>> : field \in struct.fields}]

(* Fault: the other chain does not get the structure. *)
TypeIgnored(chain, sType) == chain

(* featureChain::append(sType) *)
TypeAppended(chain, sType) == Appended(chain, [sType |-> sType, fields |-> {}])

(* Fault: what an extension depends on is left to the client. *)
NamedOnly(e) == {}

(* The dependencies vkm_initializer_findExtension adds to the same list *)
Dependencies(e) == DependsOn[e]

Required(list, es) == list \union es \union UNION {Dependencies(e) : e \in es}

Optional(list, es, required) ==
  list \union (es \ required) \union UNION {Dependencies(e) : e \in es}

(* The extension a feature structure stands for, if it is only one *)
Implied(struct) ==
  IF Cardinality(AssociatedWith[struct.sType]) = 1 THEN AssociatedWith[struct.sType] ELSE {}

AppendAll(chain, structs) == FoldLeft(Appended, chain, structs)
AppendTypes(chain, structs) == FoldLeft(LAMBDA c, s : TypeAppended(c, s.sType), chain, structs)

(* vkm_initializer_findFeature and the calls it makes *)
FindFeatureIn(require, structs, rx, ox, rc, oc) ==
  LET implied == UNION {Implied(structs[i]) : i \in DOMAIN structs}
  IN  /\ requiredExtensions' = IF require THEN Required(rx, implied) ELSE rx
      /\ optionalExtensions' = IF require THEN ox ELSE Optional(ox, implied, rx)
      /\ requiredFeatureChain' = IF require THEN AppendAll(rc, structs) ELSE AppendTypes(rc, structs)
      /\ optionalFeatureChain' = IF require THEN AppendTypes(oc, structs) ELSE AppendAll(oc, structs)

(* The members an initializer starts with *)
Blank ==
  /\ requiredFormatFeatures' = {}
  /\ targetSurfaces' = {}
  /\ queueRequirements' = [role \in Range(Roles) |-> NoQueue]
  /\ enabledInstanceExtensions' = {}
  /\ enabledDeviceExtensions' = {}
  /\ enabledFeatures' = {}
  /\ queueCreateInfos' = {}
  /\ order' = <<>> /\ at' = 0 /\ rejected' = <<>> /\ selected' = Null
  /\ calls' = 0

(* vkm_createInitializer: what the library itself needs is asked for first. *)
CreateInitializer(info) ==
  /\ stage = "none"
  /\ loader
  /\ stage' = "config"
  /\ createInfo' = info
  /\ FindFeatureIn(TRUE, CoreFeatures, Required({}, DebugUtils), {}, NoChain, NoChain)
  /\ Blank
  /\ UNCHANGED runtimeVars

Request ==
  /\ stage = "config"
  /\ calls < MaxCalls
  /\ LateCalls \/ vkInstance = Null
  /\ calls' = calls + 1
  /\ UNCHANGED <<stage, createInfo, enabledInstanceExtensions, enabledDeviceExtensions,
                 enabledFeatures, queueCreateInfos, order, at, rejected, selected, runtimeVars>>

(* vkm_initializer_findExtension *)
FindExtension(require, e) ==
  /\ Request
  /\ requiredExtensions' = IF require THEN Required(requiredExtensions, {e}) ELSE requiredExtensions
  /\ optionalExtensions' = IF require THEN optionalExtensions
                           ELSE Optional(optionalExtensions, {e}, requiredExtensions)
  /\ UNCHANGED <<requiredFeatureChain, optionalFeatureChain, requiredFormatFeatures,
                 targetSurfaces, queueRequirements>>

(* vkm_initializer_findFeature *)
FindFeature(require, structs) ==
  /\ Request
  /\ FindFeatureIn(require, structs, requiredExtensions, optionalExtensions,
                   requiredFeatureChain, optionalFeatureChain)
  /\ UNCHANGED <<requiredFormatFeatures, targetSurfaces, queueRequirements>>

(* vkm_initializer_findImageFormatFeature2 *)
FindImageFormatFeature2(format) ==
  /\ Request
  /\ requiredFormatFeatures' = requiredFormatFeatures \union {format}
  /\ UNCHANGED <<requiredExtensions, optionalExtensions, requiredFeatureChain,
                 optionalFeatureChain, targetSurfaces, queueRequirements>>

(* vkm_initializer_findPresentationSupport *)
FindPresentationSupport(surface) ==
  /\ Request
  /\ targetSurfaces' = targetSurfaces \union {surface}
  /\ requiredExtensions' = Required(requiredExtensions, {SwapchainExtension})
  /\ UNCHANGED <<optionalExtensions, requiredFeatureChain, optionalFeatureChain,
                 requiredFormatFeatures, queueRequirements>>

(* vkm_initializer_findGraphicsQueue, ...ComputeQueue and ...TransferQueue  *)
FindQueue(role, min, max) ==
  /\ Request
  /\ queueRequirements' =
       [queueRequirements EXCEPT ![role].min = min, ![role].max = IF max = 0 THEN min ELSE max]
  /\ UNCHANGED <<requiredExtensions, optionalExtensions, requiredFeatureChain,
                 optionalFeatureChain, requiredFormatFeatures, targetSurfaces>>
-----------------------------------------------------------------------------
(* Fault: what is found is added to the last list. *)
EnabledOnTop(list, required, optional, have) == list \union ((required \union optional) \intersect have)

(* scanInstanceExtensions and findExtensions start from an empty list.      *)
Enabled(list, required, optional, have) == (required \union optional) \intersect have

(* scanInstanceExtensions, also called by getInstanceExtensionList *)
ScanInstanceExtensions ==
  /\ enabledInstanceExtensions' =
       Enabled(enabledInstanceExtensions, requiredExtensions \intersect InstanceExtensions,
               optionalExtensions \intersect InstanceExtensions, system.instanceExtensions)
  /\ UNCHANGED <<requestVars, foundVars, searchVars>>

(* vkm_initializer_createInstance *)
CreateInstance ==
  /\ stage = "config"
  /\ loader
  /\ ScanInstanceExtensions
  /\ \/ /\ requiredExtensions \intersect InstanceExtensions \subseteq system.instanceExtensions
        /\ \E instance \in Instances \ Alive :
             /\ made' = made \union {instance}
             /\ InitInstance(instance, TRUE, vkfns)
     \/ /\ UNCHANGED <<made, vkInstance, ownedInstance, vkfns, vkMessenger, stopped>>
  /\ UNCHANGED <<system, loader, given, lent, devices>>

-----------------------------------------------------------------------------
(* The comparator of getDevices.  It is not a strict weak order: each of two *)
(* GPUs comes before the other if one has the version, the other the memory. *)
Before(a, b) ==
  IF Gpu(a).type = createInfo.preferType /\ Gpu(b).type # createInfo.preferType THEN TRUE
  ELSE IF Gpu(b).type = createInfo.preferType /\ Gpu(a).type # createInfo.preferType THEN FALSE
  ELSE Gpu(a).api > Gpu(b).api \/ Gpu(a).vram > Gpu(b).vram

(* What a stable insertion or merge sort can leave: two GPUs end up next to *)
(* each other because they were compared and the order fits, or because     *)
(* neither comes before the other and they were in this order.              *)
Orders(gpus) ==
  {p \in SetToSeqs(gpus) : \A k \in 1 .. Len(p) - 1 :
     \/ Before(p[k], p[k + 1])
     \/ ~ Before(p[k + 1], p[k]) /\ p[k] < p[k + 1]}

(* getDevices *)
SearchOrders ==
  IF createInfo.preferType = "system" THEN {[g \in DOMAIN system.gpus |-> g]}
  ELSE Orders(DOMAIN system.gpus)

(* checkFeaturesConfig on one chain and the extension list of its name *)
ChainConfigured(chain, list) ==
  \A feature \in chain.set :
    Cardinality(AssociatedWith[feature[1]]) > 1 => AssociatedWith[feature[1]] \intersect list # {}

(* checkConfig *)
Configured ==
  /\ ChainConfigured(requiredFeatureChain, requiredExtensions)
  /\ ChainConfigured(optionalFeatureChain, optionalExtensions)
  /\ \E role \in Range(Roles) : queueRequirements[role].max > 0

(* vkm_initializer_createDevice, up to its loop *)
CreateDevice ==
  /\ stage = "config"
  /\ Initialized
  /\ Cardinality(devices) < MaxDevices
  /\ selected' = Null
  /\ \/ /\ ~ Configured
        /\ stopped' = "fatal"
        /\ UNCHANGED <<stage, order, at, rejected>>
     \/ /\ Configured
        /\ stage' = "choosing"
        /\ order' \in SearchOrders
        /\ at' = 1
        /\ rejected' = <<>>
        /\ UNCHANGED stopped
  /\ UNCHANGED <<requestVars, foundVars, enabledInstanceExtensions, system, instanceVars, devices>>
-----------------------------------------------------------------------------
(* findProperties *)
PropertiesFound(g) == Gpu(g).api >= createInfo.api

(* findFeatures, into a chain that is reset first *)
FeaturesOf(g) ==
  (requiredFeatureChain.set \union optionalFeatureChain.set) \intersect Gpu(g).features

FeaturesFound(g) == requiredFeatureChain.set \subseteq Gpu(g).features

(* findExtensions *)
DeviceExtensions(list) == list \ InstanceExtensions
ExtensionsFound(g) == DeviceExtensions(requiredExtensions) \subseteq Gpu(g).extensions

(* findFormats *)
FormatsFound(g) == requiredFormatFeatures \subseteq Gpu(g).formats

Want == [graphics |-> {"graphics", "compute"}, compute |-> {"compute"}, transfer |-> {"transfer"}]

Avoid == [graphics |-> {}, compute |-> {"graphics"}, transfer |-> {"graphics", "compute"}]

(* The families findQueue may take the first of *)
Fitting(g, role) ==
  {f \in DOMAIN Gpu(g).families :
     /\ Want[role] \subseteq Gpu(g).families[f].flags
     /\ Avoid[role] \intersect Gpu(g).families[f].flags = {}
     /\ Gpu(g).families[f].count >= queueRequirements[role].min}

Lacking(g, role) == queueRequirements[role].max > 0 /\ Fitting(g, role) = {}

(* The roles findQueues comes to before it gives up *)
Looked(g) ==
  {Roles[i] : i \in {k \in DOMAIN Roles : \A j \in 1 .. k - 1 : ~ Lacking(g, Roles[j])}}

(* vkm::clamp of what the family has *)
Clamp(count, min, max) == IF count < min THEN min ELSE IF count > max THEN max ELSE count

(* findQueue *)
QueueFound(g, role, requirements) ==
  IF requirements.max = 0 \/ Lacking(g, role) THEN [requirements EXCEPT !.count = 0]
  ELSE LET family == Min(Fitting(g, role))
       IN  [requirements EXCEPT
              !.family = family,
              !.count = Clamp(Gpu(g).families[family].count, requirements.min, requirements.max)]

QueuesOf(g) ==
  [role \in DOMAIN queueRequirements |->
     IF role \in Looked(g) THEN QueueFound(g, role, queueRequirements[role])
     ELSE queueRequirements[role]]

QueueInfos(g) ==
  {[role |-> role, family |-> QueuesOf(g)[role].family, count |-> QueuesOf(g)[role].count] :
     role \in {r \in Looked(g) : queueRequirements[r].max > 0 /\ ~ Lacking(g, r)}}

(* A queue for every surface *)
Presents(g) ==
  \A surface \in targetSurfaces : \E q \in QueueInfos(g) : surface \in Gpu(g).presents[q.family]

QueuesFound(g) == (\A role \in Range(Roles) : ~ Lacking(g, role)) /\ Presents(g)

(* The checks of checkDevice that fail; all of them are made. *)
Failures(g) ==
  {check \in {"findProperties", "findFeatures", "findExtensions", "findFormats", "findQueues"} :
     ~ CASE check = "findProperties" -> PropertiesFound(g)
         [] check = "findFeatures" -> FeaturesFound(g)
         [] check = "findExtensions" -> ExtensionsFound(g)
         [] check = "findFormats" -> FormatsFound(g)
         [] check = "findQueues" -> QueuesFound(g)}

(* checkOptionals *)
OptionalFeatures(extensions) ==
  IF extensions \intersect Maintenance1 # {} THEN {"extSwapchainMaint1"} ELSE {}

(* Fault: the GPU that is refused stays without an entry. *)
RejectSilently(g, reasons) == rejected

Reject(g, reasons) == Append(rejected, [gpu |-> g, reasons |-> reasons])

(* One turn of createDevice's loop; that findFeatures aborts where the two    *)
(* chains differ is ruled out by ChainsInStep.                               *)
TryDevice ==
  /\ stage = "choosing"
  /\ at <= Len(order)
  /\ LET g == order[at]
     IN  \/ /\ g \in createInfo.veto
            /\ rejected' = Reject(g, {"Vetoed"})
            /\ at' = at + 1
            /\ UNCHANGED <<stage, selected, foundVars, devices, stopped>>
         \/ /\ g \notin createInfo.veto
            /\ requiredFeatureChain.order = optionalFeatureChain.order
            /\ enabledFeatures' = FeaturesOf(g)
            /\ enabledDeviceExtensions' =
                 Enabled(enabledDeviceExtensions, DeviceExtensions(requiredExtensions),
                         DeviceExtensions(optionalExtensions), Gpu(g).extensions)
            /\ queueRequirements' = QueuesOf(g)
            /\ queueCreateInfos' = QueueInfos(g)
            /\ \/ /\ Failures(g) # {} \/ ~ Gpu(g).creates
                  /\ rejected' = Reject(g, IF Failures(g) # {} THEN Failures(g) ELSE {"vkCreateDevice"})
                  /\ at' = at + 1
                  /\ UNCHANGED <<stage, selected, devices, stopped>>
               \/ /\ Failures(g) = {}
                  /\ Gpu(g).creates
                  /\ InitDevice(g, TRUE, OptionalFeatures(enabledDeviceExtensions'))
                  /\ selected' = g
                  /\ stage' = "config"
                  /\ UNCHANGED <<at, rejected>>
  /\ UNCHANGED <<requestVars, order, enabledInstanceExtensions, system, instanceVars>>

(* VK_ERROR_INITIALIZATION_FAILED *)
NoDevice ==
  /\ stage = "choosing"
  /\ at > Len(order)
  /\ stage' = "config"
  /\ UNCHANGED <<requestVars, foundVars, order, at, rejected, selected,
                 enabledInstanceExtensions, runtimeVars>>

(* vkm_destroyInitializer *)
DestroyInitializer ==
  /\ stage = "config"
  /\ stage' = "none"
  /\ createInfo' = Null
  /\ requiredExtensions' = {} /\ optionalExtensions' = {}
  /\ requiredFeatureChain' = NoChain /\ optionalFeatureChain' = NoChain
  /\ Blank
  /\ UNCHANGED runtimeVars
-----------------------------------------------------------------------------
InitializerInit ==
  /\ RuntimeInit
  /\ stage = "none"
  /\ createInfo = Null
  /\ requiredExtensions = {} /\ optionalExtensions = {}
  /\ requiredFeatureChain = NoChain /\ optionalFeatureChain = NoChain
  /\ requiredFormatFeatures = {}
  /\ targetSurfaces = {}
  /\ queueRequirements = [role \in Range(Roles) |-> NoQueue]
  /\ calls = 0
  /\ enabledInstanceExtensions = {} /\ enabledDeviceExtensions = {}
  /\ enabledFeatures = {}
  /\ queueCreateInfos = {}
  /\ order = <<>> /\ at = 0 /\ rejected = <<>> /\ selected = Null

Requests ==
  \/ \E require \in BOOLEAN, e \in WantedExtensions : FindExtension(require, e)
  \/ \E require \in BOOLEAN, structs \in WantedChains : FindFeature(require, structs)
  \/ \E format \in WantedFormats : FindImageFormatFeature2(format)
  \/ \E surface \in Surfaces : FindPresentationSupport(surface)
  \/ \E q \in WantedQueues : FindQueue(q[1], q[2], q[3])

Aborted == stopped # "no" /\ UNCHANGED <<initializerVars, runtimeVars>>

Going ==
  /\ stopped = "no"
  /\ \/ \E info \in CreateInfos : CreateInitializer(info)
     \/ Requests
     \/ CreateInstance
     \/ CreateDevice
     \/ TryDevice
     \/ NoDevice
     \/ DestroyInitializer
     \/ InstanceNext /\ stage = "none" /\ UNCHANGED initializerVars
     \/ DeviceNext /\ stage # "choosing" /\ UNCHANGED initializerVars

InitializerNext == Going \/ Aborted

InitializerSpec == InitializerInit /\ [][InitializerNext]_<<initializerVars, runtimeVars>>
-----------------------------------------------------------------------------
(* Type invariant *)
StartupTypeOK ==
  /\ RuntimeTypeOK
  /\ stage \in {"none", "config", "choosing"}
  /\ createInfo \in CreateInfos \union {Null}
  /\ requiredExtensions \subseteq Extensions /\ optionalExtensions \subseteq Extensions
  /\ \A role \in Range(Roles) :
       queueRequirements[role] \in [min : Nat, max : Nat, count : Nat, family : Nat]
  /\ selected \in DOMAIN system.gpus \union {Null}
  /\ stage = "choosing" => at \in 1 .. Len(order) + 1

(* Both feature chains hold the same structures in the same order, which    *)
(* findFeatures walks side by side and aborts otherwise.                    *)
ChainsInStep == requiredFeatureChain.order = optionalFeatureChain.order

(* GPUs of the preferred type are tried first (vkm.h: "searches discrete    *)
(* gpus first"), although the comparator is no order on the others.         *)
PreferredFirst ==
  stage = "choosing" /\ createInfo.preferType # "system" =>
    \A i, j \in DOMAIN order :
      i < j /\ Gpu(order[j]).type = createInfo.preferType => Gpu(order[i]).type = createInfo.preferType

Selects == selected = Null /\ selected' # Null

(* A device is created with all that was required and with nothing its GPU  *)
(* lacks, whatever the GPUs refused before it had.                          *)
DeviceAsRequired ==
  [][Selects =>
       LET g == Gpu(selected') IN
       /\ requiredFeatureChain.set \subseteq enabledFeatures' /\ enabledFeatures' \subseteq g.features
       /\ requiredExtensions \ InstanceExtensions \subseteq enabledDeviceExtensions'
       /\ enabledDeviceExtensions' \subseteq g.extensions
       /\ requiredFormatFeatures \subseteq g.formats]_initializerVars

(* Its queues are of one family for each role (a family may be named only   *)
(* once), as many as asked for and no more than there are, and every        *)
(* surface has one that can present to it.                                  *)
QueuesAsRequired ==
  [][Selects =>
       LET g == Gpu(selected') IN
       /\ \A p, q \in queueCreateInfos' : p.family = q.family => p = q
       /\ \A role \in Range(Roles) : queueRequirements[role].max > 0 =>
            \E q \in queueCreateInfos' :
              /\ q.role = role
              /\ q.count \in queueRequirements[role].min .. queueRequirements[role].max
              /\ q.count <= g.families[q.family].count
       /\ \A surface \in targetSurfaces :
            \E q \in queueCreateInfos' : surface \in g.presents[q.family]]_initializerVars

(* The device is made from the first GPU nothing is held against, and       *)
(* getRejectReasons names each one before it with a reason.                 *)
FirstThatFits ==
  [][Selects =>
       /\ [i \in DOMAIN rejected' |-> rejected'[i].gpu] = SubSeq(order, 1, Len(rejected'))
       /\ order[Len(rejected') + 1] = selected'
       /\ \A i \in DOMAIN rejected' : rejected'[i].reasons # {}]_initializerVars

(* What an enabled device extension depends on is enabled, on the device or *)
(* on the instance (README: "Automatic vulkan extension dependencies        *)
(* injection").                                                             *)
DependenciesEnabled ==
  [][Selects /\ vkInstance \in made =>
       \A e \in enabledDeviceExtensions' :
         DependsOn[e] \subseteq enabledDeviceExtensions' \union enabledInstanceExtensions]_initializerVars

(* A feature is enabled only with an extension that defines it.             *)
FeaturesBacked ==
  [][Selects =>
       \A feature \in enabledFeatures' : LET es == AssociatedWith[feature[1]] IN
         es # {} => es \intersect enabledDeviceExtensions' # {}]_initializerVars

(* Together: the client's requests and the order the GPUs are tried in stay   *)
(* consistent through any sequence of vkm_initializer_* calls.                *)
RequestsSound == StartupTypeOK /\ ChainsInStep /\ PreferredFirst

(* Together: the device that comes out fits the request, (createDevice)       *)
DeviceFits == DeviceAsRequired /\ QueuesAsRequired

(* and can use all it was created with (findExtensions, findFeatures).        *)
EnabledUsable == DependenciesEnabled /\ FeaturesBacked
=============================================================================
