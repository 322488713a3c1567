---------------------------- MODULE StartupProofs ----------------------------
(***************************************************************************)
(* Proofs about start-up: the library's process-wide state stays sound     *)
(* over any sequence of calls, and the device an initializer creates is    *)
(* the first that meets every request, with all it was asked for and with  *)
(* nothing it lacks.                                                       *)
(***************************************************************************)
EXTENDS Initializer, WellFoundedInduction, FiniteSetTheorems, SequenceTheorems, TLAPS

(* What the library stores is of the right kind.                            *)
RuntimeTypes ==
  /\ RuntimeTypeOK
  /\ \A device \in devices :
       /\ device.gpu \in DOMAIN system.gpus
       /\ device.uuid = GenerateUUID(device.gpu, device.gpu - 1)

RuntimeInvariant == RuntimeTypes /\ ProcsCurrent /\ InstancesOwned

(* What clients asked for, by queues.                                       *)
Requested ==
  /\ system \in Systems
  /\ createInfo \in CreateInfos \union {Null}
  /\ requiredExtensions \subseteq Extensions /\ optionalExtensions \subseteq Extensions
  /\ queueRequirements \in [Range(Roles) -> [min : Nat, max : Nat, count : Nat, family : Nat]]
  /\ \A role \in Range(Roles) :
       queueRequirements[role].max > 0 => queueRequirements[role].min <= queueRequirements[role].max
  /\ selected \in DOMAIN system.gpus \union {Null}

(* What createDevice may hold against a GPU *)
Reasons == {"Vetoed", "vkCreateDevice", "findProperties", "findFeatures", "findExtensions",
            "findFormats", "findQueues"}

(* createDevice has gone through the GPUs before `at`, and rejected them.   *)
Searching ==
  /\ stage \in {"none", "config", "choosing"}
  /\ stage = "choosing" =>
       /\ order \in Seq(DOMAIN system.gpus)
       /\ at \in 1 .. Len(order) + 1
       /\ rejected \in Seq([gpu : DOMAIN system.gpus, reasons : SUBSET Reasons])
       /\ Len(rejected) = at - 1
       /\ \A i \in 1 .. at - 1 : rejected[i].gpu = order[i] /\ rejected[i].reasons # {}

(* Each list holds what its extensions depend on.                           *)
Closed ==
  /\ \A e \in requiredExtensions : DependsOn[e] \subseteq requiredExtensions
  /\ \A e \in optionalExtensions : DependsOn[e] \subseteq optionalExtensions

(* With an instance an initializer made, the extensions it was asked to have  *)
(* are known; an initializer begun later has asked for none of a device.    *)
Scanned ==
  /\ made \subseteq Instances
  /\ stage # "none" /\ vkInstance \in made =>
       LET asked == requiredExtensions \union optionalExtensions IN
       \/ asked \subseteq InstanceExtensions
       \/ asked \intersect InstanceExtensions \intersect system.instanceExtensions
            \subseteq enabledInstanceExtensions

StartupInvariant == Requested /\ Searching /\ PreferredFirst /\ Closed
-----------------------------------------------------------------------------
(* A function is looked up for the instance in use, or stays what it was.   *)
LEMMA InitInstanceCurrent ==
  ASSUME NEW instance \in Instances, NEW owned \in BOOLEAN, NEW table \in {vkfns, NoFns},
         RuntimeInvariant, stopped = "no", InitInstance(instance, owned, table)
  PROVE  /\ vkfns' \in [Fns -> Instances \union {Null}]
         /\ vkInstance' \in Instances \union {Null}
         /\ vkMessenger' \in Instances \union {Null}
         /\ ownedInstance' \in BOOLEAN
         /\ stopped' \in {"no", "fatal"}
         /\ ProcsCurrent'
         /\ stopped' = "no" => vkInstance = Null /\ vkInstance' = instance /\ ownedInstance' = owned
<1>1. /\ vkfns \in [Fns -> Instances \union {Null}]
      /\ \A fn \in Fns : vkfns[fn] \in {vkInstance, Null}
      /\ vkMessenger \in {vkInstance, Null}
      /\ vkInstance \in Instances \union {Null}
      /\ ownedInstance \in BOOLEAN
  BY DEF RuntimeInvariant, RuntimeTypes, RuntimeTypeOK, ProcsCurrent
<1>2. /\ table \in [Fns -> Instances \union {Null}]
      /\ \A fn \in Fns : table[fn] \in {vkInstance, Null}
  BY <1>1 DEF NoFns
<1>3. CASE vkInstance # Null /\ stopped' = "fatal" /\ vkfns' = table
           /\ UNCHANGED <<vkInstance, ownedInstance, vkMessenger>>
  BY <1>1, <1>2, <1>3 DEF ProcsCurrent
<1>4. CASE /\ vkInstance = Null
           /\ vkInstance' = instance
           /\ ownedInstance' = owned
           /\ vkfns' = ProcAddrs(table, Fns, instance)
           /\ vkMessenger' \in IF \E fn \in Fns : vkfns'[fn] = Null
                               THEN {vkMessenger} ELSE {instance, Null}
           /\ UNCHANGED stopped
  <2>1. /\ ProcAddrs(table, Fns, instance) \in [Fns -> Instances \union {Null}]
        /\ \A fn \in Fns : ProcAddrs(table, Fns, instance)[fn] \in {instance, Null}
    BY <1>2, <1>4 DEF ProcAddrs, GetInstanceProcAddr
  <2>2. vkMessenger = Null
    BY <1>1, <1>4
  <2>3. vkMessenger' \in {instance, Null}
    <3>1. CASE \E fn \in Fns : vkfns'[fn] = Null
      BY <1>4, <2>2, <3>1
    <3>2. CASE ~ \E fn \in Fns : vkfns'[fn] = Null
      BY <1>4, <3>2
    <3>. QED BY <3>1, <3>2
  <2>4. ProcsCurrent'
    BY <2>1, <2>3, <1>4 DEF ProcsCurrent
  <2>5. /\ vkfns' \in [Fns -> Instances \union {Null}]
        /\ vkInstance' \in Instances \union {Null}
        /\ vkMessenger' \in Instances \union {Null}
        /\ ownedInstance' \in BOOLEAN
        /\ stopped' \in {"no", "fatal"}
    BY <2>1, <2>3, <1>4
  <2>. QED BY <2>4, <2>5, <1>4
<1>5. \/ /\ vkInstance # Null
         /\ stopped' = "fatal"
         /\ vkfns' = table
         /\ UNCHANGED <<vkInstance, ownedInstance, vkMessenger>>
      \/ /\ vkInstance = Null
         /\ vkInstance' = instance
         /\ ownedInstance' = owned
         /\ vkfns' = ProcAddrs(table, Fns, instance)
         /\ vkMessenger' \in IF \E fn \in Fns : vkfns'[fn] = Null
                             THEN {vkMessenger} ELSE {instance, Null}
         /\ UNCHANGED stopped
  BY DEF InitInstance
<1>. QED
  BY <1>3, <1>4, <1>5

(* While no instance is in use, nothing made or given is alive.             *)
LEMMA NoneInUse ==
  ASSUME RuntimeInvariant, stopped = "no", vkInstance = Null
  PROVE  made = {} /\ given = {}
BY RuntimeAssumption DEF RuntimeInvariant, RuntimeTypes, RuntimeTypeOK, InstancesOwned

LEMMA InitGivenKeeps ==
  ASSUME RuntimeInvariant, stopped = "no", NEW instance \in Instances, NEW gainOwnership \in BOOLEAN,
         InitGiven(instance, gainOwnership)
  PROVE  RuntimeInvariant'
<1>1. /\ vkInstance = Null
      /\ given' = IF gainOwnership THEN given \union {instance} ELSE given
      /\ lent' = IF gainOwnership THEN lent \ {instance} ELSE lent \union {instance}
      /\ loader' = TRUE
      /\ InitInstance(instance, gainOwnership, NoFns)
      /\ UNCHANGED <<system, made, devices>>
  BY DEF InitGiven, EmptyTable
<1>2. made = {} /\ given = {}
  BY <1>1, NoneInUse
<1>3. /\ vkfns' \in [Fns -> Instances \union {Null}]
      /\ vkInstance' \in Instances \union {Null}
      /\ vkMessenger' \in Instances \union {Null}
      /\ ownedInstance' \in BOOLEAN
      /\ stopped' \in {"no", "fatal"}
      /\ ProcsCurrent'
      /\ stopped' = "no" => vkInstance' = instance /\ ownedInstance' = gainOwnership
  BY <1>1, InitInstanceCurrent
<1>4. InstancesOwned'
  BY <1>1, <1>2, <1>3 DEF InstancesOwned
<1>5. RuntimeTypes'
  BY <1>1, <1>3 DEF RuntimeInvariant, RuntimeTypes, RuntimeTypeOK, GenerateUUID
<1>. QED
  BY <1>3, <1>4, <1>5 DEF RuntimeInvariant

LEMMA InitLaterKeeps ==
  ASSUME RuntimeInvariant, stopped = "no", InitAgain = FALSE, InitLater
  PROVE  RuntimeInvariant'
<1>1. vkInstance = Null /\ made = {} /\ given = {}
  BY NoneInUse DEF InitLater
<1>2. /\ loader' = TRUE /\ vkfns' = NoFns /\ ownedInstance' = FALSE
      /\ UNCHANGED <<system, vkInstance, vkMessenger, made, given, lent, devices, stopped>>
  BY DEF InitLater, EmptyTable
<1>3. RuntimeTypes'
  BY <1>2 DEF RuntimeInvariant, RuntimeTypes, RuntimeTypeOK, NoFns, GenerateUUID
<1>4. ProcsCurrent'
  BY <1>2 DEF RuntimeInvariant, ProcsCurrent, NoFns
<1>5. InstancesOwned'
  BY <1>1, <1>2 DEF InstancesOwned
<1>. QED
  BY <1>3, <1>4, <1>5 DEF RuntimeInvariant

LEMMA ShutdownKeeps ==
  ASSUME RuntimeInvariant, stopped = "no", Shutdown
  PROVE  RuntimeInvariant'
<1>1. CASE stopped' = "trap" /\ UNCHANGED <<system, devices, instanceVars>>
  BY <1>1 DEF RuntimeInvariant, RuntimeTypes, RuntimeTypeOK, ProcsCurrent, InstancesOwned,
              instanceVars, GenerateUUID
<1>2. CASE /\ LET destroyed == IF ownedInstance THEN {vkInstance} ELSE {}
              IN  /\ made' = made \ destroyed
                  /\ given' = given \ destroyed
                  /\ lent' = lent \ destroyed
           /\ loader' = FALSE /\ vkInstance' = Null /\ vkMessenger' = Null /\ vkfns' = NoFns
           /\ UNCHANGED <<system, devices, ownedInstance, stopped>>
  <2>1. RuntimeTypes'
    BY <1>2 DEF RuntimeInvariant, RuntimeTypes, RuntimeTypeOK, NoFns, GenerateUUID
  <2>2. ProcsCurrent'
    BY <1>2 DEF ProcsCurrent, NoFns
  <2>3. made' = {} /\ given' = {}
    BY <1>2 DEF RuntimeInvariant, InstancesOwned
  <2>4. vkInstance' \notin lent'
    BY <1>2, RuntimeAssumption DEF RuntimeInvariant, RuntimeTypes, RuntimeTypeOK
  <2>. QED BY <2>1, <2>2, <2>3, <2>4 DEF RuntimeInvariant, InstancesOwned
<1>. QED
  BY <1>1, <1>2 DEF Shutdown, EmptyTable

LEMMA DestroyLentKeeps ==
  ASSUME RuntimeInvariant, NEW instance \in Instances, DestroyLent(instance)
  PROVE  RuntimeInvariant'
BY DEF DestroyLent, RuntimeInvariant, RuntimeTypes, RuntimeTypeOK, ProcsCurrent, InstancesOwned,
       GenerateUUID

(* The enumeration has each handle at one place.                            *)
LEMMA IndexOfGpu ==
  ASSUME system \in Systems, NEW gpu \in DOMAIN system.gpus
  PROVE  IndexOf(gpu) = gpu - 1
BY RuntimeAssumption DEF IndexOf

(* vkm_initDevice adds a device whose identifier is that of its GPU.        *)
LEMMA InitDeviceKeeps ==
  ASSUME RuntimeInvariant, stopped = "no", NEW gpu \in DOMAIN system.gpus,
         NEW gainOwnership \in BOOLEAN, NEW optional,
         InitDevice(gpu, gainOwnership, optional), UNCHANGED <<system, instanceVars>>
  PROVE  RuntimeInvariant'
<1>1. stopped' \in {"no", "fatal"}
  BY DEF InitDevice
<1>2. \A device \in devices' :
        \/ device \in devices
        \/ device.gpu = gpu /\ device.uuid = GenerateUUID(gpu, IndexOf(gpu))
  BY DEF InitDevice
<1>3. IndexOf(gpu) = gpu - 1
  BY IndexOfGpu DEF RuntimeInvariant, RuntimeTypes, RuntimeTypeOK
<1>4. RuntimeTypeOK' /\ ProcsCurrent' /\ InstancesOwned'
  BY <1>1 DEF RuntimeInvariant, RuntimeTypes, RuntimeTypeOK, ProcsCurrent, InstancesOwned, instanceVars
<1>5. \A device \in devices' :
        /\ device.gpu \in DOMAIN system'.gpus
        /\ device.uuid = GenerateUUID(device.gpu, device.gpu - 1)'
  BY <1>2, <1>3 DEF RuntimeInvariant, RuntimeTypes, GenerateUUID
<1>. QED
  BY <1>4, <1>5 DEF RuntimeInvariant, RuntimeTypes, GenerateUUID

(* vkm_initializer_createInstance: the instance is made, and in use. With    *)
(* another in use, which this aborts on, no instance alive is the library's. *)
LEMMA CreateInstanceKeeps ==
  ASSUME RuntimeInvariant, stopped = "no", CreateInstance
  PROVE  RuntimeInvariant'
<1>0. UNCHANGED <<system, loader, given, lent, devices>>
  BY DEF CreateInstance
<1>1. ASSUME NEW instance \in Instances \ Alive, made' = made \union {instance},
             InitInstance(instance, TRUE, vkfns)
      PROVE  RuntimeInvariant'
  <2>1. /\ vkfns' \in [Fns -> Instances \union {Null}]
        /\ vkInstance' \in Instances \union {Null}
        /\ vkMessenger' \in Instances \union {Null}
        /\ ownedInstance' \in BOOLEAN
        /\ stopped' \in {"no", "fatal"}
        /\ ProcsCurrent'
        /\ stopped' = "no" => vkInstance = Null /\ vkInstance' = instance /\ ownedInstance' = TRUE
    BY <1>1, InitInstanceCurrent
  <2>2. InstancesOwned'
    <3>. SUFFICES ASSUME stopped' = "no"
                  PROVE  /\ \A i \in made' \union given' : vkInstance' = i /\ ownedInstance'
                         /\ vkInstance' \notin lent'
      BY DEF InstancesOwned
    <3>1. made = {} /\ given = {}
      BY <2>1, NoneInUse
    <3>. QED BY <1>0, <1>1, <2>1, <3>1 DEF Alive
  <2>3. RuntimeTypes'
    BY <1>0, <1>1, <2>1 DEF RuntimeInvariant, RuntimeTypes, RuntimeTypeOK, GenerateUUID
  <2>. QED BY <2>1, <2>2, <2>3 DEF RuntimeInvariant
<1>2. CASE UNCHANGED <<made, vkInstance, ownedInstance, vkfns, vkMessenger, stopped>>
  BY <1>0, <1>2 DEF RuntimeInvariant, RuntimeTypes, RuntimeTypeOK, ProcsCurrent, InstancesOwned,
                    GenerateUUID
<1>. QED
  BY <1>1, <1>2 DEF CreateInstance

(* What leaves the library's variables alone.                               *)
LEMMA RuntimeUnchanged ==
  ASSUME RuntimeInvariant, UNCHANGED <<system, instanceVars>>,
         devices' \subseteq devices, stopped' \in {stopped, "fatal"}
  PROVE  RuntimeInvariant'
BY DEF RuntimeInvariant, RuntimeTypes, RuntimeTypeOK, ProcsCurrent, InstancesOwned, instanceVars,
       GenerateUUID

LEMMA RuntimeInitially == InitializerInit => RuntimeInvariant
BY DEF InitializerInit, RuntimeInit, RuntimeInvariant, RuntimeTypes, RuntimeTypeOK, ProcsCurrent,
       InstancesOwned, NoFns

LEMMA RuntimeStep ==
  ASSUME InitAgain = FALSE, RuntimeInvariant, Searching,
         [InitializerNext]_<<initializerVars, runtimeVars>>
  PROVE  RuntimeInvariant'
<1>1. CASE Aborted \/ UNCHANGED <<initializerVars, runtimeVars>>
  BY <1>1, RuntimeUnchanged DEF Aborted, runtimeVars
<1>2. CASE Going
  <2>. stopped = "no"
    BY <1>2 DEF Going
  <2>1. ASSUME NEW info \in CreateInfos, CreateInitializer(info)
        PROVE  RuntimeInvariant'
    BY <2>1, RuntimeUnchanged DEF CreateInitializer, runtimeVars
  <2>2. CASE Requests
    <3>1. UNCHANGED runtimeVars
      BY <2>2 DEF Requests, FindExtension, FindFeature, FindImageFormatFeature2,
                  FindPresentationSupport, FindQueue, Request
    <3>. QED BY <3>1, RuntimeUnchanged DEF runtimeVars
  <2>3. CASE CreateInstance
    BY <2>3, CreateInstanceKeeps
  <2>4. CASE CreateDevice
    BY <2>4, RuntimeUnchanged DEF CreateDevice
  <2>5. CASE TryDevice
    <3>. DEFINE g == order[at]
    <3>1. UNCHANGED <<system, instanceVars>>
      BY <2>5 DEF TryDevice
    <3>2. \/ UNCHANGED <<devices, stopped>>
          \/ InitDevice(g, TRUE, OptionalFeatures(enabledDeviceExtensions'))
      BY <2>5 DEF TryDevice
    <3>3. g \in DOMAIN system.gpus
      BY <2>5 DEF TryDevice, Searching
    <3>. HIDE DEF g
    <3>. QED BY <3>1, <3>2, <3>3, RuntimeUnchanged, InitDeviceKeeps
  <2>6. CASE NoDevice
    BY <2>6, RuntimeUnchanged DEF NoDevice, runtimeVars
  <2>7. CASE DestroyInitializer
    BY <2>7, RuntimeUnchanged DEF DestroyInitializer, runtimeVars
  <2>8. CASE InstanceNext
    BY <2>8, InitGivenKeeps, InitLaterKeeps, ShutdownKeeps, DestroyLentKeeps DEF InstanceNext
  <2>9. CASE DeviceNext
    <3>1. ASSUME NEW gpu \in DOMAIN system.gpus, NEW gainOwnership \in BOOLEAN,
                 InitDeviceGiven(gpu, gainOwnership)
          PROVE  RuntimeInvariant'
      BY <3>1, InitDeviceKeeps DEF InitDeviceGiven
    <3>2. ASSUME NEW device \in devices, DestroyDevice(device)
          PROVE  RuntimeInvariant'
      BY <3>2, RuntimeUnchanged DEF DestroyDevice
    <3>. QED BY <2>9, <3>1, <3>2 DEF DeviceNext
  <2>. QED BY <1>2, <2>1, <2>2, <2>3, <2>4, <2>5, <2>6, <2>7, <2>8, <2>9 DEF Going
<1>. QED
  BY <1>1, <1>2 DEF InitializerNext
-----------------------------------------------------------------------------
(* The least of a nonempty set of numbers exists.                           *)
LEMMA LeastNumber ==
  ASSUME NEW S \in SUBSET Nat, S # {}
  PROVE  \E i \in S : \A j \in S : i <= j
<1>1. PICK i \in S : \A j \in S : ~ (<<j, i>> \in OpToRel(<, Nat))
  BY NatLessThanWellFounded, WFMin
<1>2. ASSUME NEW j \in S, j < i PROVE FALSE
  <2>1. <<j, i>> \in Nat \X Nat
    OBVIOUS
  <2>2. <<j, i>> \in OpToRel(<, Nat)
    BY <2>1, <1>2 DEF OpToRel
  <2>. QED BY <2>2, <1>1
<1>. QED
  BY <1>2

LEMMA RolesAre == Range(Roles) = {"graphics", "compute", "transfer"}
BY DEF Range, Roles

(* The GPUs are gone through in an order of all of them, those of the       *)
(* preferred type first: between one that is not and a later one that is,   *)
(* some neighbours would be the wrong way round.                            *)
LEMMA OrderOfGpus ==
  ASSUME system \in Systems, NEW p \in SearchOrders
  PROVE  p \in Seq(DOMAIN system.gpus)
<1>1. Len(system.gpus) \in Nat /\ DOMAIN system.gpus = 1 .. Len(system.gpus)
  BY RuntimeAssumption
<1>2. CASE p = [g \in DOMAIN system.gpus |-> g]
  BY <1>1, <1>2
<1>3. CASE p \in Orders(DOMAIN system.gpus)
  <2>1. Cardinality(DOMAIN system.gpus) = Len(system.gpus)
    BY <1>1, FS_Interval
  <2>2. p \in [1 .. Len(system.gpus) -> DOMAIN system.gpus]
    BY <1>1, <1>3, <2>1 DEF Orders, SetToSeqs
  <2>. QED BY <1>1, <2>2
<1>. QED
  BY <1>2, <1>3 DEF SearchOrders

LEMMA PreferredComeFirst ==
  ASSUME system \in Systems, createInfo.preferType # "system", NEW p \in SearchOrders,
         NEW i \in DOMAIN p, NEW j \in DOMAIN p, i < j,
         Gpu(p[j]).type = createInfo.preferType
  PROVE  Gpu(p[i]).type = createInfo.preferType
<1>. DEFINE Preferred(k) == Gpu(p[k]).type = createInfo.preferType
            later == {k \in i + 1 .. j : Preferred(k)}
<1>1. p \in Seq(DOMAIN system.gpus) /\ p \in Orders(DOMAIN system.gpus)
  BY OrderOfGpus DEF SearchOrders
<1>. SUFFICES ASSUME ~ Preferred(i) PROVE FALSE
  OBVIOUS
<1>2. i \in 1 .. Len(p) /\ j \in 1 .. Len(p)
  BY <1>1, LenProperties
<1>3. later \in SUBSET Nat /\ j \in later
  BY <1>2
<1>4. \E k \in later : \A l \in later : k <= l
  <2>. HIDE DEF later
  <2>. QED BY <1>3, LeastNumber
<1>5. PICK k \in later : \A l \in later : k <= l
  BY <1>4
<1>6. k - 1 \in 1 .. Len(p) - 1 /\ ~ Preferred(k - 1) /\ Preferred(k)
  <2>1. k \in i + 1 .. j /\ Preferred(k)
    BY <1>5
  <2>2. CASE k - 1 = i
    BY <1>2, <2>1, <2>2
  <2>3. CASE k - 1 \in i + 1 .. j
    <3>1. k - 1 \notin later
      BY <1>2, <1>5, <2>1
    <3>. QED BY <1>2, <2>1, <2>3, <3>1
  <2>. QED BY <1>2, <2>1, <2>2, <2>3
<1>7. /\ Before(p[k], p[k - 1])
      /\ ~ Before(p[k - 1], p[k])
  BY <1>6 DEF Before
<1>8. \/ Before(p[k - 1], p[k - 1 + 1])
      \/ ~ Before(p[k - 1 + 1], p[k - 1])
  BY <1>1, <1>6 DEF Orders
<1>9. k - 1 + 1 = k
  BY <1>2, <1>5
<1>. QED
  BY <1>7, <1>8, <1>9
-----------------------------------------------------------------------------
(* Asking for extensions keeps the lists closed.                            *)
LEMMA RequiredClosed ==
  ASSUME NEW list \in SUBSET Extensions, NEW es \in SUBSET Extensions,
         \A e \in list : DependsOn[e] \subseteq list
  PROVE  /\ Required(list, es) \subseteq Extensions
         /\ \A e \in Required(list, es) : DependsOn[e] \subseteq Required(list, es)
         /\ es \subseteq InstanceExtensions /\ list \subseteq InstanceExtensions
              => Required(list, es) \subseteq InstanceExtensions
BY StartupAssumption DEF Required, Dependencies

LEMMA OptionalClosed ==
  ASSUME NEW list \in SUBSET Extensions, NEW es \in SUBSET Extensions, NEW required,
         \A e \in list : DependsOn[e] \subseteq list
  PROVE  /\ Optional(list, es, required) \subseteq Extensions
         /\ \A e \in Optional(list, es, required) : DependsOn[e] \subseteq Optional(list, es, required)
BY StartupAssumption DEF Optional, Dependencies

LEMMA ImpliedTyped ==
  ASSUME NEW structs \in WantedChains \union {CoreFeatures}
  PROVE  UNION {Implied(structs[i]) : i \in DOMAIN structs} \subseteq Extensions
<1>1. structs \in Seq([sType : DOMAIN AssociatedWith, fields : SUBSET STRING])
  BY StartupAssumption
<1>2. ASSUME NEW i \in DOMAIN structs
      PROVE  structs[i] \in [sType : DOMAIN AssociatedWith, fields : SUBSET STRING]
  BY <1>1, <1>2, LenProperties, ElementOfSeq
<1>. QED
  BY <1>2, StartupAssumption DEF Implied

(* Requests while an initializer is being set up *)
LEMMA RequestsKeep ==
  ASSUME StartupInvariant, Requests
  PROVE  StartupInvariant'
<1>. stage = "config" /\ stage' = "config"
  BY DEF Requests, FindExtension, FindFeature, FindImageFormatFeature2, FindPresentationSupport,
         FindQueue, Request
<1>1. UNCHANGED <<system, createInfo, selected>>
  BY DEF Requests, FindExtension, FindFeature, FindImageFormatFeature2, FindPresentationSupport,
         FindQueue, Request, runtimeVars
<1>2. Searching' /\ PreferredFirst'
  BY DEF Searching, PreferredFirst
<1>3. /\ requiredExtensions' \subseteq Extensions /\ optionalExtensions' \subseteq Extensions
      /\ Closed'
  <2>. requiredExtensions \subseteq Extensions /\ optionalExtensions \subseteq Extensions /\ Closed
    BY DEF StartupInvariant, Requested
  <2>1. ASSUME NEW require \in BOOLEAN, NEW e \in WantedExtensions, FindExtension(require, e)
        PROVE  <1>3!:
    <3>1. {e} \in SUBSET Extensions
      BY StartupAssumption
    <3>2. /\ requiredExtensions' \in {requiredExtensions, Required(requiredExtensions, {e})}
          /\ optionalExtensions' \in
               {optionalExtensions, Optional(optionalExtensions, {e}, requiredExtensions)}
      BY <2>1 DEF FindExtension
    <3>. QED BY <3>1, <3>2, RequiredClosed, OptionalClosed DEF Closed
  <2>2. ASSUME NEW require \in BOOLEAN, NEW structs \in WantedChains, FindFeature(require, structs)
        PROVE  <1>3!:
    <3>. DEFINE implied == UNION {Implied(structs[i]) : i \in DOMAIN structs}
    <3>1. implied \in SUBSET Extensions
      BY ImpliedTyped
    <3>2. /\ requiredExtensions' \in {requiredExtensions, Required(requiredExtensions, implied)}
          /\ optionalExtensions' \in
               {optionalExtensions, Optional(optionalExtensions, implied, requiredExtensions)}
      BY <2>2 DEF FindFeature, FindFeatureIn
    <3>. HIDE DEF implied
    <3>. QED BY <3>1, <3>2, RequiredClosed, OptionalClosed DEF Closed
  <2>3. ASSUME NEW surface \in Surfaces, FindPresentationSupport(surface)
        PROVE  <1>3!:
    <3>1. {SwapchainExtension} \in SUBSET Extensions
      BY StartupAssumption
    <3>2. /\ requiredExtensions' = Required(requiredExtensions, {SwapchainExtension})
          /\ optionalExtensions' = optionalExtensions
      BY <2>3 DEF FindPresentationSupport
    <3>. QED BY <3>1, <3>2, RequiredClosed DEF Closed
  <2>4. CASE \/ \E format \in WantedFormats : FindImageFormatFeature2(format)
             \/ \E q \in WantedQueues : FindQueue(q[1], q[2], q[3])
    BY <2>4 DEF FindImageFormatFeature2, FindQueue, Closed
  <2>. QED BY <2>1, <2>2, <2>3, <2>4 DEF Requests
<1>4. /\ queueRequirements' \in [Range(Roles) -> [min : Nat, max : Nat, count : Nat, family : Nat]]
      /\ \A role \in Range(Roles) : queueRequirements'[role].max > 0 =>
           queueRequirements'[role].min <= queueRequirements'[role].max
  <2>1. ASSUME NEW q \in WantedQueues, FindQueue(q[1], q[2], q[3])
        PROVE  <1>4!:
    <3>1. /\ q[1] \in Range(Roles) /\ q[2] \in Nat /\ q[3] \in Nat
          /\ q[3] # 0 => q[2] <= q[3]
      BY StartupAssumption
    <3>. QED BY <2>1, <3>1 DEF FindQueue, StartupInvariant, Requested
  <2>2. CASE UNCHANGED queueRequirements
    BY <2>2 DEF StartupInvariant, Requested
  <2>. QED
    BY <2>1, <2>2 DEF Requests, FindExtension, FindFeature, FindImageFormatFeature2,
                      FindPresentationSupport
<1>5. Requested'
  BY <1>1, <1>3, <1>4 DEF StartupInvariant, Requested
<1>. QED
  BY <1>2, <1>3, <1>5 DEF StartupInvariant

(* What an initializer begins with, and ends with                           *)
LEMMA BlankKeeps ==
  ASSUME Blank, stage' \in {"none", "config"}, UNCHANGED system, system \in Systems,
         createInfo' \in CreateInfos \union {Null},
         requiredExtensions' \subseteq Extensions, optionalExtensions' \subseteq Extensions,
         Closed'
  PROVE  StartupInvariant'
BY DEF Blank, StartupInvariant, Requested, Searching, PreferredFirst, NoQueue

LEMMA NothingImplied == UNION {Implied(CoreFeatures[i]) : i \in DOMAIN CoreFeatures} = {}
<1>1. Cardinality({}) = 0
  BY FS_EmptySet
<1>. QED
  BY <1>1, StartupAssumption DEF Implied

(* The core features stand for no extension.                                *)
LEMMA CreateInitializerAsks ==
  ASSUME NEW info \in CreateInfos, CreateInitializer(info)
  PROVE  /\ requiredExtensions' \subseteq Extensions \intersect InstanceExtensions
         /\ optionalExtensions' = {}
         /\ Closed'
<1>. DEFINE implied == UNION {Implied(CoreFeatures[i]) : i \in DOMAIN CoreFeatures}
            own == Required({}, DebugUtils)
<1>1. /\ requiredExtensions' = Required(own, implied)
      /\ optionalExtensions' = {}
  BY DEF CreateInitializer, FindFeatureIn
<1>2. /\ own \subseteq Extensions /\ own \subseteq InstanceExtensions
      /\ \A e \in own : DependsOn[e] \subseteq own
  BY RequiredClosed, StartupAssumption
<1>3. Required(own, implied) = own
  <2>. HIDE DEF own
  <2>. QED BY NothingImplied DEF Required
<1>. QED
  BY <1>1, <1>2, <1>3 DEF Closed

LEMMA CreateInitializerKeeps ==
  ASSUME StartupInvariant, NEW info \in CreateInfos, CreateInitializer(info)
  PROVE  StartupInvariant'
BY CreateInitializerAsks, BlankKeeps DEF CreateInitializer, StartupInvariant, Requested, runtimeVars

LEMMA DestroyInitializerKeeps ==
  ASSUME StartupInvariant, DestroyInitializer
  PROVE  StartupInvariant'
<1>1. Closed'
  BY DEF DestroyInitializer, Closed
<1>. QED
  BY <1>1, BlankKeeps DEF DestroyInitializer, StartupInvariant, Requested, runtimeVars

(* createDevice begins with an order of all GPUs.                           *)
LEMMA CreateDeviceKeeps ==
  ASSUME StartupInvariant, CreateDevice
  PROVE  StartupInvariant'
<1>1. UNCHANGED <<requestVars, queueRequirements, system>> /\ selected' = Null
  BY DEF CreateDevice, foundVars
<1>2. Requested' /\ Closed'
  BY <1>1 DEF StartupInvariant, Requested, Closed, requestVars
<1>3. CASE UNCHANGED <<stage, order, at, rejected>> /\ stage = "config"
  BY <1>1, <1>2, <1>3 DEF StartupInvariant, Searching, PreferredFirst
<1>4. CASE stage' = "choosing" /\ order' \in SearchOrders /\ at' = 1 /\ rejected' = <<>>
  <2>. system \in Systems
    BY DEF StartupInvariant, Requested
  <2>1. order' \in Seq(DOMAIN system.gpus)
    BY <1>4, OrderOfGpus
  <2>2. 1 \in 1 .. Len(order') + 1
    BY <2>1, LenProperties
  <2>3. Searching'
    BY <1>1, <1>4, <2>1, <2>2 DEF Searching
  <2>4. ASSUME createInfo.preferType # "system",
               NEW i \in DOMAIN order', NEW j \in DOMAIN order', i < j,
               Gpu(order'[j]).type = createInfo.preferType
        PROVE  Gpu(order'[i]).type = createInfo.preferType
    BY <1>4, <2>4, PreferredComeFirst
  <2>5. PreferredFirst'
    BY <1>1, <2>4 DEF PreferredFirst, Gpu, requestVars
  <2>. QED BY <1>2, <2>3, <2>5 DEF StartupInvariant
<1>. QED
  BY <1>3, <1>4 DEF CreateDevice
-----------------------------------------------------------------------------
(* The family findQueue takes for a role is one that fits it.               *)
LEMMA FamilyFits ==
  ASSUME system \in Systems, NEW g \in DOMAIN system.gpus, NEW role \in Range(Roles),
         Fitting(g, role) # {}
  PROVE  /\ Min(Fitting(g, role)) \in Fitting(g, role)
         /\ Min(Fitting(g, role)) \in Nat
         /\ Gpu(g).families[Min(Fitting(g, role))].count \in Nat
<1>1. Gpu(g).families \in Seq([flags : SUBSET STRING, count : Nat])
  BY StartupAssumption DEF Gpu
<1>2. Fitting(g, role) \subseteq 1 .. Len(Gpu(g).families) /\ Len(Gpu(g).families) \in Nat
  BY <1>1 DEF Fitting
<1>3. \E f \in Fitting(g, role) : \A h \in Fitting(g, role) : f <= h
  BY <1>2, LeastNumber
<1>4. Min(Fitting(g, role)) \in Fitting(g, role)
  BY <1>3 DEF Min
<1>5. \A f \in 1 .. Len(Gpu(g).families) : Gpu(g).families[f].count \in Nat
  <2>1. ASSUME NEW f \in 1 .. Len(Gpu(g).families)
        PROVE  Gpu(g).families[f] \in [flags : SUBSET STRING, count : Nat]
    BY <1>1, <2>1, ElementOfSeq
  <2>. QED BY <2>1
<1>. QED
  BY <1>2, <1>4, <1>5

(* One family has not what two roles want: one wants what the other avoids. *)
LEMMA FamiliesApart ==
  ASSUME NEW g, NEW r \in Range(Roles), NEW s \in Range(Roles), r # s
  PROVE  Fitting(g, r) \intersect Fitting(g, s) = {}
<1>1. (Want[r] \intersect Avoid[s]) \union (Want[s] \intersect Avoid[r]) # {}
  BY RolesAre DEF Want, Avoid
<1>. QED
  BY <1>1 DEF Fitting

(* findQueues leaves what was asked for, and takes as many queues as it may. *)
LEMMA QueuesTyped ==
  ASSUME Requested, NEW g \in DOMAIN system.gpus
  PROVE  /\ QueuesOf(g) \in [Range(Roles) -> [min : Nat, max : Nat, count : Nat, family : Nat]]
         /\ \A role \in Range(Roles) :
              /\ QueuesOf(g)[role].min = queueRequirements[role].min
              /\ QueuesOf(g)[role].max = queueRequirements[role].max
<1>1. queueRequirements \in [Range(Roles) -> [min : Nat, max : Nat, count : Nat, family : Nat]]
  BY DEF Requested
<1>2. ASSUME NEW role \in Range(Roles)
      PROVE  /\ QueuesOf(g)[role] \in [min : Nat, max : Nat, count : Nat, family : Nat]
             /\ QueuesOf(g)[role].min = queueRequirements[role].min
             /\ QueuesOf(g)[role].max = queueRequirements[role].max
  <2>. DEFINE requirements == queueRequirements[role]
              found == QueueFound(g, role, requirements)
  <2>1. requirements \in [min : Nat, max : Nat, count : Nat, family : Nat]
    BY <1>1
  <2>2. /\ found \in [min : Nat, max : Nat, count : Nat, family : Nat]
        /\ found.min = requirements.min /\ found.max = requirements.max
    <3>. HIDE DEF requirements
    <3>1. CASE requirements.max = 0 \/ Lacking(g, role)
      BY <2>1, <3>1 DEF QueueFound
    <3>2. CASE ~ (requirements.max = 0 \/ Lacking(g, role))
      <4>. DEFINE family == Min(Fitting(g, role))
                  count == Clamp(Gpu(g).families[family].count, requirements.min, requirements.max)
      <4>1. Fitting(g, role) # {}
        BY <2>1, <3>2 DEF Lacking, requirements
      <4>2. family \in Nat /\ Gpu(g).families[family].count \in Nat
        BY <4>1, FamilyFits DEF Requested
      <4>3. count \in Nat
        BY <2>1, <4>2 DEF Clamp
      <4>4. found = [requirements EXCEPT !.family = family, !.count = count]
        BY <3>2 DEF QueueFound
      <4>. HIDE DEF family, count, found
      <4>. QED BY <2>1, <4>2, <4>3, <4>4
    <3>. QED BY <3>1, <3>2
  <2>3. QueuesOf(g)[role] \in {found, requirements}
    BY <1>1 DEF QueuesOf
  <2>. QED BY <2>1, <2>2, <2>3
<1>3. /\ DOMAIN QueuesOf(g) = Range(Roles)
      /\ QueuesOf(g) = [role \in Range(Roles) |-> QueuesOf(g)[role]]
  BY <1>1 DEF QueuesOf
<1>. QED
  BY <1>2, <1>3

(* A queue that is asked for on a GPU that has one: of a family that fits,   *)
(* and as many as asked for and there are.                                  *)
LEMMA QueueOfRole ==
  ASSUME Requested, NEW g \in DOMAIN system.gpus, NEW role \in Looked(g),
         queueRequirements[role].max > 0, ~ Lacking(g, role)
  PROVE  LET q == QueuesOf(g)[role]
         IN  /\ q.family \in Fitting(g, role)
             /\ q.count \in queueRequirements[role].min .. queueRequirements[role].max
             /\ q.count <= Gpu(g).families[q.family].count
<1>. DEFINE requirements == queueRequirements[role]
            family == Min(Fitting(g, role))
            count == Clamp(Gpu(g).families[family].count, requirements.min, requirements.max)
<1>0. role \in Range(Roles)
  BY DEF Looked, Range
<1>1. /\ requirements \in [min : Nat, max : Nat, count : Nat, family : Nat]
      /\ requirements.min <= requirements.max
      /\ DOMAIN queueRequirements = Range(Roles)
  BY <1>0 DEF Requested
<1>2. Fitting(g, role) # {}
  BY DEF Lacking
<1>3. family \in Fitting(g, role) /\ Gpu(g).families[family].count \in Nat
  BY <1>0, <1>2, FamilyFits DEF Requested
<1>4. Gpu(g).families[family].count >= requirements.min
  BY <1>3 DEF Fitting
<1>5. /\ count \in requirements.min .. requirements.max
      /\ count <= Gpu(g).families[family].count
  <2>. HIDE DEF requirements, family
  <2>. QED BY <1>1, <1>3, <1>4 DEF Clamp
<1>6. QueuesOf(g)[role] = [requirements EXCEPT !.family = family, !.count = count]
  BY <1>0, <1>1 DEF QueuesOf, QueueFound
<1>7. QueuesOf(g)[role].family = family /\ QueuesOf(g)[role].count = count
  <2>. HIDE DEF family, count, requirements
  <2>. QED BY <1>1, <1>6
<1>. QED
  BY <1>3, <1>5, <1>7
-----------------------------------------------------------------------------
(* createDevice's loop: a GPU is rejected with a reason, or taken.          *)
LEMMA TryDeviceKeeps ==
  ASSUME StartupInvariant, TryDevice
  PROVE  StartupInvariant'
<1>. DEFINE g == order[at]
<1>1. /\ stage = "choosing" /\ at <= Len(order)
      /\ UNCHANGED <<requestVars, order, enabledInstanceExtensions, system, instanceVars>>
  BY DEF TryDevice
<1>2. /\ order \in Seq(DOMAIN system.gpus)
      /\ at \in 1 .. Len(order) + 1
      /\ rejected \in Seq([gpu : DOMAIN system.gpus, reasons : SUBSET Reasons])
      /\ Len(rejected) = at - 1
      /\ \A i \in 1 .. at - 1 : rejected[i].gpu = order[i] /\ rejected[i].reasons # {}
  BY <1>1 DEF StartupInvariant, Searching
<1>3. /\ Len(order) \in Nat /\ at \in 1 .. Len(order)
      /\ g \in DOMAIN system.gpus
  BY <1>1, <1>2, LenProperties
<1>4. \/ UNCHANGED queueRequirements
      \/ queueRequirements' = QueuesOf(g)
  BY DEF TryDevice, foundVars
<1>5. selected' \in {selected, g}
  BY DEF TryDevice
<1>6. Requested'
  <2>. Requested
    BY DEF StartupInvariant
  <2>1. /\ queueRequirements' \in [Range(Roles) -> [min : Nat, max : Nat, count : Nat, family : Nat]]
        /\ \A role \in Range(Roles) : queueRequirements'[role].max > 0 =>
             queueRequirements'[role].min <= queueRequirements'[role].max
    <3>. HIDE DEF g
    <3>1. CASE UNCHANGED queueRequirements
      BY <3>1 DEF Requested
    <3>2. CASE queueRequirements' = QueuesOf(g)
      BY <1>3, <3>2, QueuesTyped DEF Requested
    <3>. QED BY <1>4, <3>1, <3>2
  <2>. HIDE DEF g
  <2>. QED BY <1>1, <1>3, <1>5, <2>1 DEF Requested, requestVars
<1>7. Searching'
  <2>1. CASE stage' = "config"
    BY <2>1 DEF Searching
  <2>2. ASSUME NEW reasons \in SUBSET Reasons, reasons # {},
               rejected' = Append(rejected, [gpu |-> g, reasons |-> reasons]),
               at' = at + 1, stage' = "choosing"
        PROVE  Searching'
    <3>. DEFINE entry == [gpu |-> g, reasons |-> reasons]
    <3>1. entry \in [gpu : DOMAIN system.gpus, reasons : SUBSET Reasons]
      BY <1>3
    <3>2. /\ rejected' \in Seq([gpu : DOMAIN system.gpus, reasons : SUBSET Reasons])
          /\ Len(rejected') = at
          /\ rejected'[at] = entry
          /\ \A i \in 1 .. at - 1 : rejected'[i] = rejected[i]
      <4>. HIDE DEF entry
      <4>1. rejected' = Append(rejected, entry)
        BY <2>2 DEF entry
      <4>. QED BY <1>2, <1>3, <3>1, <4>1
    <3>3. \A i \in 1 .. at : rejected'[i].gpu = order[i] /\ rejected'[i].reasons # {}
      <4>1. \A i \in 1 .. at : i = at \/ i \in 1 .. at - 1
        BY <1>3
      <4>. QED BY <1>2, <2>2, <3>2, <4>1
    <3>. HIDE DEF entry, g
    <3>. QED BY <1>1, <1>2, <1>3, <2>2, <3>2, <3>3 DEF Searching
  <2>3. \/ stage' = "config"
        \/ \E reasons \in SUBSET Reasons : reasons # {} /\ rejected' = Reject(g, reasons)
             /\ at' = at + 1 /\ stage' = "choosing"
    <3>1. Failures(g) \in SUBSET Reasons
      BY DEF Failures, Reasons
    <3>2. {"Vetoed"} \in SUBSET Reasons /\ {"vkCreateDevice"} \in SUBSET Reasons
      BY DEF Reasons
    <3>. QED BY <1>1, <3>1, <3>2 DEF TryDevice
  <2>. QED BY <2>1, <2>2, <2>3 DEF Reject
<1>8. PreferredFirst' /\ Closed'
  <2>1. Closed'
    BY <1>1 DEF StartupInvariant, Closed, requestVars
  <2>2. PreferredFirst'
    BY <1>1 DEF StartupInvariant, PreferredFirst, Gpu, requestVars
  <2>. QED BY <2>1, <2>2
<1>. QED
  BY <1>6, <1>7, <1>8 DEF StartupInvariant

(* What changes none of this                                                *)
LEMMA StartupUnchanged ==
  ASSUME StartupInvariant, stage' \in {stage, "config"},
         UNCHANGED <<requestVars, queueRequirements, order, at, rejected, selected, system>>
  PROVE  StartupInvariant'
BY DEF StartupInvariant, Requested, Searching, PreferredFirst, Closed, Gpu, requestVars

LEMMA StartupStep ==
  ASSUME StartupInvariant, [InitializerNext]_<<initializerVars, runtimeVars>>
  PROVE  StartupInvariant'
<1>1. CASE Aborted \/ UNCHANGED <<initializerVars, runtimeVars>>
  BY <1>1, StartupUnchanged DEF Aborted, initializerVars, runtimeVars, foundVars, searchVars
<1>2. CASE CreateInstance
  BY <1>2, StartupUnchanged DEF CreateInstance, ScanInstanceExtensions, foundVars, searchVars
<1>3. CASE NoDevice
  BY <1>3, StartupUnchanged DEF NoDevice, foundVars, runtimeVars
<1>4. CASE (InstanceNext \/ DeviceNext) /\ UNCHANGED initializerVars
  <2>1. UNCHANGED system
    BY <1>4 DEF InstanceNext, DeviceNext, InitGiven, InitLater, Shutdown, DestroyLent,
                InitDeviceGiven, DestroyDevice
  <2>. QED BY <1>4, <2>1, StartupUnchanged DEF initializerVars, foundVars, searchVars
<1>. QED
  BY <1>1, <1>2, <1>3, <1>4, CreateInitializerKeeps, RequestsKeep, CreateDeviceKeeps,
     TryDeviceKeeps, DestroyInitializerKeeps DEF InitializerNext, Going

LEMMA StartupInitially == InitializerInit => StartupInvariant
BY DEF InitializerInit, RuntimeInit, StartupInvariant, Requested, Searching, PreferredFirst,
       Closed, NoQueue
-----------------------------------------------------------------------------
(* Over any sequence of vkm_init, vkm_shutdown, vkm_initDevice and          *)
(* vkm_destroyDevice, with or without initializers: the functions and the   *)
(* messenger in use are those of the instance in use, an instance made for  *)
(* the library is its own until it is destroyed, and a device's identifier  *)
(* names its GPU, if a client never calls vkm_init with an instance in use. *)
THEOREM RuntimeAlwaysSound ==
  ASSUME InitAgain = FALSE
  PROVE  InitializerSpec => []RuntimeSound
<1>1. InitializerInit => RuntimeInvariant /\ StartupInvariant
  BY RuntimeInitially, StartupInitially
<1>2. RuntimeInvariant /\ StartupInvariant /\ [InitializerNext]_<<initializerVars, runtimeVars>>
        => (RuntimeInvariant /\ StartupInvariant)'
  BY RuntimeStep, StartupStep DEF StartupInvariant
<1>3. RuntimeInvariant => RuntimeSound
  <2>. SUFFICES ASSUME RuntimeInvariant, NEW device \in devices
                PROVE  FromUUID(device.uuid) = device.gpu
    BY DEF RuntimeInvariant, RuntimeSound, UuidNamesDevice
  <2>1. /\ device.gpu \in 1 .. Len(system.gpus) /\ Len(system.gpus) \in Nat
        /\ device.uuid = GenerateUUID(device.gpu, device.gpu - 1)
    BY RuntimeAssumption DEF RuntimeInvariant, RuntimeTypes, RuntimeTypeOK
  <2>2. device.uuid[2] = device.gpu - 1 /\ device.gpu - 1 + 1 = device.gpu
    BY <2>1 DEF GenerateUUID
  <2>. QED BY <2>1, <2>2 DEF FromUUID
<1>. QED
  BY <1>1, <1>2, <1>3, PTL DEF InitializerSpec

(* Only createDevice selects a GPU: one that fails no check.                *)
LEMMA Selected ==
  ASSUME StartupInvariant, [InitializerNext]_<<initializerVars, runtimeVars>>, Selects
  PROVE  /\ stage = "choosing" /\ selected' = order[at]
         /\ order \in Seq(DOMAIN system.gpus) /\ at \in 1 .. Len(order)
         /\ selected' \in DOMAIN system.gpus
         /\ Failures(selected') = {}
         /\ enabledFeatures' = FeaturesOf(selected')
         /\ enabledDeviceExtensions' =
              (DeviceExtensions(requiredExtensions) \union DeviceExtensions(optionalExtensions))
                \intersect Gpu(selected').extensions
         /\ queueCreateInfos' = QueueInfos(selected')
         /\ UNCHANGED <<rejected, enabledInstanceExtensions>>
<1>1. TryDevice
  BY DEF Selects, InitializerNext, Going, Aborted, CreateInitializer, Requests, FindExtension,
         FindFeature, FindImageFormatFeature2, FindPresentationSupport, FindQueue, Request,
         CreateInstance, ScanInstanceExtensions, CreateDevice, NoDevice, DestroyInitializer, Blank,
         initializerVars, searchVars
<1>2. /\ stage = "choosing" /\ selected' = order[at] /\ at <= Len(order)
      /\ Failures(selected') = {}
      /\ enabledFeatures' = FeaturesOf(selected')
      /\ enabledDeviceExtensions' =
           Enabled(enabledDeviceExtensions, DeviceExtensions(requiredExtensions),
                   DeviceExtensions(optionalExtensions), Gpu(selected').extensions)
      /\ queueCreateInfos' = QueueInfos(selected')
      /\ UNCHANGED <<rejected, enabledInstanceExtensions>>
  BY <1>1 DEF TryDevice, Selects
<1>3. order \in Seq(DOMAIN system.gpus) /\ at \in 1 .. Len(order) + 1
  BY <1>2 DEF StartupInvariant, Searching
<1>. QED
  BY <1>2, <1>3, LenProperties DEF Enabled

LEMMA NothingFails ==
  ASSUME NEW g, Failures(g) = {}
  PROVE  FeaturesFound(g) /\ ExtensionsFound(g) /\ FormatsFound(g) /\ QueuesFound(g)
<1>1. /\ "findFeatures" \notin Failures(g) /\ "findExtensions" \notin Failures(g)
      /\ "findFormats" \notin Failures(g) /\ "findQueues" \notin Failures(g)
  OBVIOUS
<1>. QED
  BY <1>1 DEF Failures

(* With every role that is wanted to be had, findQueues comes to all.       *)
LEMMA QueuesOfSelected ==
  ASSUME Requested, NEW g \in DOMAIN system.gpus, QueuesFound(g)
  PROVE  /\ \A p, q \in QueueInfos(g) : p.family = q.family => p = q
         /\ \A role \in Range(Roles) : queueRequirements[role].max > 0 =>
              \E q \in QueueInfos(g) :
                /\ q.role = role
                /\ q.count \in queueRequirements[role].min .. queueRequirements[role].max
                /\ q.count <= Gpu(g).families[q.family].count
<1>. DEFINE Info(role) == [role |-> role, family |-> QueuesOf(g)[role].family,
                           count |-> QueuesOf(g)[role].count]
<1>1. Looked(g) = Range(Roles)
  BY DEF Looked, Range, QueuesFound, Roles
<1>2. QueueInfos(g) = {Info(role) : role \in {r \in Range(Roles) : queueRequirements[r].max > 0}}
  BY <1>1 DEF QueueInfos, QueuesFound
<1>3. ASSUME NEW role \in Range(Roles), queueRequirements[role].max > 0
      PROVE  /\ QueuesOf(g)[role].family \in Fitting(g, role)
             /\ QueuesOf(g)[role].count \in queueRequirements[role].min .. queueRequirements[role].max
             /\ QueuesOf(g)[role].count <= Gpu(g).families[QueuesOf(g)[role].family].count
  BY <1>1, <1>3, QueueOfRole DEF QueuesFound
<1>4. ASSUME NEW r \in Range(Roles), queueRequirements[r].max > 0,
             NEW s \in Range(Roles), queueRequirements[s].max > 0,
             Info(r).family = Info(s).family
      PROVE  Info(r) = Info(s)
  BY <1>3, <1>4, FamiliesApart
<1>5. ASSUME NEW role \in Range(Roles)
      PROVE  /\ Info(role).role = role
             /\ Info(role).family = QueuesOf(g)[role].family
             /\ Info(role).count = QueuesOf(g)[role].count
  OBVIOUS
<1>. HIDE DEF Info
<1>6. \A p, q \in QueueInfos(g) : p.family = q.family => p = q
  BY <1>2, <1>4
<1>7. ASSUME NEW role \in Range(Roles), queueRequirements[role].max > 0
      PROVE  \E q \in QueueInfos(g) :
                /\ q.role = role
                /\ q.count \in queueRequirements[role].min .. queueRequirements[role].max
                /\ q.count <= Gpu(g).families[q.family].count
  <2>1. Info(role) \in QueueInfos(g)
    BY <1>2, <1>7
  <2>. QED BY <1>3, <1>5, <1>7, <2>1
<1>. QED
  BY <1>6, <1>7

(* The device createDevice makes has all that was required, of its GPU's    *)
(* own, with distinct families for its queues and one to present with for   *)
(* every surface.                                                           *)
THEOREM DeviceAlwaysFits == InitializerSpec => DeviceFits
<1>. DEFINE Has ==
              LET g == Gpu(selected') IN
              /\ requiredFeatureChain.set \subseteq enabledFeatures' /\ enabledFeatures' \subseteq g.features
              /\ requiredExtensions \ InstanceExtensions \subseteq enabledDeviceExtensions'
              /\ enabledDeviceExtensions' \subseteq g.extensions
              /\ requiredFormatFeatures \subseteq g.formats
            HasQueues ==
              LET g == Gpu(selected') IN
              /\ \A p, q \in queueCreateInfos' : p.family = q.family => p = q
              /\ \A role \in Range(Roles) : queueRequirements[role].max > 0 =>
                   \E q \in queueCreateInfos' :
                     /\ q.role = role
                     /\ q.count \in queueRequirements[role].min .. queueRequirements[role].max
                     /\ q.count <= g.families[q.family].count
              /\ \A surface \in targetSurfaces :
                   \E q \in queueCreateInfos' : surface \in g.presents[q.family]
<1>1. StartupInvariant /\ [InitializerNext]_<<initializerVars, runtimeVars>> => StartupInvariant'
  BY StartupStep
<1>2. StartupInvariant /\ [InitializerNext]_<<initializerVars, runtimeVars>>
        => [Selects => Has]_initializerVars
  BY Selected, NothingFails DEF FeaturesFound, FeaturesOf, ExtensionsFound, DeviceExtensions,
                                FormatsFound
<1>3. StartupInvariant /\ [InitializerNext]_<<initializerVars, runtimeVars>>
        => [Selects => HasQueues]_initializerVars
  <2>. SUFFICES ASSUME StartupInvariant, [InitializerNext]_<<initializerVars, runtimeVars>>, Selects
                PROVE  HasQueues
    OBVIOUS
  <2>1. /\ queueCreateInfos' = QueueInfos(selected') /\ QueuesFound(selected')
        /\ selected' \in DOMAIN system.gpus /\ Requested
    BY Selected, NothingFails DEF StartupInvariant
  <2>. QED BY <2>1, QueuesOfSelected DEF QueuesFound, Presents
<1>. QED
  BY <1>1, <1>2, <1>3, StartupInitially, PTL
     DEF InitializerSpec, DeviceFits, DeviceAsRequired, QueuesAsRequired

(* The GPU is the first, in the order they are gone through, that nothing   *)
(* is held against, and getRejectReasons tells of each before it.           *)
THEOREM FirstAlwaysFits == InitializerSpec => FirstThatFits
<1>1. StartupInvariant /\ [InitializerNext]_<<initializerVars, runtimeVars>> => StartupInvariant'
  BY StartupStep
<1>2. ASSUME StartupInvariant, [InitializerNext]_<<initializerVars, runtimeVars>>
      PROVE  [Selects =>
                /\ [i \in DOMAIN rejected' |-> rejected'[i].gpu] = SubSeq(order, 1, Len(rejected'))
                /\ order[Len(rejected') + 1] = selected'
                /\ \A i \in DOMAIN rejected' : rejected'[i].reasons # {}]_initializerVars
  <2>. SUFFICES ASSUME Selects
                PROVE  /\ [i \in DOMAIN rejected' |-> rejected'[i].gpu] = SubSeq(order, 1, Len(rejected'))
                       /\ order[Len(rejected') + 1] = selected'
                       /\ \A i \in DOMAIN rejected' : rejected'[i].reasons # {}
    OBVIOUS
  <2>1. /\ selected' = order[at] /\ rejected' = rejected /\ stage = "choosing"
        /\ order \in Seq(DOMAIN system.gpus) /\ at \in 1 .. Len(order)
    BY <1>2, Selected
  <2>2. /\ rejected \in Seq([gpu : DOMAIN system.gpus, reasons : SUBSET Reasons])
        /\ Len(rejected) = at - 1
        /\ \A i \in 1 .. at - 1 : rejected[i].gpu = order[i] /\ rejected[i].reasons # {}
    BY <1>2, <2>1 DEF StartupInvariant, Searching
  <2>3. DOMAIN rejected = 1 .. at - 1 /\ at - 1 + 1 = at /\ Len(order) \in Nat
    BY <2>1, <2>2, LenProperties
  <2>4. SubSeq(order, 1, at - 1) = [i \in 1 .. at - 1 |-> order[i]]
    BY <2>1, <2>3
  <2>5. [i \in DOMAIN rejected |-> rejected[i].gpu] = [i \in 1 .. at - 1 |-> order[i]]
    BY <2>2, <2>3
  <2>. QED BY <2>1, <2>2, <2>3, <2>4, <2>5
<1>. QED
  BY <1>1, <1>2, StartupInitially, PTL DEF InitializerSpec, FirstThatFits

(* createInstance scans what the loader has, each time.                     *)
LEMMA ScannedKept ==
  ASSUME LateCalls = FALSE, StartupInvariant, Scanned,
         [InitializerNext]_<<initializerVars, runtimeVars>>
  PROVE  Scanned'
<1>1. CASE UNCHANGED <<requestVars, enabledInstanceExtensions, vkInstance, made, system>>
           /\ (stage' # "none" => stage # "none")
  BY <1>1 DEF Scanned, requestVars
<1>2. ASSUME NEW info \in CreateInfos, CreateInitializer(info)
      PROVE  Scanned'
  BY <1>2, CreateInitializerAsks DEF CreateInitializer, runtimeVars, instanceVars, Scanned
<1>3. CASE Requests
  <2>1. vkInstance = Null /\ UNCHANGED <<vkInstance, made>>
    BY <1>3 DEF Requests, FindExtension, FindFeature, FindImageFormatFeature2,
                FindPresentationSupport, FindQueue, Request, runtimeVars, instanceVars
  <2>. QED BY <2>1, RuntimeAssumption DEF Scanned
<1>4. CASE CreateInstance
  BY <1>4 DEF CreateInstance, ScanInstanceExtensions, Enabled, Scanned, requestVars
<1>5. CASE DestroyInitializer
  BY <1>5 DEF DestroyInitializer, Scanned, runtimeVars, instanceVars
<1>6. CASE InstanceNext /\ stage = "none" /\ UNCHANGED initializerVars
  <2>1. made' \subseteq made
    BY <1>6 DEF InstanceNext, InitGiven, InitLater, Shutdown, DestroyLent, instanceVars
  <2>. QED BY <1>6, <2>1 DEF Scanned, initializerVars, searchVars
<1>7. CASE CreateDevice \/ TryDevice \/ NoDevice \/ Aborted
           \/ UNCHANGED <<initializerVars, runtimeVars>>
           \/ (DeviceNext /\ stage # "choosing" /\ UNCHANGED initializerVars)
  BY <1>1, <1>7 DEF CreateDevice, TryDevice, NoDevice, Aborted, DeviceNext, InitDeviceGiven,
                    DestroyDevice, initializerVars, runtimeVars, searchVars, instanceVars
<1>. QED
  BY <1>2, <1>3, <1>4, <1>5, <1>6, <1>7 DEF InitializerNext, Going

(* What an enabled extension depends on is enabled with it, on the device   *)
(* or on the instance an initializer made, if nothing is asked for once     *)
(* there is an instance.                                                    *)
THEOREM DependenciesAlwaysEnabled ==
  ASSUME LateCalls = FALSE
  PROVE  InitializerSpec => DependenciesEnabled
<1>. DEFINE AllEnabled ==
              \A e \in enabledDeviceExtensions' :
                DependsOn[e] \subseteq enabledDeviceExtensions' \union enabledInstanceExtensions
<1>1. InitializerInit => StartupInvariant /\ Scanned
  BY StartupInitially DEF InitializerInit, RuntimeInit, Scanned
<1>2. StartupInvariant /\ Scanned /\ [InitializerNext]_<<initializerVars, runtimeVars>>
        => (StartupInvariant /\ Scanned)'
  BY StartupStep, ScannedKept
<1>3. StartupInvariant /\ Scanned /\ [InitializerNext]_<<initializerVars, runtimeVars>>
        => [Selects /\ vkInstance \in made => AllEnabled]_initializerVars
  <2>. SUFFICES ASSUME StartupInvariant, Scanned,
                       [InitializerNext]_<<initializerVars, runtimeVars>>,
                       Selects, vkInstance \in made,
                       NEW e \in enabledDeviceExtensions', NEW d \in DependsOn[e]
                PROVE  d \in enabledDeviceExtensions' \union enabledInstanceExtensions
    OBVIOUS
  <2>. DEFINE asked == requiredExtensions \union optionalExtensions
              g == selected'
  <2>1. /\ enabledDeviceExtensions' = (asked \ InstanceExtensions) \intersect Gpu(g).extensions
        /\ g \in DOMAIN system.gpus /\ stage = "choosing" /\ system \in Systems
    BY Selected DEF DeviceExtensions, StartupInvariant, Requested
  <2>2. asked \subseteq Extensions /\ e \in asked /\ e \notin InstanceExtensions /\ d \in asked
    BY <2>1 DEF StartupInvariant, Requested, Closed
  <2>3. e \in Extensions \intersect system.gpus[g].extensions
    BY <2>1, <2>2 DEF Gpu
  <2>4. CASE d \in InstanceExtensions
    <3>1. d \in system.instanceExtensions
      BY <2>1, <2>3, <2>4, StartupAssumption
    <3>. QED BY <2>1, <2>2, <2>4, <3>1 DEF Scanned
  <2>5. CASE d \notin InstanceExtensions
    <3>1. d \in system.gpus[g].extensions
      BY <2>1, <2>3, <2>5, StartupAssumption
    <3>. QED BY <2>1, <2>2, <2>5, <3>1 DEF Gpu
  <2>. QED BY <2>4, <2>5
<1>. QED
  BY <1>1, <1>2, <1>3, PTL DEF InitializerSpec, DependenciesEnabled
-----------------------------------------------------------------------------
(* The equation of FoldLeft(Appended, chain, structs), on the first n       *)
IsAppending(iter, chain, structs, n) ==
  iter = [s \in SUBSET (1 .. n) |->
            IF s = {} THEN chain ELSE Appended(iter[s \ {Max(s)}], structs[Max(s)])]

LEMMA LastOfPrefix ==
  ASSUME NEW n \in Nat, NEW s \in SUBSET (1 .. n + 1), n + 1 \in s
  PROVE  Max(s) = n + 1
<1>1. n + 1 \in s /\ \A y \in s : n + 1 >= y
  OBVIOUS
<1>2. Max(s) \in s /\ \A y \in s : Max(s) >= y
  <2>1. \E x \in s : \A y \in s : x >= y
    BY <1>1
  <2>. QED BY <2>1 DEF Max
<1>3. Max(s) \in 1 .. n + 1 /\ Max(s) >= n + 1
  BY <1>1, <1>2
<1>. QED BY <1>3

LEMMA LastIn ==
  ASSUME NEW n \in Nat, NEW s \in SUBSET (1 .. n), s # {}
  PROVE  Max(s) \in s
<1>. DEFINE mirrored == {n - x : x \in s}
<1>1. mirrored \in SUBSET Nat /\ mirrored # {}
  <2>1. \A x \in s : n - x \in Nat
    OBVIOUS
  <2>. QED BY <2>1
<1>2. PICK i \in mirrored : \A j \in mirrored : i <= j
  <2>. HIDE DEF mirrored
  <2>. QED BY <1>1, LeastNumber
<1>3. n - i \in s /\ \A y \in s : n - i >= y
  <2>1. PICK x \in s : i = n - x
    BY <1>2
  <2>2. \A y \in s : n - x <= n - y
    BY <1>2, <2>1
  <2>. QED BY <2>1, <2>2
<1>. QED BY <1>3 DEF Max

LEMMA AppendingExists ==
  ASSUME NEW chain, NEW structs, NEW n \in Nat
  PROVE  \E iter : IsAppending(iter, chain, structs, n)
<1>. DEFINE P(k) == \E iter : IsAppending(iter, chain, structs, k)
            wrong == {k \in Nat : ~ P(k)}
<1>1. P(0)
  <2>. DEFINE iter == [s \in SUBSET (1 .. 0) |-> chain]
  <2>1. IsAppending(iter, chain, structs, 0)
    BY DEF IsAppending
  <2>. QED BY <2>1
<1>2. ASSUME NEW k \in Nat, P(k)
      PROVE  P(k + 1)
  <2>1. PICK it : IsAppending(it, chain, structs, k)
    BY <1>2
  <2>. DEFINE iter == [s \in SUBSET (1 .. k + 1) |->
                         IF k + 1 \in s THEN Appended(it[s \ {k + 1}], structs[k + 1]) ELSE it[s]]
              Value(s) == IF s = {} THEN chain ELSE Appended(iter[s \ {Max(s)}], structs[Max(s)])
  <2>2. ASSUME NEW s \in SUBSET (1 .. k + 1)
        PROVE  iter[s] = Value(s)
    <3>1. CASE k + 1 \in s
      <4>1. s \ {k + 1} \in SUBSET (1 .. k + 1) /\ k + 1 \notin s \ {k + 1}
        OBVIOUS
      <4>2. iter[s \ {k + 1}] = it[s \ {k + 1}] /\ iter[s] = Appended(it[s \ {k + 1}], structs[k + 1])
        BY <3>1, <4>1
      <4>. HIDE DEF iter
      <4>. QED BY <3>1, <4>2, LastOfPrefix
    <3>2. CASE k + 1 \notin s
      <4>1. s \in SUBSET (1 .. k)
        BY <3>2
      <4>2. iter[s] = it[s]
        BY <3>2
      <4>3. it[s] = IF s = {} THEN chain ELSE Appended(it[s \ {Max(s)}], structs[Max(s)])
        BY <2>1, <4>1 DEF IsAppending
      <4>4. CASE s = {}
        BY <4>2, <4>3, <4>4
      <4>5. CASE s # {}
        <5>1. s \ {Max(s)} \in SUBSET (1 .. k + 1) /\ k + 1 \notin s \ {Max(s)}
          BY <3>2
        <5>2. iter[s \ {Max(s)}] = it[s \ {Max(s)}]
          BY <5>1
        <5>. HIDE DEF iter
        <5>. QED BY <4>2, <4>3, <4>5, <5>2
      <4>. QED BY <4>4, <4>5
    <3>. QED BY <3>1, <3>2
  <2>3. iter = [s \in SUBSET (1 .. k + 1) |-> iter[s]]
    OBVIOUS
  <2>4. IsAppending(iter, chain, structs, k + 1)
    <3>. HIDE DEF iter
    <3>. QED BY <2>2, <2>3 DEF IsAppending
  <2>. QED BY <2>4
<1>3. wrong = {}
  <2>. SUFFICES ASSUME wrong # {} PROVE FALSE
    OBVIOUS
  <2>1. wrong \in SUBSET Nat
    OBVIOUS
  <2>2. PICK k \in wrong : \A j \in wrong : k <= j
    <3>. HIDE DEF wrong
    <3>. QED BY <2>1, LeastNumber
  <2>. HIDE DEF P
  <2>3. k # 0 /\ k \in Nat /\ ~ P(k)
    BY <1>1, <2>2
  <2>4. k - 1 \in Nat /\ k - 1 \notin wrong
    BY <2>2, <2>3
  <2>. QED BY <1>2, <2>3, <2>4
<1>. QED BY <1>3

LEMMA AppendAllIs ==
  ASSUME NEW chain, NEW S, NEW structs \in Seq(S)
  PROVE  \E iter : /\ IsAppending(iter, chain, structs, Len(structs))
                   /\ AppendAll(chain, structs) = iter[1 .. Len(structs)]
<1>1. Len(structs) \in Nat /\ DOMAIN structs = 1 .. Len(structs)
  BY LenProperties
<1>. DEFINE chosen == CHOOSE iter : IsAppending(iter, chain, structs, Len(structs))
<1>2. AppendAll(chain, structs) =
        (CHOOSE iter : iter = [s \in SUBSET (DOMAIN structs) |->
            IF s = {} THEN chain ELSE Appended(iter[s \ {Max(s)}], structs[Max(s)])])[DOMAIN structs]
  BY Zenon DEF AppendAll, FoldLeft, MapThenFoldSet
<1>3. AppendAll(chain, structs) = chosen[1 .. Len(structs)]
  BY <1>1, <1>2, Zenon DEF IsAppending
<1>4. IsAppending(chosen, chain, structs, Len(structs))
  BY <1>1, AppendingExists
<1>. QED BY <1>3, <1>4

Bare(structs) == [i \in DOMAIN structs |-> [sType |-> structs[i].sType, fields |-> {}]]

LEMMA AppendTypesIs ==
  ASSUME NEW chain, NEW S, NEW structs \in Seq(S)
  PROVE  \E iter : /\ IsAppending(iter, chain, Bare(structs), Len(structs))
                   /\ AppendTypes(chain, structs) = iter[1 .. Len(structs)]
<1>1. Len(structs) \in Nat /\ DOMAIN structs = 1 .. Len(structs)
  BY LenProperties
<1>2. AppendTypes(chain, structs) =
        (CHOOSE iter : iter = [s \in SUBSET (DOMAIN structs) |->
            IF s = {} THEN chain ELSE
            Appended(iter[s \ {Max(s)}], [sType |-> structs[Max(s)].sType, fields |-> {}])])[DOMAIN structs]
  BY Zenon DEF AppendTypes, TypeAppended, FoldLeft, MapThenFoldSet
<1>. DEFINE Spelled(iter) ==
              iter = [s \in SUBSET (1 .. Len(structs)) |->
                 IF s = {} THEN chain ELSE
                 Appended(iter[s \ {Max(s)}], [sType |-> structs[Max(s)].sType, fields |-> {}])]
            chosen == CHOOSE iter : Spelled(iter)
<1>3. AppendTypes(chain, structs) = chosen[1 .. Len(structs)]
  BY <1>1, <1>2, Zenon
<1>4. ASSUME NEW iter
      PROVE  Spelled(iter) <=> IsAppending(iter, chain, Bare(structs), Len(structs))
  <2>1. ASSUME NEW s \in SUBSET (1 .. Len(structs)), s # {}
        PROVE  Bare(structs)[Max(s)] = [sType |-> structs[Max(s)].sType, fields |-> {}]
    BY <1>1, <2>1, LastIn DEF Bare
  <2>. QED BY <2>1 DEF IsAppending
<1>5. Spelled(chosen)
  <2>1. \E iter : Spelled(iter)
    BY <1>1, <1>4, AppendingExists
  <2>. HIDE DEF Spelled
  <2>. QED BY <2>1
<1>. QED BY <1>3, <1>4, <1>5

LEMMA AppendingSteps ==
  ASSUME NEW iter, NEW chain, NEW structs, NEW n \in Nat, IsAppending(iter, chain, structs, n)
  PROVE  /\ iter[1 .. 0] = chain
         /\ \A k \in 0 .. n - 1 : iter[1 .. k + 1] = Appended(iter[1 .. k], structs[k + 1])
<1>1. 1 .. 0 = {} /\ {} \in SUBSET (1 .. n)
  OBVIOUS
<1>2. ASSUME NEW k \in 0 .. n - 1
      PROVE  iter[1 .. k + 1] = Appended(iter[1 .. k], structs[k + 1])
  <2>1. k \in Nat /\ k + 1 \in 1 .. k + 1 /\ 1 .. k + 1 # {} /\ 1 .. k + 1 \in SUBSET (1 .. n)
    <3>1. k \in Nat /\ k + 1 \in 1 .. k + 1 /\ k + 1 <= n
      OBVIOUS
    <3>2. \A i \in 1 .. k + 1 : i \in 1 .. n
      BY <3>1
    <3>. QED BY <3>1, <3>2
  <2>2. Max(1 .. k + 1) = k + 1
    BY <2>1, LastOfPrefix
  <2>3. (1 .. k + 1) \ {k + 1} = 1 .. k
    BY <2>1
  <2>4. iter[1 .. k + 1] = Appended(iter[(1 .. k + 1) \ {Max(1 .. k + 1)}], structs[Max(1 .. k + 1)])
    BY <2>1 DEF IsAppending
  <2>. QED BY <2>2, <2>3, <2>4
<1>. QED BY <1>1, <1>2 DEF IsAppending

(* What holds of 0 and goes on holds up to n.                               *)
LEMMA UpTo ==
  ASSUME NEW n \in Nat, NEW good, 0 \in good, \A k \in 0 .. n - 1 : k \in good => k + 1 \in good
  PROVE  n \in good
<1>. DEFINE wrong == {k \in 0 .. n : k \notin good}
<1>1. wrong = {}
  <2>. SUFFICES ASSUME wrong # {} PROVE FALSE
    OBVIOUS
  <2>1. wrong \in SUBSET Nat
    OBVIOUS
  <2>2. PICK k \in wrong : \A j \in wrong : k <= j
    <3>. HIDE DEF wrong
    <3>. QED BY <2>1, LeastNumber
  <2>3. k - 1 \in 0 .. n - 1 /\ k - 1 \notin wrong
    BY <2>2
  <2>. QED BY <2>2, <2>3
<1>. QED BY <1>1

LEMMA OrdersStayEqual ==
  ASSUME NEW a, NEW b, a.order = b.order, NEW S, NEW structs \in Seq(S)
  PROVE  AppendAll(a, structs).order = AppendTypes(b, structs).order
<1>1. Len(structs) \in Nat /\ DOMAIN structs = 1 .. Len(structs)
  BY LenProperties
<1>2. PICK f : /\ IsAppending(f, a, structs, Len(structs))
               /\ AppendAll(a, structs) = f[1 .. Len(structs)]
  BY AppendAllIs
<1>3. PICK g : /\ IsAppending(g, b, Bare(structs), Len(structs))
               /\ AppendTypes(b, structs) = g[1 .. Len(structs)]
  BY AppendTypesIs
<1>. DEFINE good == {k \in Nat : f[1 .. k].order = g[1 .. k].order}
<1>4. 0 \in good
  BY <1>1, <1>2, <1>3, AppendingSteps
<1>5. ASSUME NEW k \in 0 .. Len(structs) - 1, k \in good
      PROVE  k + 1 \in good
  <2>1. /\ f[1 .. k + 1] = Appended(f[1 .. k], structs[k + 1])
        /\ g[1 .. k + 1] = Appended(g[1 .. k], Bare(structs)[k + 1])
    BY <1>1, <1>2, <1>3, AppendingSteps
  <2>2. Bare(structs)[k + 1].sType = structs[k + 1].sType
    BY <1>1 DEF Bare
  <2>3. f[1 .. k].order = g[1 .. k].order
    BY <1>5
  <2>4. \A c, d, x, y : c.order = d.order /\ x.sType = y.sType
                          => Appended(c, x).order = Appended(d, y).order
    BY Zenon DEF Appended
  <2>5. f[1 .. k + 1].order = g[1 .. k + 1].order
    BY <2>1, <2>2, <2>3, <2>4
  <2>. QED BY <1>1, <2>5
<1>6. Len(structs) \in good
  <2>. HIDE DEF good
  <2>. QED BY <1>1, <1>4, <1>5, UpTo
<1>. QED BY <1>2, <1>3, <1>6

(* The features a chain gains are of the structures appended.               *)
LEMMA SetsGrow ==
  ASSUME NEW chain, NEW S, NEW structs \in Seq(S)
  PROVE  /\ \A feature \in AppendAll(chain, structs).set :
              feature \in chain.set \/ \E i \in DOMAIN structs : feature[1] = structs[i].sType
         /\ AppendTypes(chain, structs).set \subseteq chain.set
<1>1. Len(structs) \in Nat /\ DOMAIN structs = 1 .. Len(structs)
  BY LenProperties
<1>2. ASSUME NEW feature \in AppendAll(chain, structs).set
      PROVE  feature \in chain.set \/ \E i \in DOMAIN structs : feature[1] = structs[i].sType
  <2>1. PICK f : /\ IsAppending(f, chain, structs, Len(structs))
                 /\ AppendAll(chain, structs) = f[1 .. Len(structs)]
    BY AppendAllIs
  <2>. DEFINE Known(x) == x \in chain.set \/ \E i \in DOMAIN structs : x[1] = structs[i].sType
              good == {k \in Nat : \A x \in f[1 .. k].set : Known(x)}
  <2>2. 0 \in good
    BY <1>1, <2>1, AppendingSteps
  <2>3. ASSUME NEW k \in 0 .. Len(structs) - 1, k \in good
        PROVE  k + 1 \in good
    <3>1. f[1 .. k + 1] = Appended(f[1 .. k], structs[k + 1])
      BY <1>1, <2>1, AppendingSteps
    <3>2. \A x \in f[1 .. k + 1].set : x \in f[1 .. k].set \/ x[1] = structs[k + 1].sType
      BY <3>1 DEF Appended
    <3>. QED BY <1>1, <2>3, <3>2
  <2>4. Len(structs) \in good
    <3>. HIDE DEF good
    <3>. QED BY <1>1, <2>2, <2>3, UpTo
  <2>. QED BY <2>1, <2>4
<1>3. AppendTypes(chain, structs).set \subseteq chain.set
  <2>1. PICK g : /\ IsAppending(g, chain, Bare(structs), Len(structs))
                 /\ AppendTypes(chain, structs) = g[1 .. Len(structs)]
    BY AppendTypesIs
  <2>. DEFINE good == {k \in Nat : g[1 .. k].set \subseteq chain.set}
  <2>2. 0 \in good
    BY <1>1, <2>1, AppendingSteps
  <2>3. ASSUME NEW k \in 0 .. Len(structs) - 1, k \in good
        PROVE  k + 1 \in good
    <3>1. g[1 .. k + 1] = Appended(g[1 .. k], Bare(structs)[k + 1])
      BY <1>1, <2>1, AppendingSteps
    <3>2. Bare(structs)[k + 1].fields = {}
      BY <1>1 DEF Bare
    <3>3. g[1 .. k + 1].set = g[1 .. k].set
      BY <3>1, <3>2 DEF Appended
    <3>. QED BY <2>3, <3>3
  <2>4. Len(structs) \in good
    <3>. HIDE DEF good
    <3>. QED BY <1>1, <2>2, <2>3, UpTo
  <2>. QED BY <2>1, <2>4
<1>. QED BY <1>2, <1>3
-----------------------------------------------------------------------------
(* What clients ask for, with what it depends on                            *)
AskedFor ==
  WantedExtensions \union DebugUtils \union {SwapchainExtension} \union
    UNION {UNION {Implied(structs[i]) : i \in DOMAIN structs} :
             structs \in WantedChains \union {CoreFeatures}}

Askable == AskedFor \union UNION {DependsOn[e] : e \in AskedFor}

(* The extensions of a structure, if they are one, are asked for with it.   *)
ExtensionsFollow(chain, list) ==
  \A feature \in chain.set :
    /\ feature[1] \in DOMAIN AssociatedWith
    /\ Cardinality(AssociatedWith[feature[1]]) = 1 => AssociatedWith[feature[1]] \subseteq list

ChainsInvariant ==
  /\ ChainsInStep
  /\ requiredExtensions \union optionalExtensions \subseteq Askable
  /\ ExtensionsFollow(requiredFeatureChain, requiredExtensions)
  /\ ExtensionsFollow(optionalFeatureChain, requiredExtensions \union optionalExtensions)
  /\ stage = "choosing" =>
       /\ ChainConfigured(requiredFeatureChain, requiredExtensions)
       /\ ChainConfigured(optionalFeatureChain, optionalExtensions)

LEMMA ExtensionsStayAskable ==
  ASSUME NEW list \in SUBSET Askable, NEW es \in SUBSET AskedFor, NEW required
  PROVE  /\ Required(list, es) \subseteq Askable
         /\ Optional(list, es, required) \subseteq Askable
BY DEF Askable, Required, Optional, Dependencies

(* vkm_initializer_findFeature: the structures go into both chains, their   *)
(* fields into one, and their extensions into the list of that name.        *)
LEMMA FindFeatureFollows ==
  ASSUME NEW require \in BOOLEAN, NEW structs \in WantedChains \union {CoreFeatures},
         NEW rx \in SUBSET Askable, NEW ox \in SUBSET Askable, NEW rc, NEW oc,
         rc.order = oc.order, ExtensionsFollow(rc, rx), ExtensionsFollow(oc, rx \union ox),
         FindFeatureIn(require, structs, rx, ox, rc, oc)
  PROVE  /\ ChainsInStep'
         /\ requiredExtensions' \union optionalExtensions' \subseteq Askable
         /\ ExtensionsFollow(requiredFeatureChain', requiredExtensions')
         /\ ExtensionsFollow(optionalFeatureChain', requiredExtensions' \union optionalExtensions')
<1>. DEFINE implied == UNION {Implied(structs[i]) : i \in DOMAIN structs}
            S == [sType : DOMAIN AssociatedWith, fields : SUBSET STRING]
<1>1. structs \in Seq(S)
  BY StartupAssumption
<1>2. implied \in SUBSET AskedFor
  BY DEF AskedFor
<1>3. \A i \in DOMAIN structs :
        /\ structs[i].sType \in DOMAIN AssociatedWith
        /\ Cardinality(AssociatedWith[structs[i].sType]) = 1 =>
             AssociatedWith[structs[i].sType] \subseteq implied
  <2>1. ASSUME NEW i \in DOMAIN structs
        PROVE  structs[i] \in S
    BY <1>1, <2>1, LenProperties, ElementOfSeq
  <2>. QED BY <2>1 DEF Implied
<1>. HIDE DEF implied, S
<1>4. CASE require
  <2>1. /\ requiredExtensions' = Required(rx, implied) /\ optionalExtensions' = ox
        /\ requiredFeatureChain' = AppendAll(rc, structs)
        /\ optionalFeatureChain' = AppendTypes(oc, structs)
    BY <1>4 DEF FindFeatureIn, implied
  <2>2. ChainsInStep'
    BY <1>1, <2>1, OrdersStayEqual DEF ChainsInStep
  <2>3. rx \subseteq requiredExtensions' /\ implied \subseteq requiredExtensions'
    BY <2>1 DEF Required
  <2>4. ExtensionsFollow(requiredFeatureChain', requiredExtensions')
    <3>1. \A feature \in requiredFeatureChain'.set :
            feature \in rc.set \/ \E i \in DOMAIN structs : feature[1] = structs[i].sType
      BY <1>1, <2>1, SetsGrow
    <3>. QED BY <1>3, <2>3, <3>1 DEF ExtensionsFollow
  <2>5. ExtensionsFollow(optionalFeatureChain', requiredExtensions' \union optionalExtensions')
    <3>1. optionalFeatureChain'.set \subseteq oc.set
      BY <1>1, <2>1, SetsGrow
    <3>. QED BY <2>1, <2>3, <3>1 DEF ExtensionsFollow
  <2>. QED BY <1>2, <2>1, <2>2, <2>4, <2>5, ExtensionsStayAskable
<1>5. CASE ~ require
  <2>1. /\ requiredExtensions' = rx /\ optionalExtensions' = Optional(ox, implied, rx)
        /\ requiredFeatureChain' = AppendTypes(rc, structs)
        /\ optionalFeatureChain' = AppendAll(oc, structs)
    BY <1>5 DEF FindFeatureIn, implied
  <2>2. ChainsInStep'
    BY <1>1, <2>1, OrdersStayEqual DEF ChainsInStep
  <2>3. ox \subseteq optionalExtensions' /\ implied \subseteq rx \union optionalExtensions'
    BY <2>1 DEF Optional
  <2>4. ExtensionsFollow(requiredFeatureChain', requiredExtensions')
    <3>1. requiredFeatureChain'.set \subseteq rc.set
      BY <1>1, <2>1, SetsGrow
    <3>. QED BY <2>1, <3>1 DEF ExtensionsFollow
  <2>5. ExtensionsFollow(optionalFeatureChain', requiredExtensions' \union optionalExtensions')
    <3>1. \A feature \in optionalFeatureChain'.set :
            feature \in oc.set \/ \E i \in DOMAIN structs : feature[1] = structs[i].sType
      BY <1>1, <2>1, SetsGrow
    <3>. QED BY <1>3, <2>1, <2>3, <3>1 DEF ExtensionsFollow
  <2>. QED BY <1>2, <2>1, <2>2, <2>4, <2>5, ExtensionsStayAskable
<1>. QED BY <1>4, <1>5

LEMMA ChainsInitially == InitializerInit => ChainsInvariant
BY DEF InitializerInit, ChainsInvariant, ChainsInStep, ExtensionsFollow, NoChain

(* What changes no chain, and no list, and starts no search                 *)
LEMMA ChainsUnchanged ==
  ASSUME ChainsInvariant, UNCHANGED requestVars, stage' = "choosing" => stage = "choosing"
  PROVE  ChainsInvariant'
BY DEF ChainsInvariant, ChainsInStep, ExtensionsFollow, ChainConfigured, requestVars

LEMMA ChainsStep ==
  ASSUME StartupInvariant, ChainsInvariant, [InitializerNext]_<<initializerVars, runtimeVars>>
  PROVE  ChainsInvariant'
<1>1. ASSUME NEW info \in CreateInfos, CreateInitializer(info)
      PROVE  ChainsInvariant'
  <2>. DEFINE own == Required({}, DebugUtils)
  <2>1. FindFeatureIn(TRUE, CoreFeatures, own, {}, NoChain, NoChain) /\ stage' = "config"
    BY <1>1 DEF CreateInitializer
  <2>2. own \in SUBSET Askable
    BY ExtensionsStayAskable DEF AskedFor
  <2>3. /\ NoChain.order = NoChain.order
        /\ ExtensionsFollow(NoChain, own) /\ ExtensionsFollow(NoChain, own \union {})
    BY DEF NoChain, ExtensionsFollow
  <2>. HIDE DEF own
  <2>. QED BY <2>1, <2>2, <2>3, FindFeatureFollows DEF ChainsInvariant
<1>2. ASSUME NEW require \in BOOLEAN, NEW e \in WantedExtensions, FindExtension(require, e)
      PROVE  ChainsInvariant'
  <2>1. /\ requiredExtensions' \in {requiredExtensions, Required(requiredExtensions, {e})}
        /\ optionalExtensions' \in
             {optionalExtensions, Optional(optionalExtensions, {e}, requiredExtensions)}
        /\ UNCHANGED <<requiredFeatureChain, optionalFeatureChain>> /\ stage' = "config"
    BY <1>2 DEF FindExtension, Request
  <2>2. {e} \in SUBSET AskedFor
    BY DEF AskedFor
  <2>3. requiredExtensions' \union optionalExtensions' \subseteq Askable
    BY <2>1, <2>2, ExtensionsStayAskable DEF ChainsInvariant
  <2>4. requiredExtensions \subseteq requiredExtensions' /\ optionalExtensions \subseteq optionalExtensions'
    BY <2>1 DEF Required, Optional
  <2>. QED BY <2>1, <2>3, <2>4 DEF ChainsInvariant, ChainsInStep, ExtensionsFollow
<1>3. ASSUME NEW require \in BOOLEAN, NEW structs \in WantedChains, FindFeature(require, structs)
      PROVE  ChainsInvariant'
  <2>1. /\ FindFeatureIn(require, structs, requiredExtensions, optionalExtensions,
                         requiredFeatureChain, optionalFeatureChain)
        /\ stage' = "config"
    BY <1>3 DEF FindFeature, Request
  <2>. QED BY <2>1, FindFeatureFollows DEF ChainsInvariant, ChainsInStep
<1>4. ASSUME NEW surface \in Surfaces, FindPresentationSupport(surface)
      PROVE  ChainsInvariant'
  <2>1. /\ requiredExtensions' = Required(requiredExtensions, {SwapchainExtension})
        /\ UNCHANGED <<optionalExtensions, requiredFeatureChain, optionalFeatureChain>>
        /\ stage' = "config"
    BY <1>4 DEF FindPresentationSupport, Request
  <2>2. {SwapchainExtension} \in SUBSET AskedFor
    BY DEF AskedFor
  <2>3. requiredExtensions' \union optionalExtensions' \subseteq Askable
    BY <2>1, <2>2, ExtensionsStayAskable DEF ChainsInvariant
  <2>4. requiredExtensions \subseteq requiredExtensions'
    BY <2>1 DEF Required
  <2>. QED BY <2>1, <2>3, <2>4 DEF ChainsInvariant, ChainsInStep, ExtensionsFollow
<1>5. CASE \/ \E format \in WantedFormats : FindImageFormatFeature2(format)
           \/ \E q \in WantedQueues : FindQueue(q[1], q[2], q[3])
  BY <1>5 DEF FindImageFormatFeature2, FindQueue, Request, ChainsInvariant, ChainsInStep,
              ExtensionsFollow
<1>6. CASE CreateDevice
  <2>1. UNCHANGED requestVars
    BY <1>6 DEF CreateDevice
  <2>2. stage' = "choosing" /\ stage # "choosing" => Configured
    BY <1>6 DEF CreateDevice
  <2>3. stage = "config"
    BY <1>6 DEF CreateDevice
  <2>. QED
    BY <2>1, <2>2, <2>3 DEF ChainsInvariant, ChainsInStep, ExtensionsFollow, ChainConfigured,
                            Configured, requestVars
<1>7. CASE DestroyInitializer
  BY <1>7 DEF DestroyInitializer, ChainsInvariant, ChainsInStep, ExtensionsFollow, NoChain
<1>8. CASE CreateInstance \/ TryDevice \/ NoDevice \/ Aborted
           \/ UNCHANGED <<initializerVars, runtimeVars>>
           \/ ((InstanceNext \/ DeviceNext) /\ UNCHANGED initializerVars)
  <2>1. UNCHANGED requestVars /\ (stage' = "choosing" => stage = "choosing")
    BY <1>8 DEF CreateInstance, ScanInstanceExtensions, TryDevice, NoDevice, Aborted,
                initializerVars, searchVars
  <2>. QED BY <2>1, ChainsUnchanged
<1>. QED
  BY <1>1, <1>2, <1>3, <1>4, <1>5, <1>6, <1>7, <1>8 DEF InitializerNext, Going, Requests

(* Any sequence of vkm_initializer_* calls keeps the requests consistent:   *)
(* they are typed, the two feature chains have the same structures in the   *)
(* same order, which findFeatures walks side by side, and GPUs of the       *)
(* preferred type are tried first, although getDevices sorts by a           *)
(* comparator that is no order.                                             *)
THEOREM RequestsAlwaysSound ==
  ASSUME InitAgain = FALSE
  PROVE  InitializerSpec => []RequestsSound
<1>. DEFINE Inv == RuntimeInvariant /\ StartupInvariant /\ ChainsInvariant
<1>1. InitializerInit => Inv
  BY RuntimeInitially, StartupInitially, ChainsInitially
<1>2. Inv /\ [InitializerNext]_<<initializerVars, runtimeVars>> => Inv'
  BY RuntimeStep, StartupStep, ChainsStep DEF StartupInvariant
<1>3. Inv => RequestsSound
  BY DEF RuntimeInvariant, RuntimeTypes, StartupInvariant, Requested, Searching, StartupTypeOK,
         ChainsInvariant, RequestsSound
<1>. QED
  BY <1>1, <1>2, <1>3, PTL DEF InitializerSpec

(* A GPU with a feature has every extension that defines it, of those that   *)
(* clients ask for.                                                         *)
ExtensionsOfFeatures ==
  \A s \in Systems : \A g \in DOMAIN s.gpus : \A feature \in s.gpus[g].features :
    feature[1] \in DOMAIN AssociatedWith =>
      AssociatedWith[feature[1]] \intersect Askable \subseteq s.gpus[g].extensions \ InstanceExtensions

LEMMA FeaturesOfSelectedBacked ==
  ASSUME ExtensionsOfFeatures, StartupInvariant, ChainsInvariant,
         [InitializerNext]_<<initializerVars, runtimeVars>>, Selects
  PROVE  \A feature \in enabledFeatures' : LET es == AssociatedWith[feature[1]] IN
           es # {} => es \intersect enabledDeviceExtensions' # {}
<1>. SUFFICES ASSUME NEW feature \in enabledFeatures', AssociatedWith[feature[1]] # {}
              PROVE  AssociatedWith[feature[1]] \intersect enabledDeviceExtensions' # {}
  OBVIOUS
<1>. DEFINE es == AssociatedWith[feature[1]]
            g == selected'
            asked == requiredExtensions \union optionalExtensions
<1>1. /\ enabledDeviceExtensions' = (asked \ InstanceExtensions) \intersect Gpu(g).extensions
      /\ enabledFeatures' = FeaturesOf(g)
      /\ g \in DOMAIN system.gpus /\ stage = "choosing" /\ system \in Systems
  BY Selected DEF DeviceExtensions, StartupInvariant, Requested
<1>2. /\ feature \in requiredFeatureChain.set \/ feature \in optionalFeatureChain.set
      /\ feature \in system.gpus[g].features
  BY <1>1 DEF FeaturesOf, Gpu
<1>3. feature[1] \in DOMAIN AssociatedWith
  BY <1>2 DEF ChainsInvariant, ExtensionsFollow
<1>4. Cardinality(es) = 1 \/ Cardinality(es) > 1
  <2>1. es \subseteq Extensions /\ IsFiniteSet(Extensions)
    BY <1>3, StartupAssumption
  <2>2. IsFiniteSet(es)
    BY <2>1, FS_Subset
  <2>3. Cardinality(es) \in Nat /\ Cardinality(es) # 0
    BY <2>2, FS_CardinalityType, FS_EmptySet
  <2>. QED BY <2>3
<1>5. es \intersect asked # {}
  <2>1. CASE Cardinality(es) = 1
    BY <1>2, <2>1 DEF ChainsInvariant, ExtensionsFollow
  <2>2. CASE Cardinality(es) > 1
    BY <1>1, <1>2, <2>2 DEF ChainsInvariant, ChainConfigured
  <2>. QED BY <1>4, <2>1, <2>2
<1>6. es \intersect Askable \subseteq system.gpus[g].extensions \ InstanceExtensions
  BY <1>1, <1>2, <1>3 DEF ExtensionsOfFeatures
<1>7. asked \subseteq Askable
  BY DEF ChainsInvariant
<1>. QED
  BY <1>1, <1>5, <1>6, <1>7 DEF Gpu

(* The device can use all it was created with: what an enabled extension    *)
(* depends on is enabled with it, on the device or on the instance an       *)
(* initializer made, and a feature only with an extension that defines it,  *)
(* if nothing is asked for once there is an instance and no GPU has a       *)
(* feature by another of its extensions than those asked for.               *)
THEOREM EnabledAlwaysUsable ==
  ASSUME LateCalls = FALSE, ExtensionsOfFeatures
  PROVE  InitializerSpec => EnabledUsable
<1>. DEFINE AllBacked ==
              \A feature \in enabledFeatures' : LET es == AssociatedWith[feature[1]] IN
                es # {} => es \intersect enabledDeviceExtensions' # {}
<1>1. InitializerInit => StartupInvariant /\ ChainsInvariant
  BY StartupInitially, ChainsInitially
<1>2. StartupInvariant /\ ChainsInvariant /\ [InitializerNext]_<<initializerVars, runtimeVars>>
        => (StartupInvariant /\ ChainsInvariant)'
  BY StartupStep, ChainsStep
<1>3. StartupInvariant /\ ChainsInvariant /\ [InitializerNext]_<<initializerVars, runtimeVars>>
        => [Selects => AllBacked]_initializerVars
  BY FeaturesOfSelectedBacked
<1>. QED
  BY <1>1, <1>2, <1>3, DependenciesAlwaysEnabled, PTL
     DEF InitializerSpec, EnabledUsable, FeaturesBacked
=============================================================================
