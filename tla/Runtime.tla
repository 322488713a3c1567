------------------------------ MODULE Runtime ------------------------------
(***************************************************************************)
(* src/vkm.cpp and src/device/device.cpp: the library's process-wide state *)
(* (the instance, its table of functions, its debug messenger) and the     *)
(* devices made from it.  An instance is lent to the library, given to it, *)
(* or made by an initializer.  The build is one without NDEBUG, which does *)
(* more: the messenger, and the functions it needs.                        *)
(***************************************************************************)
EXTENDS Naturals, Sequences, FiniteSets

CONSTANTS
  Systems,      \* the machines: loader, drivers and GPUs
  Instances,    \* VkInstance handles
  Null,
  MaxDevices,   \* bound on the devices alive at a time
  InitAgain,    \* a client may call vkm_init(null) without vkm_shutdown
  GiveUp        \* a client may call vkm_shutdown after a vkm_init that failed

ASSUME RuntimeAssumption ==
  /\ Null \notin Instances \union Nat
  /\ \A s \in Systems : Len(s.gpus) \in Nat /\ DOMAIN s.gpus = 1 .. Len(s.gpus)

VARIABLES
  system,        \* external, never changes
  loader,        \* vkfns[vkGetInstanceProcAddr] is set
  vkInstance,
  ownedInstance,
  vkfns,         \* function -> the instance it was resolved for, or Null
  vkMessenger,   \* the instance the messenger belongs to, or Null
  made,          \* external: instances alive, made by an initializer
  given,         \* external: instances alive, given to vkm_init
  lent,          \* external: instances alive, only lent to vkm_init
  devices,       \* vkm_device objects
  stopped        \* "no", "fatal", or "trap" when a null function is called

instanceVars == <<loader, vkInstance, ownedInstance, vkfns, vkMessenger, made, given, lent>>

Alive == made \union given \union lent

(* vkfn.inc, by one function for each use made of the table here *)
Fns == {"vkDestroyInstance", "vkCreateDevice", "vkEnumeratePhysicalDevices",
        "vkCreateDebugUtilsMessengerEXT", "vkDestroyDebugUtilsMessengerEXT"}

(* vkGetInstanceProcAddr: null for a function the instance lacks, and for   *)
(* one of an instance that is not there.                                    *)
GetInstanceProcAddr(instance, fn) ==
  IF instance = Null \/ fn \in system.lacks THEN Null ELSE instance

NoFns == [fn \in Fns |-> Null]

(* Fault: the functions stay. *)
KeptTable == vkfns

(* vkfns.fill(nullptr) *)
EmptyTable == NoFns

(* vkm_getProcAddr for each function of `fns`: what is cached, or a lookup  *)
ProcAddrs(table, fns, instance) ==
  [fn \in Fns |->
     IF fn \in fns /\ table[fn] = Null THEN GetInstanceProcAddr(instance, fn) ELSE table[fn]]

(* initInstance, with the table as it is on entry *)
InitInstance(instance, owned, table) ==
  /\ \/ /\ vkInstance # Null
        /\ stopped' = "fatal"
        /\ vkfns' = table
        /\ UNCHANGED <<vkInstance, ownedInstance, vkMessenger>>
     \/ /\ vkInstance = Null
        /\ vkInstance' = instance
        /\ ownedInstance' = owned
        /\ vkfns' = ProcAddrs(table, Fns, instance)
        /\ vkMessenger' \in
             IF \E fn \in Fns : vkfns'[fn] = Null   \* VK_ERROR_INCOMPATIBLE_DRIVER
             THEN {vkMessenger}
             ELSE {instance, Null}                  \* a failure is only logged
        /\ UNCHANGED stopped

(* vkm_init with an instance of the client *)
InitGiven(instance, gainOwnership) ==
  /\ vkInstance = Null
  /\ instance \notin made \union given
  /\ given' = IF gainOwnership THEN given \union {instance} ELSE given
  /\ lent' = IF gainOwnership THEN lent \ {instance} ELSE lent \union {instance}
  /\ loader' = TRUE
  /\ InitInstance(instance, gainOwnership, EmptyTable)
  /\ UNCHANGED <<system, made, devices>>

(* vkm_init with a null instance: VK_INCOMPLETE *)
InitLater ==
  /\ vkInstance = Null \/ InitAgain
  /\ loader' = TRUE
  /\ vkfns' = EmptyTable
  /\ ownedInstance' = FALSE
  /\ UNCHANGED <<system, vkInstance, vkMessenger, made, given, lent, devices, stopped>>

(* What vkm_shutdown calls that is not there *)
Uncallable ==
  {fn \in {"vkDestroyDebugUtilsMessengerEXT"} \union
          (IF ownedInstance THEN {"vkDestroyInstance"} ELSE {}) :
     ProcAddrs(vkfns, {fn}, vkInstance)[fn] = Null}

(* vkm_shutdown: the owned instance is destroyed, wherever it came from.    *)
Shutdown ==
  /\ loader
  /\ devices = {}
  /\ \/ /\ Uncallable # {} /\ GiveUp
        /\ stopped' = "trap"
        /\ UNCHANGED instanceVars
     \/ /\ Uncallable = {}
        /\ LET destroyed == IF ownedInstance THEN {vkInstance} ELSE {}
           IN  /\ made' = made \ destroyed
               /\ given' = given \ destroyed
               /\ lent' = lent \ destroyed
        /\ loader' = FALSE
        /\ vkInstance' = Null
        /\ vkMessenger' = Null
        /\ vkfns' = EmptyTable
        /\ UNCHANGED <<ownedInstance, stopped>>
  /\ UNCHANGED <<system, devices>>

(* external: a client destroys the instance it had only lent. *)
DestroyLent(instance) ==
  /\ instance \in lent \ {vkInstance}
  /\ lent' = lent \ {instance}
  /\ UNCHANGED <<system, loader, vkInstance, ownedInstance, vkfns, vkMessenger,
                 made, given, devices, stopped>>
-----------------------------------------------------------------------------
(* Fault: two GPUs of one kind get one identifier. *)
NamelessUUID(gpu, index) == <<system.gpus[gpu].vendorID, 0, system.gpus[gpu].deviceID>>

(* generateUUID *)
GenerateUUID(gpu, index) == <<system.gpus[gpu].vendorID, index, system.gpus[gpu].deviceID>>

(* vkm_device_getVkPhysicalDeviceFromUUID: enumeration counts from 0. *)
FromUUID(uuid) ==
  IF uuid[2] < Len(system.gpus) /\ GenerateUUID(uuid[2] + 1, uuid[2]) = uuid
  THEN uuid[2] + 1
  ELSE Null

(* setupProperties searches the enumeration for the handle. *)
IndexOf(gpu) == CHOOSE i \in 0 .. Len(system.gpus) - 1 : i + 1 = gpu

(* The client saw VK_SUCCESS. *)
Initialized == vkInstance # Null /\ system.lacks = {}

(* vkm_initDevice: setupProperties, setupVKFNs and setupVMA, each fatal if   *)
(* the driver refuses it.                                                   *)
InitDevice(gpu, gainOwnership, optionalFeatures) ==
  /\ \/ stopped' = "fatal" /\ system.gpus[gpu].refuses /\ UNCHANGED devices
     \/ /\ ~ system.gpus[gpu].refuses
        /\ devices' = devices \union
             {[handle |-> CHOOSE h \in 0 .. MaxDevices : \A d \in devices : d.handle # h,
               gpu |-> gpu, owned |-> gainOwnership, optional |-> optionalFeatures,
               uuid |-> GenerateUUID(gpu, IndexOf(gpu))]}
        /\ UNCHANGED stopped

(* vkm_initDevice with a VkDevice of the client *)
InitDeviceGiven(gpu, gainOwnership) ==
  /\ Initialized
  /\ Cardinality(devices) < MaxDevices
  /\ InitDevice(gpu, gainOwnership, {})
  /\ UNCHANGED <<system, instanceVars>>

(* vkm_destroyDevice *)
DestroyDevice(device) ==
  /\ device \in devices
  /\ devices' = devices \ {device}
  /\ UNCHANGED <<system, instanceVars, stopped>>
-----------------------------------------------------------------------------
RuntimeInit ==
  /\ system \in Systems
  /\ loader = FALSE
  /\ vkInstance = Null
  /\ ownedInstance = FALSE
  /\ vkfns = NoFns
  /\ vkMessenger = Null
  /\ made = {}
  /\ given = {}
  /\ lent = {}
  /\ devices = {}
  /\ stopped = "no"

InstanceNext ==
  \/ \E instance \in Instances, gainOwnership \in BOOLEAN : InitGiven(instance, gainOwnership)
  \/ InitLater
  \/ Shutdown
  \/ \E instance \in Instances : DestroyLent(instance)

DeviceNext ==
  \/ \E gpu \in DOMAIN system.gpus, gainOwnership \in BOOLEAN :
       InitDeviceGiven(gpu, gainOwnership)
  \/ \E device \in devices : DestroyDevice(device)
-----------------------------------------------------------------------------
(* Type invariant, stated with the initializer's in Initializer.tla *)
RuntimeTypeOK ==
  /\ system \in Systems
  /\ loader \in BOOLEAN
  /\ vkInstance \in Instances \union {Null}
  /\ ownedInstance \in BOOLEAN
  /\ vkfns \in [Fns -> Instances \union {Null}]
  /\ vkMessenger \in Instances \union {Null}
  /\ made \subseteq Instances /\ given \subseteq Instances /\ lent \subseteq Instances
  /\ stopped \in {"no", "fatal", "trap"}

(* No function of the table, and no messenger, is of an instance other than *)
(* the one in use: nothing survives a shutdown to be called on the next.    *)
ProcsCurrent ==
  /\ \A fn \in Fns : vkfns[fn] \in {vkInstance, Null}
  /\ vkMessenger \in {vkInstance, Null}

(* An instance made by an initializer, or given to vkm_init, is the library's *)
(* to destroy until it is destroyed (vkm.h: "this is always true for        *)
(* instances created from initializers").                                   *)
InstancesOwned ==
  stopped = "no" =>
  /\ \A instance \in made \union given : vkInstance = instance /\ ownedInstance
  /\ vkInstance \in lent => ~ ownedInstance

(* vkm_shutdown never calls a function that is not there, also after a      *)
(* vkm_init that failed, which must be shut down before another one         *)
(* (initInstance: "Cannot init twice without calling vkm_shutdown").        *)
ShutdownReturns == stopped # "trap"

(* A device's identifier finds that device and no other, among GPUs of the  *)
(* same kind too.                                                           *)
UuidNamesDevice == \A device \in devices : FromUUID(device.uuid) = device.gpu

(* Together: tables, ownership and identifiers name only what is alive, over  *)
(* any sequence of vkm_init, vkm_shutdown, vkm_initDevice, vkm_destroyDevice. *)
RuntimeSound == ProcsCurrent /\ InstancesOwned /\ UuidNamesDevice
=============================================================================
