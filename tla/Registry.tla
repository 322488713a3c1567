------------------------------ MODULE Registry ------------------------------
(***************************************************************************)
(* gen.go and vkspec: from the Vulkan registry, vk.xml, to the tables vkm  *)
(* is built with: which commands are looked up and by what, which          *)
(* extensions an extension needs, and which extensions bring a feature     *)
(* structure. Go visits a map in any order, so the loop over the           *)
(* dependencies takes its extensions one at a time, in any order.          *)
(***************************************************************************)
EXTENDS Integers, Sequences, FiniteSets, SequencesExt

(* An extension is [kind, valid, platform, provisional, promoted, core,      *)
(* depends, commands, types]. promoted: to which extension, or None; core:   *)
(* into which version, or 0; depends: a set of alternatives, each a set of   *)
(* extensions. A command is [alias, handle], its first parameter; a handle   *)
(* [alias, parent]; a type [alias, plain], its name without the suffix.      *)
(* Promotions, aliases, parents and dependencies have no cycles.        *)

CONSTANTS
  Registries,      \* what vk.xml may say: [exts, commands, handles]
  MinApi,          \* VKM_VK_MIN_API
  None

(* The registry names what it describes, and gives each extension a kind.    *)
ASSUME RegistryAssumption ==
  \A r \in Registries :
    /\ IsFiniteSet(DOMAIN r.exts)
    /\ \A x \in DOMAIN r.exts : /\ UNION r.exts[x].depends \subseteq DOMAIN r.exts
                                /\ r.exts[x].kind \in {"instance", "device"}

VARIABLES
  registry,        \* one of Registries
  stage,           \* the loop genExtensionReflection is in, or its end
  left,            \* the extensions it has not visited
  entries          \* dependencies: extension -> [promotion, instance, device], for those in the map

registryVars == <<registry, stage, left, entries>>

Exts == DOMAIN registry.exts

Ext(x) == registry.exts[x]

-----------------------------------------------------------------------------
(* vkspec *)

(* An alias stands for what is at the end of its chain. *)
Origin(table, x) ==
  LET end[y \in DOMAIN table] == IF table[y].alias = None THEN y ELSE end[table[y].alias]
  IN  end[x]

(* The first parameter of a command, alias or not *)
HandleOf(c) == registry.commands[Origin(registry.commands, c)].handle

ParentOf(h) == registry.handles[Origin(registry.handles, h)].parent

(* "(", ")" are dropped and "," read as "+": all the alternatives are needed.  *)
Depends(x) == UNION Ext(x).depends

(* The extension at the end of a chain of promotions, and how far it is *)
FinalOf(x) ==
  LET end[y \in Exts] == IF Ext(y).promoted = None THEN y ELSE end[Ext(y).promoted]
  IN  end[x]

PromotionDepth(x) ==
  LET depth[y \in Exts] == IF Ext(y).promoted = None THEN 0 ELSE 1 + depth[Ext(y).promoted]
  IN  depth[x]

(* The version at the end of the chain, 0 for none *)
CoreIn(x) == Ext(FinalOf(x)).core

-----------------------------------------------------------------------------
(* genDispatchTable *)

Unsupported == {"vkCreateInstance", "vkGetInstanceProcAddr", "vkGetDeviceProcAddr"}

Usable(x) == Ext(x).valid /\ ~ Ext(x).platform /\ ~ Ext(x).provisional

(* Fault: what is in the core of a later version is left out too. *)
BlacklistedPromoted ==
  Unsupported \union
  UNION {Ext(x).commands : x \in {y \in Exts : ~ (Usable(y) /\ CoreIn(y) = 0)}}

(* The commands of an extension that cannot be used or is in the core *)
Blacklisted ==
  Unsupported \union
  UNION {Ext(x).commands : x \in {y \in Exts :
    ~ (Usable(y) /\ CoreIn(y) = 0) /\ ~ MinApi < CoreIn(y)}}

(* Up the parents to the device or the instance; another root is a panic. *)
DispatcherOf(h) ==
  LET up[g \in DOMAIN registry.handles \union {None}] ==
        IF g \in {"VkInstance", "VkDevice", None} THEN g ELSE up[ParentOf(g)]
  IN  up[h]

(* The commands looked up through the instance, or through each device *)
Dispatched(table) ==
  {c \in DOMAIN registry.commands \ Blacklisted :
     IF HandleOf(c) \in DOMAIN registry.handles THEN DispatcherOf(HandleOf(c)) = table
     ELSE table = "VkInstance"}

-----------------------------------------------------------------------------
(* genStructReflection *)

(* Its structures are reflected under its own names, and list it. *)
Maps(x) ==
  \/ Usable(x) /\ CoreIn(x) = 0 /\ Ext(x).promoted = None
  \/ Ext(x).valid /\ ~ Ext(x).provisional /\ Ext(x).promoted = None /\ MinApi < Ext(x).core

(* Otherwise each structure counts for itself. One that is no alias maps the  *)
(* extension all over again;                                                 *)
MappedAgain(x) ==
  IF Maps(x) \/ ~ Ext(x).valid \/ Ext(x).provisional \/ CoreIn(x) # 0 THEN {}
  ELSE {t \in Ext(x).types : registry.types[t].alias = None}

(* the rest is left to the extension it was promoted to, or to the core. *)
LeftOut(x) == IF Maps(x) THEN {} ELSE Ext(x).types \ MappedAgain(x)

(* How many times x is in the list of structure t: structDependsMap *)
Listed(t, x) ==
  (IF t \in Ext(x).types THEN (IF Maps(x) THEN 1 ELSE 0) + Cardinality(MappedAgain(x)) ELSE 0)
  + (IF CoreIn(x) = 0 /\ FinalOf(x) # x /\ t \in Ext(FinalOf(x)).types
     THEN Cardinality(LeftOut(x)) ELSE 0)

(* The structures vkm knows the size of: all but those left out and the       *)
(* unsuffixed names of those mapped.                                         *)
Reflected ==
  DOMAIN registry.types
    \ UNION {LeftOut(x) \union
             (IF Maps(x) \/ MappedAgain(x) # {}
              THEN {registry.types[t].plain : t \in Ext(x).types} ELSE {}) : x \in Exts}

(* structDependsMap[t], sorted: the extension promoted last comes first. *)
DependsOf(t) ==
  LET listings == {l \in Exts \X (1..4) : l[2] <= Listed(t, l[1])}
      sorted == SetToSortSeq(listings, LAMBDA a, b : PromotionDepth(a[1]) < PromotionDepth(b[1]))
  IN [i \in DOMAIN sorted |-> sorted[i][1]]

-----------------------------------------------------------------------------
(* genExtensionReflection *)

(* In the core of the least version: nothing to enable *)
IsPromoted(x) == Ext(x).valid /\ CoreIn(x) # 0 /\ CoreIn(x) <= MinApi

(* isPromoted enters what is valid and not promoted. *)
Entered(S) ==
  [x \in DOMAIN entries \union {y \in S : Ext(y).valid /\ ~ IsPromoted(y)} |->
     IF x \in DOMAIN entries THEN entries[x]
     ELSE [promotion |-> CoreIn(x), instance |-> {}, device |-> {}]]

(* The extensions of a kind that those of S need themselves *)
Wanted(S, kind) ==
  {d \in UNION {Depends(x) : x \in S} : ~ IsPromoted(d) /\ Ext(d).kind = kind}

(* An extension and what it names, of either kind *)
Visit(x) ==
  /\ stage = "first" /\ x \in left
  /\ left' = left \ {x}
  /\ entries' =
       IF ~ Ext(x).valid \/ IsPromoted(x) THEN entries
       ELSE [Entered({x} \union Depends(x)) EXCEPT
               ![x].instance = Wanted({x}, "instance"), ![x].device = Wanted({x}, "device")]
  /\ UNCHANGED <<registry, stage>>

(* Fault: what was named is not asked what it needs. *)
AllNamed(S, kind) == S

(* The list grows while it is walked. *)
All(S, kind) ==
  LET all[T \in SUBSET Exts] ==
        IF Wanted(T, kind) \subseteq T THEN T ELSE all[T \union Wanted(T, kind)]
  IN  all[S]

(* The lists of an extension, completed; an instance extension that needs a   *)
(* device extension is a panic.                                              *)
Complete(x) ==
  /\ stage = "second" /\ x \in left
  /\ LET device == All(entries[x].device, "device")
         instance == All(entries[x].instance \union Wanted(device, "instance"), "instance")
     IN /\ entries' = [entries EXCEPT ![x].device = device, ![x].instance = instance]
        /\ stage' = IF Wanted(instance, "device") # {} THEN "panic" ELSE stage
  /\ left' = left \ {x}
  /\ UNCHANGED registry

(* From the loop over the registry to the one over the map, and out of it *)
NextLoop ==
  /\ left = {}
  /\ \/ stage = "first" /\ stage' = "second" /\ left' = DOMAIN entries
     \/ stage = "second" /\ stage' = "done" /\ UNCHANGED left
  /\ UNCHANGED <<registry, entries>>

Finished == stage \in {"done", "panic"} /\ UNCHANGED registryVars

RegistryInit ==
  /\ registry \in Registries
  /\ stage = "first" /\ left = Exts
  /\ entries = <<>>

RegistryNext == NextLoop \/ Finished \/ (\E x \in Exts : Visit(x) \/ Complete(x))

RegistrySpec == RegistryInit /\ [][RegistryNext]_registryVars

-----------------------------------------------------------------------------
(* Properties *)

(* The generator's state is what its declarations say (gen.go:522). *)
RegistryTypeOK ==
  /\ registry \in Registries
  /\ stage \in {"first", "second", "done", "panic"}
  /\ left \subseteq Exts
  /\ DOMAIN entries \subseteq Exts
  /\ \A x \in DOMAIN entries :
       /\ entries[x].promotion = 0 \/ entries[x].promotion > MinApi
       /\ entries[x].instance \union entries[x].device \subseteq Exts \ {x}

Needs(x) == {d \in Depends(x) : ~ IsPromoted(d)}

Closed(S) == \A x \in S : Needs(x) \subseteq S

(* In whatever order the maps are walked, an extension comes out with all it  *)
(* needs, directly or not, and no more, each in the list of its kind; the     *)
(* extensions without an entry are those that are not there or in the core.   *)
DependenciesComplete ==
  stage = "done" =>
    /\ DOMAIN entries = {x \in Exts : Ext(x).valid /\ ~ IsPromoted(x)}
    /\ \A x \in DOMAIN entries :
         LET d == entries[x]
             sufficient == {S \in SUBSET Exts : Needs(x) \subseteq S /\ Closed(S)}
         IN /\ d.instance \union d.device \in sufficient
            /\ \A S \in sufficient : d.instance \union d.device \subseteq S
            /\ \A y \in Exts : (y \in d.instance => Ext(y).kind = "instance")
                               /\ (y \in d.device => Ext(y).kind = "device")

(* Extensions a client of vkm can have: not for one platform, not provisional, *)
(* and not in the core anyway.                                               *)
Offered == {x \in Exts : Usable(x) /\ ~ IsPromoted(x)}

Ancestors(h) ==
  LET line[g \in DOMAIN registry.handles \union {None}] ==
        IF g = None THEN {} ELSE {g} \union line[ParentOf(g)]
  IN  line[h]

(* A command is looked up once, through the device if it acts on one or on what *)
(* belongs to it: every command of the core and of the extensions on offer, but *)
(* none of an extension that is neither on offer nor in a later version, even *)
(* if one on offer has it too (genDispatchTable, gen.go:209).                 *)
CommandsLookedUp ==
  \A c \in DOMAIN registry.commands \ Unsupported :
    LET owners == {x \in Exts : c \in Ext(x).commands}
        through == {table \in {"VkInstance", "VkDevice"} : c \in Dispatched(table)}
        right == IF HandleOf(c) \in DOMAIN registry.handles /\ "VkDevice" \in Ancestors(HandleOf(c))
                 THEN "VkDevice" ELSE "VkInstance"
    IN /\ through \subseteq {right}
       /\ owners \subseteq Offered => through = {right}
       /\ \A x \in owners : x \in Offered \/ MinApi < CoreIn(x) \/ through = {}

Same(t) == {s \in DOMAIN registry.types : Origin(registry.types, s) = Origin(registry.types, t)}

Owners(t) == {x \in Exts : Ext(x).types \intersect Same(t) # {}}

(* In a version, but not in one above the least by itself: the structures of    *)
(* such an extension are taken to be in the core under another name.          *)
TakenForCore(x) == CoreIn(x) # 0 /\ ~ MinApi < Ext(x).core

(* Of the names of a structure at most one is reflected: a second would be the  *)
(* same case of a switch again. One is, unless the extension it is of cannot   *)
(* be enabled, or it has no other name and its extension is taken for core.    *)
(* Of a name that several extensions have none may be, whoever offers it:      *)
(* each extension leaves it out for all (genStructReflection, gen.go:331).    *)
StructsReflected ==
  \A t \in DOMAIN registry.types :
    LET names == Cardinality(Same(t) \intersect Reflected)
        shared == \E s \in Same(t) : \E x, y \in Exts : x # y /\ s \in Ext(x).types \intersect Ext(y).types
        enabled == \A x \in Owners(t) : Ext(x).valid /\ ~ Ext(x).provisional
        kept == Cardinality(Same(t)) > 1 \/ \A x \in Owners(t) : ~ TakenForCore(x)
    IN names <= 1 /\ (~ shared => names = IF enabled /\ kept THEN 1 ELSE 0)

(* A reflected structure lists the extensions to enable that have it under any *)
(* name, the newest first, but not one promoted to another that went into a    *)
(* later version. It lists others too: those promoted to one that has it.     *)
(* features.cpp:63 tells by the length whether there is a choice, so that one  *)
(* listed twice would look like one: an extension is that only if it is for a *)
(* platform or was promoted to another, and has structures without an alias.  *)
StructsListed ==
  \A t \in Reflected :
    LET owners == {x \in Owners(t) : Ext(x).valid /\ ~ Ext(x).provisional /\ ~ IsPromoted(x)}
        depends == DependsOf(t)
        listed == {depends[i] : i \in DOMAIN depends}
    IN /\ {x \in owners : ~ TakenForCore(x)} \subseteq listed
       /\ \A x \in listed : x \in owners \/ FinalOf(x) \in owners
       /\ \A i, j \in DOMAIN depends : i < j =>
            /\ depends[j] \notin {x \in Exts : Ext(depends[i]).promoted = x}
            /\ depends[i] = depends[j] => Ext(depends[i]).platform \/ Ext(depends[i]).promoted # None

(* The tables the generator writes are complete and name nothing twice:       *)
(* commands, structures and the extensions a structure may come from.         *)
TablesComplete == RegistryTypeOK /\ CommandsLookedUp /\ StructsReflected /\ StructsListed
=============================================================================
