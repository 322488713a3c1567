------------------------------ MODULE MCDevice ------------------------------
(***************************************************************************)
(* Start-up and device memory, which share no state: the first state       *)
(* chooses which of them runs, the other stays as it began.                *)
(***************************************************************************)
EXTENDS MCStartup, Memory

CONSTANTS Parts   \* which of "startup" and "memory"

VARIABLE part

(* Two threads that create for the host, in the same blocks, and one of them *)
(* images too; or one with a context and one that creates images.            *)
MCUses ==
  LET one == CHOOSE t \in Threads : TRUE
      Both(some, others) == [t \in Threads |-> IF t = one THEN some ELSE others]
  IN  {Both({"host"}, {"host", "device"}), Both({"scratch"}, {"device"})}

(* A GPU with memory of its own, of which one type is better left alone.     *)
MCMemoryTypes ==
  <<[flags |-> {"device", "uncached"}, heap |-> "gpu"], [flags |-> {"device"}, heap |-> "gpu"],
    [flags |-> {"visible", "coherent", "cached"}, heap |-> "host"]>>

(* What is larger than half a block gets dedicated memory first by itself, so  *)
(* to prefer it tells for what is smaller, to require it for what is larger   *)
(* when there are many memories already.                                     *)
MCWishes == {<<"device", 2, "prefers">>, <<"device", 5, "requires">>}

MCHeapSizes == [gpu |-> 5, host |-> 8]

Names == AnyInstance \union Permutations(Handles)

MCInit ==
  /\ part \in Parts
  /\ InitializerInit /\ MemoryInit
  /\ part # "startup" => system = CHOOSE s \in Systems : TRUE
  /\ part # "memory" => uses = CHOOSE u \in Uses : TRUE

MCNext ==
  /\ \/ part = "startup" /\ InitializerNext /\ UNCHANGED memoryVars
     \/ part = "memory" /\ MemoryNext /\ UNCHANGED <<initializerVars, runtimeVars>>
  /\ UNCHANGED part

MCSpec == MCInit /\ [][MCNext]_<<part, initializerVars, runtimeVars, memoryVars>>
=============================================================================
