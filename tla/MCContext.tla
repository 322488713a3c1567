------------------------------ MODULE MCContext ------------------------------
(* Values for TLC that a .cfg cannot spell, and symmetry of the handles.   *)
EXTENDS Context, TLC

OneMode  == [m \in Modes |-> {m}]
FifoList == {<<"FIFO">>}

(* FIFO and MAILBOX can replace one another without a new VkSwapchainKHR. *)
FifoMailbox ==
  [m \in Modes |-> IF m \in {"FIFO", "MAILBOX"} THEN {"FIFO", "MAILBOX"} ELSE {m}]
ModeLists == {<<>>, <<"MAILBOX">>, <<"FIFO_RELAXED", "IMMEDIATE", "FIFO">>}

Handles ==
  UNION {Permutations(S) : S \in {Semaphores, Fences, Objects, Buffers}}
HandlesAndSwapchains == Handles \union Permutations(Swapchains)
=============================================================================
