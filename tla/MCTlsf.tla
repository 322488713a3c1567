------------------------------- MODULE MCTlsf -------------------------------
(***************************************************************************)
(* Requests of the kinds vkm makes: buffers, and images that must not      *)
(* share a page with them; of sizes for small and for large lists.         *)
(***************************************************************************)
EXTENDS Tlsf

Request(size, align, type, strategy) ==
  [size |-> size, align |-> align, type |-> type, strategy |-> strategy]

MCRequests ==
  {Request(1, 1, "buffer", "none"), Request(3, 4, "linear", "time"),
   Request(3, 1, "optimal", "memory"), Request(5, 2, "optimal", "offset"),
   Request(6, 1, "buffer", "none")}
=============================================================================
