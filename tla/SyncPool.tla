------------------------------ MODULE SyncPool ------------------------------
(***************************************************************************)
(* What the recycling of synchronisation objects promises its callers: a   *)
(* handle is either free or lent, none is forgotten, and the driver is     *)
(* asked for a new one only when none is free.                             *)
(***************************************************************************)
CONSTANTS
  Handles,
  BorrowersDestroy   \* a borrower may destroy a handle instead of returning it

VARIABLES
  free,   \* handles waiting to be lent again
  lent    \* handles some caller holds

poolVars == <<free, lent>>

Init == free = {} /\ lent = {}

(* Callers hand back, destroy or are lent handles, several in one call. *)
Recycle ==
  /\ free' \in SUBSET Handles
  /\ lent' \in SUBSET Handles
  /\ free' \intersect lent' = {}
  /\ free \subseteq free' \union lent'
  /\ BorrowersDestroy \/ lent \subseteq free' \union lent'
  /\ free' \subseteq free \union lent
  /\ ~ lent' \subseteq free \union lent => free' = {}

(* The pool is emptied with its device. *)
Clear == free' = {} /\ lent' = lent

Next == Recycle \/ Clear

Spec == Init /\ [][Next]_poolVars
=============================================================================
