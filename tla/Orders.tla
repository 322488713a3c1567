------------------------------- MODULE Orders -------------------------------
(***************************************************************************)
(* What linked lists promise: each list is an order of its items, and an   *)
(* item is in one list at most.                                            *)
(***************************************************************************)
EXTENDS Integers, Sequences, SequencesExt

CONSTANTS Lists, Elements

VARIABLE order   \* list -> its items from the first to the last

Init == order = [l \in Lists |-> <<>>]

Unlisted(x) == \A l \in Lists : x \notin Range(order[l])

(* x is from now on the i-th item of l. *)
Put(l, i, x) ==
  /\ Unlisted(x)
  /\ order' = [order EXCEPT ![l] = InsertAt(@, i, x)]

Take(l, i) == order' = [order EXCEPT ![l] = RemoveAt(@, i)]

Clear(l) == order' = [order EXCEPT ![l] = <<>>]

Move(l, from) ==
  /\ order[l] = <<>>
  /\ order' = [order EXCEPT ![l] = order[from], ![from] = <<>>]

Next ==
  \E l \in Lists :
    \/ \E x \in Elements : \E i \in 1 .. Len(order[l]) + 1 : Put(l, i, x)
    \/ \E i \in DOMAIN order[l] : Take(l, i)
    \/ Clear(l)
    \/ \E from \in Lists \ {l} : Move(l, from)

Spec == Init /\ [][Next]_order
=============================================================================
