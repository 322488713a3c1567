-------------------------------- MODULE Lists --------------------------------
(***************************************************************************)
(* What vectors promise: each is a list of its own, compacting keeps the   *)
(* first of every run of equal elements, and sorting and compacting leaves *)
(* the set of the elements in order.                                       *)
(***************************************************************************)
EXTENDS Integers, Sequences, FiniteSets, Functions, SequencesExt

CONSTANTS
  Elements,   \* numbers, so that they can be sorted
  Default,    \* what resize fills up with
  Names

VARIABLE lists

Init == lists = [v \in Names |-> <<>>]

Becomes(v, list) == lists' = [lists EXCEPT ![v] = list]

(* Only v changes; lists'[v] is constrained by the rest. *)
Only(v) == lists' \in [Names -> Seq(Elements)] /\ \A w \in Names \ {v} : lists'[w] = lists[w]

Add(v) == Only(v) /\ IsPrefix(lists[v], lists'[v])

RemoveLast(v) == lists[v] # <<>> /\ Becomes(v, Front(lists[v]))

Resize(v) ==
  /\ Only(v)
  /\ \/ IsPrefix(lists'[v], lists[v])
     \/ /\ IsPrefix(lists[v], lists'[v])
        /\ \A i \in DOMAIN lists'[v] \ DOMAIN lists[v] : lists'[v][i] = Default

Copy(v, w) == Becomes(v, lists[w])

Move(v, w) == lists' = [lists EXCEPT ![v] = lists[w], ![w] = <<>>]

(* new is list without the elements that repeat the one before. *)
IsCompacted(new, list) ==
  LET first == {i \in DOMAIN list : i = 1 \/ list[i] # list[i - 1]}
  IN  /\ Len(new) = Cardinality(first)
      /\ \A i \in first : new[Cardinality(first \intersect (1 .. i))] = list[i]

Compact(v) == Only(v) /\ IsCompacted(lists'[v], lists[v])

SortCompact(v) ==
  /\ Only(v)
  /\ Range(lists'[v]) = Range(lists[v])
  /\ \A i, j \in DOMAIN lists'[v] : i < j => lists'[v][i] < lists'[v][j]

Next ==
  \E v \in Names :
    \/ Add(v) \/ RemoveLast(v) \/ Resize(v) \/ Compact(v) \/ SortCompact(v)
    \/ \E w \in Names \ {v} : Copy(v, w)
    \/ \E w \in Names : Move(v, w)

Spec == Init /\ [][Next]_lists
=============================================================================
