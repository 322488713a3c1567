------------------------- MODULE DeferredDestruction -------------------------
(***************************************************************************)
(* What the frames of a context promise about memory: a thing is given up  *)
(* first and destroyed later, and by then no unfinished work uses it.      *)
(* Nothing is said of frames, slots or timeline values.                    *)
(***************************************************************************)
CONSTANT Things

VARIABLES
  exists,    \* the things that have not been destroyed
  retired,   \* those among them that may be destroyed
  work       \* the submissions the GPU has not finished: [id, uses]

destructionVars == <<exists, retired, work>>

Init ==
  /\ exists \subseteq Things
  /\ retired = {}
  /\ work = {}

Retire(t) ==
  /\ t \in exists \ retired
  /\ retired' = retired \union {t}
  /\ UNCHANGED <<exists, work>>

(* A thing made for one frame is given up as it is made. *)
Lease(t) ==
  /\ t \in Things \ exists
  /\ exists' = exists \union {t}
  /\ retired' = retired \union {t}
  /\ UNCHANGED work

Submit(w) ==
  /\ w \notin work
  /\ w.uses \subseteq exists
  /\ work' = work \union {w}
  /\ UNCHANGED <<exists, retired>>

Finish(w) ==
  /\ w \in work
  /\ work' = work \ {w}
  /\ UNCHANGED <<exists, retired>>

Destroy(D) ==
  /\ D \subseteq retired
  /\ \A w \in work : w.uses \intersect D = {}
  /\ exists' = exists \ D
  /\ retired' = retired \ D
  /\ UNCHANGED work

Next ==
  \/ \E t \in Things : Retire(t) \/ Lease(t)
  \/ \E w \in work' \ work : Submit(w)
  \/ \E w \in work : Finish(w)
  \/ \E D \in SUBSET retired : Destroy(D)

Spec == Init /\ [][Next]_destructionVars
=============================================================================
