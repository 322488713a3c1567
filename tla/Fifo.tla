-------------------------------- MODULE Fifo --------------------------------
(***************************************************************************)
(* What a queue promises: elements come out in the order they went in, and *)
(* looking at one finds it where that order puts it.                       *)
(***************************************************************************)
EXTENDS Naturals, Sequences

CONSTANT Elements

VARIABLES
  queue,   \* what is in it, the oldest first
  out      \* what the last call returned, or none yet

fifoVars == <<queue, out>>

Init == queue = <<>> /\ out = {}

Put(e) == queue' = Append(queue, e) /\ UNCHANGED out

Take ==
  /\ queue # <<>>
  /\ out' = {queue[1]}
  /\ queue' = Tail(queue)

Look(i) == i \in DOMAIN queue /\ out' = {queue[i]} /\ UNCHANGED queue

(* It is destroyed, or another queue takes over its contents. *)
GiveUp == queue' = <<>> /\ UNCHANGED out

Next ==
  \/ \E e \in Elements : Put(e)
  \/ Take
  \/ \E i \in DOMAIN queue : Look(i)
  \/ GiveUp

Spec == Init /\ [][Next]_fifoVars
=============================================================================
