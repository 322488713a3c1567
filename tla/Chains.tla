------------------------------- MODULE Chains -------------------------------
(***************************************************************************)
(* src/reflect_struct.hpp: chains of structures linked by pNext, kept as a *)
(* vector of pointers so that more can be appended. A vector entry owns    *)
(* its structure or refers to one of the caller's.                         *)
(***************************************************************************)
EXTENDS Integers, Sequences, Functions, SequencesExt, TLC

CONSTANTS
  STypes,
  Unknown,       \* an sType the reflection does not know
  Places,        \* where a structure can be in memory
  Null,
  MaxChain,      \* bound on the length of the chain
  LongAppends    \* chains of several structures may be appended by reference

ASSUME ChainAssumption ==
  /\ Unknown \notin STypes
  /\ Null \notin Places
  /\ MaxChain \in Nat

VARIABLES
  memory,        \* place -> [sType, pNext] of the structures there are
  chain,         \* the vector: a sequence of [at, owned]
  given,         \* the places of the caller's chain when it made it
  chainAborted

chainVars == <<memory, chain, given, chainAborted>>

ChainInit ==
  /\ memory = << >>
  /\ chain = <<>>
  /\ given = <<>>
  /\ chainAborted = FALSE

FreePlaces == Places \ DOMAIN memory

(* Memory m with the structures of new allocated in it as well *)
Placed(new, m) ==
  [p \in DOMAIN new \union DOMAIN m |-> IF p \in DOMAIN new THEN new[p] ELSE m[p]]

(* The places linked from p on, up to one where there is no structure any more *)
Walk(p) ==
  LET from[q \in Places \union {Null}] ==
        IF q = Null THEN <<>>
        ELSE <<q>> \o (IF q \in DOMAIN memory THEN from[memory[q].pNext] ELSE <<>>)
  IN  from[p]

STypesAt(places) == [i \in DOMAIN places |-> memory[places[i]].sType]

ChainPlaces == [i \in DOMAIN chain |-> chain[i].at]

(* The structure at i links to the next; the last one to none. *)
Linked(places, i) == IF i = Len(places) THEN Null ELSE places[i + 1]

(* The caller links structures of its own. *)
MakeGiven(sTypes) ==
  /\ given = <<>>
  /\ \E places \in [DOMAIN sTypes -> FreePlaces] :
       /\ IsInjective(places)
       /\ given' = places
       /\ memory' = Placed([p \in Range(places) |->
                              LET i == CHOOSE j \in DOMAIN places : places[j] = p
                              IN  [sType |-> sTypes[i], pNext |-> Linked(places, i)]], memory)
  /\ UNCHANGED <<chain, chainAborted>>

(* The caller's structures go out of scope; the chain must be done with them. *)
DropGiven ==
  /\ \A i \in DOMAIN chain : chain[i].owned
  /\ memory' = Restrict(memory, DOMAIN memory \ Range(given))
  /\ given' = <<>>
  /\ UNCHANGED <<chain, chainAborted>>

(* Fault: the copies keep the links of the originals. *)
WithCopiesUnlinked(from, to) ==
  Placed([p \in Range(to) |-> memory[from[CHOOSE j \in DOMAIN to : to[j] = p]]],
         IF chain = <<>> THEN memory ELSE [memory EXCEPT ![Last(chain).at].pNext = to[1]])

(* memory once copies of the structures at from are at to, linked to each  *)
(* other and, when the chain has a last structure already, to that one.    *)
WithCopies(from, to) ==
  LET copies == [p \in Range(to) |->
                   LET i == CHOOSE j \in DOMAIN to : to[j] = p
                   IN  [sType |-> memory[from[i]].sType, pNext |-> Linked(to, i)]]
      old == IF chain = <<>> THEN memory
             ELSE [memory EXCEPT ![Last(chain).at].pNext = to[1]]
  IN  Placed(copies, old)

(* What the vector gains for the structures at places *)
Entries(places, isOwned) == [i \in DOMAIN places |-> [at |-> places[i], owned |-> isOwned]]

(* A caller hands in a chain whose links are still the ones it made. *)
Presentable ==
  given # <<>> /\ \A i \in DOMAIN given : memory[given[i]].pNext = Linked(given, i)

(* The loops that clone: they follow pNext of the original, which copying    *)
(* leaves alone.                                                           *)
CloneInto(into) ==
  LET from == Walk(given[1])
  IN  /\ Presentable
      /\ Len(into) + Len(from) <= MaxChain
      /\ \/ /\ Unknown \in Range(STypesAt(from))
            /\ chainAborted' = TRUE
            /\ UNCHANGED <<memory, chain>>
         \/ /\ Unknown \notin Range(STypesAt(from))
            /\ \E to \in [DOMAIN from -> FreePlaces] :
                 /\ IsInjective(to)
                 /\ memory' = WithCopies(from, to)
                 /\ chain' = into \o Entries(to, TRUE)
            /\ UNCHANGED chainAborted
      /\ UNCHANGED given

(* cloneVkStructureChain, moved onto a vector without a chain *)
CloneVkStructureChain == chain = <<>> /\ CloneInto(<<>>)

(* appendVkStructureChain with alloc *)
AppendCopies == CloneInto(chain)

(* appendVkStructureChain without: the structure itself becomes the last of  *)
(* the chain, so its pNext is cleared before the loop follows it, and the   *)
(* loop is over after the first.                                           *)
AppendGiven ==
  /\ Presentable
  /\ Len(given) = 1 \/ LongAppends
  /\ given[1] \notin Range(ChainPlaces)
  /\ Len(chain) < MaxChain
  /\ LET cleared == [memory EXCEPT ![given[1]].pNext = Null]
     IN  memory' = IF chain = <<>> THEN cleared
                   ELSE [cleared EXCEPT ![Last(chain).at].pNext = given[1]]
  /\ chain' = chain \o Entries(<<given[1]>>, FALSE)
  /\ UNCHANGED <<given, chainAborted>>

(* ~vector: what the entries own is freed. *)
DropChain ==
  /\ memory' = Restrict(memory, DOMAIN memory \ {chain[i].at : i \in {j \in DOMAIN chain : chain[j].owned}})
  /\ chain' = <<>>
  /\ UNCHANGED <<given, chainAborted>>

ChainCall ==
  \/ \E n \in 1 .. MaxChain : \E sTypes \in [1 .. n -> STypes \union {Unknown}] : MakeGiven(sTypes)
  \/ DropGiven
  \/ CloneVkStructureChain
  \/ AppendCopies
  \/ AppendGiven
  \/ DropChain

ChainNext ==
  \/ ~ chainAborted /\ ChainCall
  \/ chainAborted /\ UNCHANGED chainVars

ChainSpec == ChainInit /\ [][ChainNext]_chainVars
-----------------------------------------------------------------------------
(* Type invariant *)
ChainTypeOK ==
  /\ DOMAIN memory \subseteq Places
  /\ \A p \in DOMAIN memory :
       memory[p].sType \in STypes \union {Unknown} /\ memory[p].pNext \in Places \union {Null}
  /\ chain \in Seq([at : Places, owned : BOOLEAN])
  /\ given \in Seq(Places)

(* What the driver reads by following pNext from the first structure is the  *)
(* chain as the vector has it: nothing is skipped, nothing follows the last, *)
(* and every structure on the way is still there.                          *)
ChainLinked ==
  /\ Range(ChainPlaces) \subseteq DOMAIN memory
  /\ chain # <<>> => Walk(chain[1].at) = ChainPlaces

(* Every structure of the chain that was handed in is appended, in order.   *)
AppendsAll ==
  [][AppendCopies \/ AppendGiven => STypesAt(ChainPlaces)' =
       STypesAt(ChainPlaces) \o STypesAt(Walk(given[1]))
     \/ chainAborted']_chainVars

(* Together: the list the driver walks is the chain of the vector, and an     *)
(* append adds all it is given (cloneVkStructureChain, appendVkStructureChain). *)
ChainsHold == [](ChainTypeOK /\ ChainLinked) /\ AppendsAll
=============================================================================
