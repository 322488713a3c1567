----------------------------- MODULE Granularity -----------------------------
(***************************************************************************)
(* vk_mem_alloc.h, VmaBlockBufferImageGranularity: a device with a         *)
(* bufferImageGranularity wants linear and tiled resources on different    *)
(* pages of that size. pages is m_RegionInfo; only the first and the last  *)
(* page of an allocation are counted, and small granularities are met by   *)
(* rounding the request up instead.                                        *)
(***************************************************************************)
EXTENDS Integers

CONSTANT MaxLow      \* MAX_LOW_BUFFER_IMAGE_GRANULARITY

AlignUp(x, a) == ((x + a - 1) \div a) * a

AlignDown(x, a) == (x \div a) * a

SuballocationTypes == {"free", "unknown", "buffer", "image", "linear", "optimal"}

(* VmaIsBufferImageGranularityConflict; "image" is IMAGE_UNKNOWN *)
Conflict(t, u) ==
  /\ "free" \notin {t, u}
  /\ \/ "unknown" \in {t, u}
     \/ {t, u} \in {{"buffer", "image"}, {"buffer", "optimal"}, {"image"},
                    {"image", "linear"}, {"image", "optimal"}, {"linear", "optimal"}}

Enabled(g) == g > MaxLow

StartPage(at, g) == at \div g

EndPage(at, size, g) == (at + size - 1) \div g

NoPages(total, g) ==
  [p \in IF Enabled(g) THEN 0 .. AlignUp(total, g) \div g - 1 ELSE {} |->
     [type |-> "free", count |-> 0]]

(* RoundupAllocRequest *)
Roundup(type, size, align, g) ==
  IF 1 < g /\ g <= MaxLow /\ type \in {"unknown", "image", "optimal"}
  THEN [size |-> AlignUp(size, g), align |-> IF align < g THEN g ELSE align]
  ELSE [size |-> size, align |-> align]

Taken(pages, p, type) == pages[p].count > 0 /\ Conflict(pages[p].type, type)

(* Fault: the last page is not looked at. *)
SettledByStart(pages, at, size, block, type, g) ==
  IF ~ Enabled(g) \/ ~ Taken(pages, StartPage(at, g), type) THEN {at}
  ELSE IF block.size < size + AlignUp(at, g) - block.at THEN {} ELSE {AlignUp(at, g)}

(* CheckConflictAndAlignUp: where in the free block the allocation can go,  *)
(* if anywhere.                                                             *)
Settled(pages, at, size, block, type, g) ==
  IF ~ Enabled(g) THEN {at}
  ELSE LET first == StartPage(at, g)
           moved == Taken(pages, first, type)
           to == IF moved THEN AlignUp(at, g) ELSE at
           start == IF moved THEN first + 1 ELSE first
           end == EndPage(to, size, g)
       IN  IF \/ moved /\ block.size < size + to - block.at
              \/ end # start /\ Taken(pages, end, type)
           THEN {} ELSE {to}

PageTaken(page, type) ==
  [type |-> IF page.count = 0 \/ page.type = "free" THEN type ELSE page.type,
   count |-> page.count + 1]

PageLeft(page) ==
  [type |-> IF page.count = 1 THEN "free" ELSE page.type, count |-> page.count - 1]

(* The pages an allocation is counted on. *)
Touched(at, size, g) ==
  IF Enabled(g) THEN {StartPage(at, g), EndPage(at, size, g)} ELSE {}

(* AllocPages *)
PagesTaken(pages, type, at, size, g) ==
  [p \in DOMAIN pages |->
     IF p \in Touched(at, size, g) THEN PageTaken(pages[p], type) ELSE pages[p]]

(* FreePages *)
PagesLeft(pages, at, size, g) ==
  [p \in DOMAIN pages |->
     IF p \in Touched(at, size, g) THEN PageLeft(pages[p]) ELSE pages[p]]
=============================================================================
