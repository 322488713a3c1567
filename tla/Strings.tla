------------------------------ MODULE Strings ------------------------------
(***************************************************************************)
(* include/vkm/std/string.hpp: strings that own a terminated array of      *)
(* characters, and the builder that collects what is written to it.        *)
(***************************************************************************)
EXTENDS Integers, Sequences

CONSTANTS
  Chars,
  Nul,           \* the terminator
  Garbage,       \* what a cell holds before anything is written to it
  Names,         \* the strings
  BlockSize,     \* 256 in the code
  MaxText        \* bound on the length of a text

ASSUME StringAssumption ==
  /\ Nul \notin Chars
  /\ Garbage \notin Chars \union {Nul}
  /\ BlockSize \in Nat \ {0}
  /\ MaxText \in Nat

VARIABLES
  str,         \* name -> [buf, len], buf being <<>> for nullptr and cap + 1 cells else
  builder,     \* likewise with cap cells
  equal,       \* what == answered last
  strFatal     \* abort was called

strVars == <<str, builder, equal, strFatal>>

Unset == [buf |-> <<>>, len |-> 0]

StrInit ==
  /\ str = [s \in Names |-> Unset]
  /\ builder = Unset
  /\ equal = {}
  /\ strFatal = FALSE

Texts == UNION {[1 .. n -> Chars] : n \in 0 .. MaxText}

(* The characters up to the length *)
Text(r) == SubSeq(r.buf, 1, r.len)

(* realloc to n cells *)
Realloc(buf, n) == [i \in 1 .. n |-> IF i <= Len(buf) THEN buf[i] ELSE Garbage]

(* memcpy, strncpy and snprintf of a text behind the first off cells *)
Over(buf, off, text) ==
  [i \in DOMAIN buf |-> IF i \in off + 1 .. off + Len(text) THEN text[i - off] ELSE buf[i]]

(* alloc(n), which does not shrink *)
Alloc(r, n) ==
  IF Len(r.buf) < n + 1 THEN [r EXCEPT !.buf = [Realloc(r.buf, n + 1) EXCEPT ![r.len + 1] = Nul]]
  ELSE r

(* copy: of an empty text nothing, not even the length. *)
CopyTo(r, off, text) ==
  IF text = <<>> THEN r
  ELSE [buf |-> Over(Alloc(r, off + Len(text)).buf, off, Append(text, Nul)),
        len |-> off + Len(text)]

(* The constructors and operator= from characters or another string *)
Assign(s, text) ==
  /\ str' = [str EXCEPT ![s] = CopyTo(str[s], 0, text)]
  /\ UNCHANGED <<builder, equal, strFatal>>

(* clear, which dereferences the array it must have *)
ClearText(s) ==
  /\ str[s].buf # <<>>
  /\ str' = [str EXCEPT ![s] = [buf |-> [@.buf EXCEPT ![1] = Nul], len |-> 0]]
  /\ UNCHANGED <<builder, equal, strFatal>>

(* operator+, moved into t *)
Concatenate(t, s, text) ==
  LET n == str[s].len + Len(text)
  IN  \/ /\ n = 0
         /\ strFatal' = TRUE
         /\ UNCHANGED <<str, builder, equal>>
      \/ /\ n \in 1 .. MaxText
         /\ str' = [str EXCEPT ![t] =
                      CopyTo(CopyTo(Alloc(Unset, n), 0, Text(str[s])), str[s].len, text)]
         /\ UNCHANGED <<builder, equal, strFatal>>

(* operator=(string&&) *)
Move(t, s) ==
  /\ str' = [str EXCEPT ![t] = str[s], ![s] = Unset]
  /\ UNCHANGED <<builder, equal, strFatal>>

(* ~string, and a new one in its place *)
FreeText(s) ==
  /\ str' = [str EXCEPT ![s] = Unset]
  /\ UNCHANGED <<builder, equal, strFatal>>

(* How many characters strncmp may look at *)
LookedAt(a, b) == IF a.len < b.len THEN b.len ELSE a.len

(* strncmp of n characters is 0: equal up to there, or up to a terminator. *)
SameUpTo(a, b, n) ==
  \A i \in 1 .. n :
    (\A j \in 1 .. i - 1 : a[j] = b[j] /\ a[j] # Nul) => a[i] = b[i]

(* operator==, and operator!= the other way round, of two that have arrays *)
Equal(s, t) ==
  /\ str[s].buf # <<>> /\ str[t].buf # <<>>
  /\ equal' = {<<s, t, SameUpTo(str[s].buf, str[t].buf, LookedAt(str[s], str[t]))>>}
  /\ UNCHANGED <<str, builder, strFatal>>

-----------------------------------------------------------------------------
(* stringbuilder *)

(* grow(n): whole blocks *)
GrownTo(cap, n) == ((cap + n + BlockSize - 1) \div BlockSize) * BlockSize

Space == Len(builder.buf) - builder.len

(* The array once there is room for n more characters and the terminator *)
EnoughFor(n) ==
  IF n + 1 > Space THEN Realloc(builder.buf, GrownTo(Len(builder.buf), n + 1 - Space))
  ELSE builder.buf

(* write of a text *)
Write(text) ==
  /\ builder' = IF text = <<>> THEN builder
                ELSE [buf |-> Over(EnoughFor(Len(text)), builder.len, Append(text, Nul)),
                      len |-> builder.len + Len(text)]
  /\ UNCHANGED <<str, equal, strFatal>>

(* snprintf into space cells behind the length *)
Printed(buf, space, text) ==
  IF space = 0 THEN buf
  ELSE Over(buf, builder.len,
            Append(SubSeq(text, 1, IF Len(text) < space THEN Len(text) ELSE space - 1), Nul))

(* Fault: what did not fit is not printed again. *)
PrintedOnce(text) ==
  Realloc(Printed(builder.buf, Space, text), Len(EnoughFor(Len(text))))

(* Printed where it may not fit, and printed again after growing if so *)
PrintedAll(text) ==
  IF Len(text) + 1 > Space THEN Printed(EnoughFor(Len(text)), Len(text) + 1, text)
  ELSE Printed(builder.buf, Space, text)

(* write of a format, which is also operator<< of numbers *)
WriteFormat(text) ==
  /\ builder' = [buf |-> PrintedAll(text), len |-> builder.len + Len(text)]
  /\ UNCHANGED <<str, equal, strFatal>>

(* The length without the last n characters *)
Left(n) == IF n < builder.len THEN builder.len - n ELSE 0

(* backspace *)
Backspace(n) ==
  /\ builder' = IF builder.len = 0 THEN builder
                ELSE [buf |-> [builder.buf EXCEPT ![Left(n) + 1] = Nul], len |-> Left(n)]
  /\ UNCHANGED <<str, equal, strFatal>>

(* reset, which dereferences the array it must have *)
Reset ==
  /\ builder.buf # <<>>
  /\ builder' = [buf |-> [builder.buf EXCEPT ![1] = Nul], len |-> 0]
  /\ UNCHANGED <<str, equal, strFatal>>

(* str, moved into s *)
Str(s) ==
  /\ str' = [str EXCEPT ![s] = CopyTo(Unset, 0, Text(builder))]
  /\ UNCHANGED <<builder, equal, strFatal>>

(* The builder is destroyed and another made. *)
FreeBuilder == builder' = Unset /\ UNCHANGED <<str, equal, strFatal>>

BuilderCall ==
  \/ \E text \in Texts :
       builder.len + Len(text) <= MaxText /\ (Write(text) \/ WriteFormat(text))
  \/ \E n \in 1 .. MaxText : Backspace(n)
  \/ Reset
  \/ FreeBuilder

StringCall ==
  \E s \in Names :
    \/ \E text \in Texts : Assign(s, text) \/ \E t \in Names : Concatenate(t, s, text)
    \/ ClearText(s) \/ FreeText(s) \/ Str(s)
    \/ \E t \in Names \ {s} : Move(t, s) \/ Equal(s, t)

StrNext ==
  \/ ~ strFatal /\ (StringCall \/ BuilderCall)
  \/ strFatal /\ UNCHANGED strVars

StrSpec == StrInit /\ [][StrNext]_strVars
-----------------------------------------------------------------------------
(* Type invariant *)
StrTypeOK ==
  /\ \A r \in {str[s] : s \in Names} \union {builder} :
       /\ r.len \in 0 .. MaxText
       /\ r.buf \in Seq(Chars \union {Nul, Garbage})
  /\ strFatal \in BOOLEAN

(* What is handed out as a C string ends where the length says, within its *)
(* array, and nothing before was never written.                            *)
Terminated ==
  \A r \in {str[s] : s \in Names} \union {builder} :
    r.buf # <<>> =>
      /\ r.len < Len(r.buf)
      /\ r.buf[r.len + 1] = Nul
      /\ \A i \in 1 .. r.len : r.buf[i] \in Chars

(* == of two strings says whether they have the same text, whatever is left *)
(* in their arrays behind it.                                              *)
EqualMeansSame ==
  \A s, t \in Names : s # t /\ Equal(s, t) =>
    equal' = {<<s, t, Text(str[s]) = Text(str[t])>>}

(* Appending extends the text by what is written, however often the first   *)
(* attempt ran out of room; nothing else changes.                          *)
WritesAppend ==
  \A text \in Texts :
    Write(text) \/ WriteFormat(text) => Text(builder)' = Text(builder) \o text

(* Assigning makes the string read what is assigned; an empty text is       *)
(* excluded because copy ignores it.                                       *)
AssignTakes ==
  \A s \in Names, text \in Texts \ {<<>>} : Assign(s, text) => Text(str[s])' = text

(* Together, of every state and every call that changes one: strings end     *)
(* where they should, compare by their text and take what they are assigned, *)
(* and a builder appends what is written.                                   *)
StringsHold ==
  /\ [](StrTypeOK /\ Terminated)
  /\ [][strVars' # strVars => EqualMeansSame /\ WritesAppend /\ AssignTakes]_strVars
=============================================================================
