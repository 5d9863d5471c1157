------------------------------- MODULE RefText -------------------------------
(***************************************************************************)
(* What gap_buffer.h and gap_buffer/README.md promise: a text of Unicode   *)
(* symbols with a cursor in it and a number of free bytes.  The text is    *)
(* kept as the symbols left and right of the cursor, each one a code       *)
(* point.                                                                  *)
(***************************************************************************)
EXTENDS Integers, Sequences, SequencesExt, FiniteSetsExt

CONSTANTS Texts,       \* what is inserted: sequences of code points
          Capacities,  \* sizes of the memory given to create and clone
          MaxNum       \* bound of the model: the largest count in a call

VARIABLES left, right, room

refTextVars == <<left, right, room>>

(* The length of the UTF-8 encoding of a code point *)
Width(rune) ==
    CASE rune < 128    -> 1
      [] rune < 2048   -> 2
      [] rune < 65536  -> 3
      [] OTHER         -> 4

Bytes(runes) == FoldLeft(LAMBDA n, rune : n + Width(rune), 0, runes)

RefInit ==
    /\ left = <<>>
    /\ right = <<>>
    /\ room \in Capacities

(* An insertion that does not fit changes nothing, which is a stuttering   *)
(* step.                                                                   *)
Insert(runes) ==
    /\ Bytes(runes) <= room
    /\ left' = left \o runes
    /\ room' = room - Bytes(runes)
    /\ UNCHANGED right

(* GapBuffer_insertStringMaybeRelocate on a buffer without room for the    *)
(* string: "behaves like the previous one but relocates the buffer" (line  *)
(* 153 of the README), whatever the size of the new one.                   *)
Relocate(runes) ==
    /\ Bytes(runes) > room
    /\ left' = left \o runes
    /\ room' \in Nat
    /\ UNCHANGED right

(* The cursor moves n symbols to the left or to the right, or as far as    *)
(* there are symbols.                                                      *)
MoveTo(n) ==
    LET text == left \o right
        k == Min({n, Len(text)})
    IN  /\ left' = SubSeq(text, 1, k)
        /\ right' = SubSeq(text, k + 1, Len(text))
        /\ UNCHANGED room

RemoveLeft(n) ==
    LET k == Max({Len(left) - n, 0})
    IN  /\ left' = SubSeq(left, 1, k)
        /\ room' = room + Bytes(SubSeq(left, k + 1, Len(left)))
        /\ UNCHANGED right

RemoveRight(n) ==
    LET k == Min({n, Len(right)})
    IN  /\ right' = SubSeq(right, k + 1, Len(right))
        /\ room' = room + Bytes(SubSeq(right, 1, k))
        /\ UNCHANGED left

Resize(capacity) ==
    /\ Bytes(left) + Bytes(right) <= capacity
    /\ room' = capacity - Bytes(left) - Bytes(right)
    /\ UNCHANGED <<left, right>>

RefNext ==
    \/ \E runes \in Texts : Insert(runes) \/ Relocate(runes)
    \/ \E n \in 0 .. MaxNum :
          \/ MoveTo(n)
          \/ MoveTo(Len(left) + n)
          \/ MoveTo(Max({Len(left) - n, 0}))
          \/ RemoveLeft(n)
          \/ RemoveRight(n)
    \/ \E capacity \in Capacities : Resize(capacity)

RefSpec == RefInit /\ [][RefNext]_refTextVars
=============================================================================
